---------------------------- MODULE WebAppProof -----------------------------
(***************************************************************************)
(* What a page makes of a list of messages, message by message.  WebApp    *)
(* folds over sequences; a fold is a choice among the functions that obey  *)
(* an equation, so the lemmas first show that there is one.                *)
(***************************************************************************)
EXTENDS WebApp, SequenceTheorems, WellFoundedInduction, TLAPS

-----------------------------------------------------------------------------
(* Induction and folds.                                                    *)

\* Induction over the numbers, for a property given as a set.
LEMMA InductionOverNat ==
  ASSUME NEW P, 0 \in P, \A n \in Nat : n \in P => n + 1 \in P
  PROVE  Nat \subseteq P
<1>1. PICK R : IsWellFoundedOn(R, Nat) /\ \A x, y \in Nat : x < y => <<x, y>> \in R
  <2>1. \A x, y \in Nat : x < y => <<x, y>> \in OpToRel(<, Nat)
    BY DEF OpToRel
  <2> QED BY <2>1, NatLessThanWellFounded, Zenon
<1>2. SUFFICES ASSUME Nat \ P # {} PROVE FALSE
  OBVIOUS
<1>3. PICK x \in Nat \ P : \A y \in Nat \ P : ~(<<y, x>> \in R)
  <2>1. IsWellFoundedOn(R, Nat) /\ Nat \ P \subseteq Nat /\ Nat \ P # {}
    BY <1>1, <1>2
  <2> QED BY ONLY <2>1, WFMin, Zenon
<1>4. x # 0 /\ x - 1 \in Nat /\ x - 1 < x
  BY <1>3
<1>5. x - 1 \notin P
  BY <1>3, <1>4
<1> QED BY <1>1, <1>3, <1>4, <1>5

\* The greatest of the first numbers.
LEMMA MaxOf ==
  ASSUME NEW n \in Nat, NEW T \in SUBSET (1..n), T # {}
  PROVE  /\ Max(T) \in T /\ \A y \in T : Max(T) >= y
         /\ n \in T => Max(T) = n
<1> DEFINE P == {m \in Nat : \A U \in SUBSET (1..m) : U # {} => \E x \in U : \A y \in U : x >= y}
<1>1. 0 \in P
  <2>1. 1..0 = {}
    OBVIOUS
  <2>2. \A U \in SUBSET (1..0) : U = {}
    BY <2>1
  <2> QED BY <2>2
<1>2. ASSUME NEW m \in Nat, m \in P
      PROVE  m + 1 \in P
  <2>1. ASSUME NEW U \in SUBSET (1..(m + 1)), U # {}
        PROVE  \E x \in U : \A y \in U : x >= y
    <3>1. CASE m + 1 \in U
      BY <3>1
    <3>2. CASE m + 1 \notin U
      <4>1. U \in SUBSET (1..m)
        BY <3>2
      <4> QED BY <1>2, <2>1, <4>1
    <3> QED BY <3>1, <3>2
  <2> QED BY <2>1
<1>3. n \in P
  <2> HIDE DEF P
  <2> QED BY <1>1, <1>2, InductionOverNat
<1>4. \E x \in T : \A y \in T : x >= y
  BY <1>3
<1>5. Max(T) \in T /\ \A y \in T : Max(T) >= y
  BY <1>4 DEF Max
<1>6. Max(T) \in 1..n
  BY <1>5
<1>7. n \in T => Max(T) >= n
  BY <1>5
<1> QED BY <1>5, <1>6, <1>7

\* There is a function such as a fold chooses.
Folds(h, f, base, s, n) ==
  h = [T \in SUBSET (1..n) |->
         IF T = {} THEN base ELSE f[<<h[T \ {Max(T)}], s[Max(T)]>>]]

LEMMA FoldExists ==
  ASSUME NEW f, NEW s, NEW n \in Nat, NEW S, NEW base \in S,
         \A x \in S, i \in 1..n : f[<<x, s[i]>>] \in S
  PROVE  \E h \in [SUBSET (1..n) -> S] : Folds(h, f, base, s, n)
<1> DEFINE Found(m) == \E h \in [SUBSET (1..m) -> S] : Folds(h, f, base, s, m)
           P == {m \in Nat : m <= n => Found(m)}
<1>1. 0 \in P
  <2>1. \A T \in SUBSET (1..0) : T = {}
    <3>1. 1..0 = {}
      OBVIOUS
    <3> QED BY <3>1
  <2>2. Folds([T \in SUBSET (1..0) |-> base], f, base, s, 0)
    BY <2>1 DEF Folds
  <2> QED BY <2>2
<1>2. ASSUME NEW m \in Nat, m \in P
      PROVE  m + 1 \in P
  <2>0. SUFFICES ASSUME m + 1 <= n
                 PROVE  Found(m + 1)
    <3> HIDE DEF Found
    <3> QED OBVIOUS
  <2>1. PICK h \in [SUBSET (1..m) -> S] : Folds(h, f, base, s, m)
    <3>1. Found(m)
      <4> HIDE DEF Found
      <4> QED BY <1>2, <2>0
    <3> QED BY <3>1
  <2>2. h = [T \in SUBSET (1..m) |->
               IF T = {} THEN base ELSE f[<<h[T \ {Max(T)}], s[Max(T)]>>]]
    BY <2>1 DEF Folds
  <2> DEFINE g == [T \in SUBSET (1..(m + 1)) |->
                    IF m + 1 \in T THEN f[<<h[T \ {m + 1}], s[m + 1]>>] ELSE h[T]]
  <2>3. ASSUME NEW T \in SUBSET (1..(m + 1))
        PROVE  g[T] = IF T = {} THEN base ELSE f[<<g[T \ {Max(T)}], s[Max(T)]>>]
    <3>1. CASE m + 1 \in T
      <4>1. Max(T) = m + 1 /\ T # {}
        BY <3>1, MaxOf
      <4>2. T \ {m + 1} \in SUBSET (1..(m + 1)) /\ m + 1 \notin T \ {m + 1}
        OBVIOUS
      <4>3. g[T \ {m + 1}] = h[T \ {m + 1}] /\ g[T] = f[<<h[T \ {m + 1}], s[m + 1]>>]
        BY <3>1, <4>2
      <4> QED BY <4>1, <4>3
    <3>2. CASE m + 1 \notin T
      <4>1. T \in SUBSET (1..m)
        BY <3>2
      <4>2. T # {} => T \ {Max(T)} \in SUBSET (1..(m + 1)) /\ m + 1 \notin T \ {Max(T)}
        BY <3>2
      <4>3. g[T] = h[T] /\ (T # {} => g[T \ {Max(T)}] = h[T \ {Max(T)}])
        BY <3>2, <4>2
      <4>4. h[T] = IF T = {} THEN base ELSE f[<<h[T \ {Max(T)}], s[Max(T)]>>]
        BY <2>2, <4>1
      <4> QED BY <4>3, <4>4
    <3> QED BY <3>1, <3>2
  <2>4. Folds(g, f, base, s, m + 1)
    <3> HIDE DEF g
    <3>1. g = [T \in SUBSET (1..(m + 1)) |-> g[T]]
      BY DEF g
    <3> QED BY <2>3, <3>1 DEF Folds
  <2>5. g \in [SUBSET (1..(m + 1)) -> S]
    <3>1. ASSUME NEW T \in SUBSET (1..(m + 1))
          PROVE  g[T] \in S
      <4>1. T \ {m + 1} \in SUBSET (1..m)
        <5>1. \A x \in T : x \in 1..m \/ x = m + 1
          OBVIOUS
        <5> QED BY <5>1
      <4>2. m + 1 \in 1..n
        BY <2>0
      <4>3. m + 1 \notin T => T \in SUBSET (1..m)
        OBVIOUS
      <4> QED BY <4>1, <4>2, <4>3
    <3> QED BY <3>1
  <2> QED BY <2>4, <2>5
<1> HIDE DEF P
<1>3. n \in P
  BY <1>1, <1>2, InductionOverNat
<1>4. Found(n)
  <2> HIDE DEF Found
  <2> QED BY <1>3 DEF P
<1> QED BY <1>4

\* A fold starts with what it is given, and stays inside any set its function stays in.
LEMMA FoldStarts ==
  ASSUME NEW f, NEW s, NEW n \in Nat, NEW h, NEW base, Folds(h, f, base, s, n)
  PROVE  h[1..0] = base
<1>1. \A T \in SUBSET (1..n) :
        h[T] = IF T = {} THEN base ELSE f[<<h[T \ {Max(T)}], s[Max(T)]>>]
  BY DEF Folds
<1>2. 1..0 = {} /\ {} \in SUBSET (1..n)
  OBVIOUS
<1> QED BY <1>1, <1>2

Stays(f, s, n, S) == \A x \in S, i \in 1..n : f[<<x, s[i]>>] \in S

LEMMA FoldStays ==
  ASSUME NEW f, NEW s, NEW n \in Nat, NEW h, NEW S, NEW base \in S,
         Folds(h, f, base, s, n), Stays(f, s, n, S)
  PROVE  /\ \A i \in 0..n : h[1..i] \in S
         /\ \A i \in 1..n : h[1..i] = f[<<h[1..(i - 1)], s[i]>>]
<1>1. \A T \in SUBSET (1..n) :
        h[T] = IF T = {} THEN base ELSE f[<<h[T \ {Max(T)}], s[Max(T)]>>]
  BY DEF Folds
<1>2. h[1..0] = base
  BY FoldStarts
<1>3. ASSUME NEW i \in 1..n
      PROVE  h[1..i] = f[<<h[1..(i - 1)], s[i]>>]
  <2>1. 1..i \in SUBSET (1..n) /\ 1..i \in SUBSET (1..i) /\ i \in 1..i /\ i \in Nat
    OBVIOUS
  <2>2. Max(1..i) = i
    BY <2>1, MaxOf
  <2>3. (1..i) \ {i} = 1..(i - 1)
    OBVIOUS
  <2> QED BY <1>1, <2>1, <2>2, <2>3
<1> DEFINE P == {i \in Nat : i <= n => h[1..i] \in S}
<1>4. \A i \in 0..n : h[1..i] \in S
  <2>1. 0 \in P
    BY <1>2
  <2>2. ASSUME NEW i \in Nat, i \in P
        PROVE  i + 1 \in P
    <3> SUFFICES ASSUME i + 1 <= n PROVE h[1..(i + 1)] \in S
      OBVIOUS
    <3>1. i + 1 \in 1..n /\ (i + 1) - 1 = i /\ h[1..i] \in S
      BY <2>2
    <3> QED BY <1>3, <3>1 DEF Stays
  <2> HIDE DEF P
  <2>3. Nat \subseteq P
    BY <2>1, <2>2, InductionOverNat
  <2> QED BY <2>3 DEF P
<1> QED BY <1>3, <1>4

\* What it is for the whole sequence is reached element by element.
LEMMA FoldSteps ==
  ASSUME NEW f, NEW s, NEW n \in Nat, NEW h, NEW S, NEW base \in S,
         Folds(h, f, base, s, n),
         \A x \in S, i \in 1..n : f[<<x, s[i]>>] \in S
  PROVE  \E v \in [0..n -> S] :
           /\ v[0] = base /\ v[n] = h[1..n]
           /\ \A i \in 1..n : v[i] = f[<<v[i - 1], s[i]>>]
<1>0. Stays(f, s, n, S)
  BY DEF Stays
<1>1. \A i \in 0..n : h[1..i] \in S
  BY <1>0, FoldStays
<1>2. h[{}] = base
  <2>1. \A T \in SUBSET (1..n) :
          h[T] = IF T = {} THEN base ELSE f[<<h[T \ {Max(T)}], s[Max(T)]>>]
    BY DEF Folds
  <2>2. {} \in SUBSET (1..n)
    OBVIOUS
  <2> QED BY <2>1, <2>2
<1>3. \A i \in 1..n : h[1..i] = f[<<h[1..(i - 1)], s[i]>>]
  BY <1>0, FoldStays
<1>4. 1..0 = {}
  OBVIOUS
<1> DEFINE v == [i \in 0..n |-> h[1..i]]
<1>5. v \in [0..n -> S] /\ v[0] = base /\ v[n] = h[1..n]
  BY <1>1, <1>2, <1>4
<1>6. \A i \in 1..n : v[i] = f[<<v[i - 1], s[i]>>]
  BY <1>3
<1> QED BY <1>5, <1>6

-----------------------------------------------------------------------------
(* The fields of a module.                                                 *)

\* What a value looks like is one line or none.
LEMMA FaceType ==
  ASSUME NEW type, NEW value \in Value
  PROVE  Face(type, value) \in Seq(Value)
<1>1. <<>> \in Seq(Value) /\ \A x \in Value : <<x>> \in Seq(Value)
  OBVIOUS
<1>2. "0" \in Value /\ "1" \in Value
  BY WebAppAssumption
<1>3. CASE type \in {"BUTTON_SW", "BUTTON_SW_IN"}
  <2>1. Face(type, value) \in {<<"0">>, <<"1">>}
    BY <1>3 DEF Face
  <2> QED BY <1>1, <1>2, <2>1
<1>4. CASE type = "BUTTON"
  <2>1. Face(type, value) = <<"1">>
    BY <1>4 DEF Face
  <2> QED BY <1>1, <1>2, <2>1
<1>5. CASE type \notin {"BUTTON_SW", "BUTTON_SW_IN", "BUTTON"}
  <2>1. Face(type, value) \in {<<>>, <<value>>}
    BY <1>5 DEF Face
  <2> QED BY <1>1, <2>1
<1> QED BY <1>3, <1>4, <1>5

\* A property has a field, of its own type.
LEMMA AddPropertiesType ==
  ASSUME NEW properties \in Seq(Property)
  PROVE  /\ AddProperties(properties) \in Seq(Field)
         /\ Len(AddProperties(properties)) = Len(properties)
         /\ \A k \in 1..Len(properties) : AddProperties(properties)[k].type = properties[k].type
<1>1. DOMAIN properties = 1..Len(properties) /\ Len(properties) \in Nat
  BY LenProperties
<1>2. \A k \in 1..Len(properties) : properties[k] \in Property
  BY ElementOfSeq
<1>3. \A k \in 1..Len(properties) :
        /\ properties[k].type \in PropertyType
        /\ Face(properties[k].type, properties[k].value) \in Seq(Value)
  BY <1>2, FaceType DEF Property
<1>4. AddProperties(properties) \in [1..Len(properties) -> Field]
  BY <1>1, <1>3 DEF AddProperties, Field
<1>5. AddProperties(properties) \in Seq(Field)
  BY <1>1, <1>4, IsASeq
<1> QED BY <1>1, <1>4, <1>5, LenProperties DEF AddProperties

\* The assignments setPoropertyValue comes to.
LEMMA KeptType ==
  ASSUME NEW fields \in Seq(Field), NEW list \in PropertyList
  PROVE  Kept(fields, list) \in PropertyList
<1> DEFINE I == {i \in 1..Len(list) : list[i].id >= Len(fields)}
<1>1. Len(list) \in Nat /\ I \in SUBSET (1..Len(list))
  BY LenProperties DEF PropertyList
<1>2. I # {} => Min(I) \in I
  <2> DEFINE P == {m \in Nat : \A U \in SUBSET (1..m) : U # {} => \E x \in U : \A y \in U : x =< y}
  <2>1. 0 \in P
    <3>1. \A U \in SUBSET (1..0) : U = {}
      <4>1. 1..0 = {}
        OBVIOUS
      <4> QED BY <4>1
    <3> QED BY <3>1
  <2>2. ASSUME NEW m \in Nat, m \in P
        PROVE  m + 1 \in P
    <3>1. ASSUME NEW U \in SUBSET (1..(m + 1)), U # {}
          PROVE  \E x \in U : \A y \in U : x =< y
      <4>1. CASE U \cap (1..m) = {}
        <5>1. \A y \in U : y = m + 1
          BY <4>1
        <5>2. PICK y \in U : TRUE
          BY <3>1
        <5>3. m + 1 \in U /\ m + 1 \in Int
          BY <5>1, <5>2
        <5> QED BY <5>1, <5>3
      <4>2. CASE U \cap (1..m) # {}
        <5>1. PICK x \in U \cap (1..m) : \A y \in U \cap (1..m) : x =< y
          BY <2>2, <4>2
        <5>2. \A y \in U : y \in 1..m \/ y = m + 1
          OBVIOUS
        <5> QED BY <5>1, <5>2
      <4> QED BY <4>1, <4>2
    <3> QED BY <3>1
  <2>3. Nat \subseteq P
    <3> HIDE DEF P
    <3> QED BY <2>1, <2>2, InductionOverNat
  <2>4. I # {} => \E x \in I : \A y \in I : x =< y
    BY <1>1, <2>3
  <2> QED BY <2>4 DEF Min
<1>3. Kept(fields, list) = IF I = {} THEN list
                           ELSE IF Min(I) = 0 THEN list ELSE SubSeq(list, 1, Min(I) - 1)
  BY DEF Kept, SelectInSeq
<1>4. CASE I # {}
  <2>1. Min(I) \in 1..Len(list)
    BY <1>1, <1>2, <1>4
  <2>2. SubSeq(list, 1, Min(I) - 1) \in PropertyList
    <3>1. \A i \in 1..(Min(I) - 1) : list[i] \in Assignment
      BY <1>1, <2>1, ElementOfSeq DEF PropertyList
    <3>2. Min(I) - 1 \in Int /\ 1 \in Int
      BY <2>1
    <3> HIDE DEF I
    <3> QED BY <3>1, <3>2, SubSeqProperties DEF PropertyList
  <2> QED BY <1>3, <2>1, <2>2
<1> QED BY <1>3, <1>4

\* A field keeps its type and its place, whatever is assigned.
Alike(fields) ==
  {g \in [1..Len(fields) -> Field] : \A k \in 1..Len(fields) : g[k].type = fields[k].type}

LEMMA ShowsType ==
  ASSUME NEW fields \in Seq(Field), NEW g \in Alike(fields), NEW assignment \in Assignment
  PROVE  Shows(g, assignment) \in Alike(fields)
<1>1. ASSUME NEW field \in Field
      PROVE  /\ SetFieldValue(field, assignment.value) \in Field
             /\ SetFieldValue(field, assignment.value).type = field.type
  <2>1. Face(field.type, assignment.value) \in Seq(Value)
    BY FaceType DEF Assignment
  <2>2. PICK rest \in Seq(Value) :
          rest = IF field.type = "LOG" /\ assignment.value # "" THEN field.text ELSE <<>>
    <3>1. <<>> \in Seq(Value) /\ field.text \in Seq(Value)
      BY <1>1 DEF Field
    <3> QED BY <3>1
  <2>3. Face(field.type, assignment.value) \o rest \in Seq(Value)
    BY <2>1, <2>2, ConcatProperties
  <2>4. SetFieldValue(field, assignment.value)
          = [field EXCEPT !.text = Face(field.type, assignment.value) \o rest]
    BY <2>2 DEF SetFieldValue
  <2> QED BY <1>1, <2>3, <2>4 DEF Field
<1>2. g \in [1..Len(fields) -> Field]
  BY DEF Alike
<1>3. \A k \in 1..Len(fields) :
        /\ Shows(g, assignment)[k] \in Field
        /\ Shows(g, assignment)[k].type = g[k].type
  BY <1>1, <1>2 DEF Shows
<1>4. Shows(g, assignment) \in [1..Len(fields) -> Field]
  BY <1>2, <1>3 DEF Shows
<1> QED BY <1>3, <1>4 DEF Alike

\* An update is a sequence of assignments, each to the fields the one before has left.
Assigns(v, fields, s, n) == v[0] = fields /\ \A i \in 1..n : v[i] = Shows(v[i - 1], s[i])

LEMMA SetPoropertyValuesSteps ==
  ASSUME NEW fields \in Seq(Field), NEW list, NEW s \in PropertyList, s = Kept(fields, list),
         NEW n \in Nat, n = Len(s)
  PROVE  \E v \in [0..n -> Alike(fields)] :
           Assigns(v, fields, s, n) /\ v[n] = SetPoropertyValues(fields, list)
<1>1. PICK S : S = Alike(fields)
  OBVIOUS
<1>2. DOMAIN s = 1..n /\ \A i \in 1..n : s[i] \in Assignment
  BY LenProperties, ElementOfSeq DEF PropertyList
<1>3. fields \in S
  BY <1>1, LenProperties, ElementOfSeq DEF Alike
<1> DEFINE Is(h) == h = [T \in SUBSET (1..n) |->
                           IF T = {} THEN fields ELSE Shows(h[T \ {Max(T)}], s[Max(T)])]
           G == CHOOSE h : Is(h)
<1>4. SetPoropertyValues(fields, list) = G[1..n]
  BY <1>2 DEF SetPoropertyValues, FoldLeft, MapThenFoldSet
<1> DEFINE D == S \cup {G[T] : T \in SUBSET (1..n)}
           f == [z \in D \X Assignment |-> Shows(z[1], z[2])]
<1>5. \A x \in D, i \in 1..n : f[<<x, s[i]>>] = Shows(x, s[i])
  BY <1>2
<1>6. \A x \in S, i \in 1..n : f[<<x, s[i]>>] \in S
  BY <1>1, <1>2, <1>5, ShowsType
<1> HIDE DEF f
<1>7. \A T \in SUBSET (1..n) : T # {} => Max(T) \in 1..n /\ T \ {Max(T)} \in SUBSET (1..n)
  BY MaxOf
<1>8. \E h : Is(h)
  <2>1. PICK h \in [SUBSET (1..n) -> S] : Folds(h, f, fields, s, n)
    BY <1>3, <1>6, FoldExists
  <2>2. \A T \in SUBSET (1..n) :
          h[T] = IF T = {} THEN fields ELSE Shows(h[T \ {Max(T)}], s[Max(T)])
    <3>1. \A T \in SUBSET (1..n) : h[T] = IF T = {} THEN fields ELSE f[<<h[T \ {Max(T)}], s[Max(T)]>>]
      BY ONLY <2>1 DEF Folds
    <3>2. \A T \in SUBSET (1..n) : T # {} => f[<<h[T \ {Max(T)}], s[Max(T)]>>] = Shows(h[T \ {Max(T)}], s[Max(T)])
      BY ONLY <1>5, <1>7, <2>1
    <3> QED BY ONLY <3>1, <3>2
  <2>3. Is(h)
    BY <2>1, <2>2
  <2> QED BY <2>3
<1>9. Is(G)
  <2> HIDE DEF Is
  <2> QED BY <1>8
<1>10. Folds(G, f, fields, s, n)
  <2>1. /\ G = [T \in SUBSET (1..n) |-> G[T]]
        /\ \A T \in SUBSET (1..n) :
             G[T] = IF T = {} THEN fields ELSE Shows(G[T \ {Max(T)}], s[Max(T)])
    <3> HIDE DEF G
    <3> QED BY <1>9
  <2>2. \A T \in SUBSET (1..n) :
          G[T] = IF T = {} THEN fields ELSE f[<<G[T \ {Max(T)}], s[Max(T)]>>]
    <3>1. \A T \in SUBSET (1..n) : G[T] \in D
      OBVIOUS
    <3> HIDE DEF G, Is, D
    <3>2. ASSUME NEW T \in SUBSET (1..n), T # {}
          PROVE  G[T] = f[<<G[T \ {Max(T)}], s[Max(T)]>>]
      <4>1. Max(T) \in 1..n /\ G[T \ {Max(T)}] \in D
        BY <1>7, <3>1, <3>2
      <4>2. f[<<G[T \ {Max(T)}], s[Max(T)]>>] = Shows(G[T \ {Max(T)}], s[Max(T)])
        BY <1>5, <4>1
      <4> QED BY <2>1, <3>2, <4>2
    <3> QED BY <2>1, <3>2
  <2> HIDE DEF G, Is
  <2> QED BY <2>1, <2>2 DEF Folds
<1>11. S \subseteq D
  OBVIOUS
<1> HIDE DEF G, Is, D
<1>12. PICK v \in [0..n -> S] :
         /\ v[0] = fields /\ v[n] = G[1..n]
         /\ \A i \in 1..n : v[i] = f[<<v[i - 1], s[i]>>]
  <2>1. Stays(f, s, n, S)
    BY <1>6 DEF Stays
  <2>2. /\ G[1..0] = fields
        /\ \A i \in 0..n : G[1..i] \in S
        /\ \A i \in 1..n : G[1..i] = f[<<G[1..(i - 1)], s[i]>>]
    <3>1. G[1..0] = fields
      BY ONLY <1>10, n \in Nat, FoldStarts
    <3>2. \A i \in 0..n : G[1..i] \in S
      BY ONLY <1>3, <1>10, <2>1, n \in Nat, FoldStays
    <3>3. \A i \in 1..n : G[1..i] = f[<<G[1..(i - 1)], s[i]>>]
      BY ONLY <1>3, <1>10, <2>1, n \in Nat, FoldStays
    <3> QED BY ONLY <3>1, <3>2, <3>3
  <2>3. PICK v : v = [i \in 0..n |-> G[1..i]]
    OBVIOUS
  <2>4. v \in [0..n -> S] /\ v[0] = fields /\ v[n] = G[1..n]
    BY ONLY <2>2, <2>3, n \in Nat
  <2>5. \A i \in 1..n : v[i] = f[<<v[i - 1], s[i]>>]
    BY ONLY <2>2, <2>3, n \in Nat
  <2> QED BY <2>4, <2>5
<1>13. \A i \in 1..n : v[i - 1] \in S
  BY <1>12
<1>14. \A i \in 1..n : v[i] = Shows(v[i - 1], s[i])
  BY ONLY <1>5, <1>11, <1>12, <1>13
<1> QED BY <1>1, <1>4, <1>12, <1>14 DEF Assigns

LEMMA SetPoropertyValuesType ==
  ASSUME NEW fields \in Seq(Field), NEW list \in PropertyList
  PROVE  SetPoropertyValues(fields, list) \in Alike(fields)
<1>1. PICK s \in PropertyList, n \in Nat : s = Kept(fields, list) /\ n = Len(s)
  BY KeptType, LenProperties DEF PropertyList
<1>2. PICK v \in [0..n -> Alike(fields)] : v[n] = SetPoropertyValues(fields, list)
  BY <1>1, SetPoropertyValuesSteps
<1> QED BY <1>2

-----------------------------------------------------------------------------
(* The modules of the page.                                                *)

Tabs == UNION {[ids -> Seq(Field)] : ids \in SUBSET Int}

LEMMA TabsType == \A tabs : tabs \in Tabs <=> DOMAIN tabs \subseteq Int /\ tabs \in [DOMAIN tabs -> Seq(Field)]
BY DEF Tabs

\* An update changes the fields of the module it is for, as many as they were.
LEMMA SetModulePopertiesType ==
  ASSUME NEW tabs \in Tabs, NEW id, NEW list \in PropertyList
  PROVE  /\ SetModulePoperties(tabs, id, list) \in Tabs
         /\ DOMAIN SetModulePoperties(tabs, id, list) = DOMAIN tabs
         /\ \A i \in DOMAIN tabs : SetModulePoperties(tabs, id, list)[i] \in Alike(tabs[i])
<1>1. tabs \in [DOMAIN tabs -> Seq(Field)]
  BY TabsType
<1>2. \A fields \in Seq(Field) : fields \in Alike(fields)
  BY LenProperties, ElementOfSeq DEF Alike
<1>3. ASSUME NEW fields \in Seq(Field)
      PROVE  SetPoropertyValues(fields, list) \in Seq(Field)
  <2>1. PICK n \in Nat : n = Len(fields)
    BY LenProperties
  <2>2. SetPoropertyValues(fields, list) \in [1..n -> Field]
    BY <2>1, SetPoropertyValuesType DEF Alike
  <2> QED BY <2>1, <2>2, SeqDef
<1>4. CASE id \in DOMAIN tabs
  <2>1. SetModulePoperties(tabs, id, list) = [tabs EXCEPT ![id] = SetPoropertyValues(@, list)]
    BY <1>4 DEF SetModulePoperties
  <2>2. SetModulePoperties(tabs, id, list) \in [DOMAIN tabs -> Seq(Field)]
    BY <1>1, <1>3, <2>1
  <2>3. \A i \in DOMAIN tabs : SetModulePoperties(tabs, id, list)[i] \in Alike(tabs[i])
    BY <1>1, <1>2, <2>1, SetPoropertyValuesType
  <2> QED BY <2>2, <2>3, TabsType
<1>5. CASE id \notin DOMAIN tabs
  BY <1>1, <1>2, <1>5 DEF SetModulePoperties
<1> QED BY <1>4, <1>5

\* What a page makes of a message has the type of what it shows.
LEMMA OnMessageType ==
  ASSUME NEW tabs \in Tabs, NEW json \in PushedMsg
  PROVE  /\ OnMessage(tabs, json) \in Tabs
         /\ json \in AddedMsg =>
              /\ OnMessage(tabs, json) = CrateModule(tabs, json)
              /\ DOMAIN OnMessage(tabs, json) = DOMAIN tabs \cup {json.id}
         /\ json \in RemovedMsg =>
              /\ OnMessage(tabs, json) = DeleteModule(tabs, json.id)
              /\ DOMAIN OnMessage(tabs, json) = DOMAIN tabs \ {json.id}
         /\ json \in UpdateMsg =>
              /\ OnMessage(tabs, json) = SetModulePoperties(tabs, json.id, json.properties)
              /\ DOMAIN OnMessage(tabs, json) = DOMAIN tabs
<1>0. DOMAIN tabs \subseteq Int /\ tabs \in [DOMAIN tabs -> Seq(Field)]
  BY TabsType
<1>1. CASE json \in AddedMsg
  <2>1. json.type = "module_added" /\ json.id \in Int /\ json.properties \in Seq(Property)
    BY <1>1 DEF AddedMsg
  <2>2. OnMessage(tabs, json) = CrateModule(tabs, json)
    BY <2>1 DEF OnMessage
  <2>3. CrateModule(tabs, json) \in [DOMAIN tabs \cup {json.id} -> Seq(Field)]
    BY <1>0, <2>1, AddPropertiesType DEF CrateModule
  <2>4. json \notin RemovedMsg /\ json \notin UpdateMsg
    BY <2>1 DEF RemovedMsg, UpdateMsg
  <2> QED BY <1>0, <2>1, <2>2, <2>3, <2>4, TabsType
<1>2. CASE json \in RemovedMsg
  <2>1. json.type = "module_removed" /\ json.id \in Int
    BY <1>2 DEF RemovedMsg
  <2>2. OnMessage(tabs, json) = DeleteModule(tabs, json.id)
    BY <2>1 DEF OnMessage
  <2>3. DeleteModule(tabs, json.id) \in [DOMAIN tabs \ {json.id} -> Seq(Field)]
    BY <1>0 DEF DeleteModule, Restrict
  <2>4. json \notin AddedMsg /\ json \notin UpdateMsg
    BY <2>1 DEF AddedMsg, UpdateMsg
  <2> QED BY <1>0, <2>2, <2>3, <2>4, TabsType
<1>3. CASE json \in UpdateMsg
  <2>1. json.type = "property_update" /\ json.id \in Int /\ json.properties \in PropertyList
    BY <1>3 DEF UpdateMsg
  <2>2. OnMessage(tabs, json) = SetModulePoperties(tabs, json.id, json.properties)
    BY <2>1 DEF OnMessage
  <2>3. json \notin AddedMsg /\ json \notin RemovedMsg
    BY <2>1 DEF AddedMsg, RemovedMsg
  <2> QED BY <2>1, <2>2, <2>3, SetModulePopertiesType
<1> QED BY <1>1, <1>2, <1>3 DEF PushedMsg

\* A page that reads a list of messages reads them one by one.
LEMMA OnMessagesSteps ==
  ASSUME NEW tabs \in Tabs, NEW s \in Seq(PushedMsg), NEW n \in Nat, n = Len(s)
  PROVE  \E v \in [0..n -> Tabs] :
           /\ v[0] = tabs /\ v[n] = OnMessages(tabs, s)
           /\ \A i \in 1..n : v[i] = OnMessage(v[i - 1], s[i])
<1>2. DOMAIN s = 1..n /\ \A i \in 1..n : s[i] \in PushedMsg
  BY LenProperties, ElementOfSeq
<1> DEFINE Is(h) == h = [T \in SUBSET (1..n) |->
                           IF T = {} THEN tabs ELSE OnMessage(h[T \ {Max(T)}], s[Max(T)])]
           G == CHOOSE h : Is(h)
<1>4. OnMessages(tabs, s) = G[1..n]
  BY <1>2 DEF OnMessages, FoldLeft, MapThenFoldSet
<1> DEFINE D == Tabs \cup {G[T] : T \in SUBSET (1..n)}
           f == [z \in D \X PushedMsg |-> OnMessage(z[1], z[2])]
<1>5. \A x \in D, i \in 1..n : f[<<x, s[i]>>] = OnMessage(x, s[i])
  BY <1>2
<1>6. \A x \in Tabs, i \in 1..n : f[<<x, s[i]>>] \in Tabs
  BY <1>2, <1>5, OnMessageType
<1> HIDE DEF f
<1>7. \A T \in SUBSET (1..n) : T # {} => Max(T) \in 1..n /\ T \ {Max(T)} \in SUBSET (1..n)
  BY MaxOf
<1>8. \E h : Is(h)
  <2>1. PICK h \in [SUBSET (1..n) -> Tabs] : Folds(h, f, tabs, s, n)
    BY <1>6, FoldExists
  <2>2. \A T \in SUBSET (1..n) :
          h[T] = IF T = {} THEN tabs ELSE OnMessage(h[T \ {Max(T)}], s[Max(T)])
    BY <1>5, <1>7, <2>1 DEF Folds
  <2>3. Is(h)
    BY <2>1, <2>2
  <2> QED BY <2>3
<1>9. Is(G)
  <2> HIDE DEF Is
  <2> QED BY <1>8
<1>10. Folds(G, f, tabs, s, n)
  <2>1. /\ G = [T \in SUBSET (1..n) |-> G[T]]
        /\ \A T \in SUBSET (1..n) :
             G[T] = IF T = {} THEN tabs ELSE OnMessage(G[T \ {Max(T)}], s[Max(T)])
    <3> HIDE DEF G
    <3> QED BY <1>9
  <2>2. \A T \in SUBSET (1..n) :
          G[T] = IF T = {} THEN tabs ELSE f[<<G[T \ {Max(T)}], s[Max(T)]>>]
    <3>1. \A T \in SUBSET (1..n) : G[T] \in D
      OBVIOUS
    <3> HIDE DEF G, Is, D
    <3>2. ASSUME NEW T \in SUBSET (1..n), T # {}
          PROVE  G[T] = f[<<G[T \ {Max(T)}], s[Max(T)]>>]
      <4>1. Max(T) \in 1..n /\ G[T \ {Max(T)}] \in D
        BY <1>7, <3>1, <3>2
      <4>2. f[<<G[T \ {Max(T)}], s[Max(T)]>>] = OnMessage(G[T \ {Max(T)}], s[Max(T)])
        BY <1>5, <4>1
      <4> QED BY <2>1, <3>2, <4>2
    <3> QED BY <2>1, <3>2
  <2> HIDE DEF G, Is
  <2> QED BY <2>1, <2>2 DEF Folds
<1>11. Tabs \subseteq D
  OBVIOUS
<1> HIDE DEF G, Is, D
<1>12. PICK v \in [0..n -> Tabs] :
         /\ v[0] = tabs /\ v[n] = G[1..n]
         /\ \A i \in 1..n : v[i] = f[<<v[i - 1], s[i]>>]
  BY <1>6, <1>10, FoldSteps
<1>13. \A i \in 1..n : v[i] = OnMessage(v[i - 1], s[i])
  <2> TAKE i \in 1..n
  <2>1. i - 1 \in 0..n
    OBVIOUS
  <2>2. v[i - 1] \in D
    BY <1>11, <1>12, <2>1
  <2> QED BY <1>5, <1>12, <2>2
<1> QED BY <1>4, <1>12, <1>13

\* What it shows then, also when one more message comes.
LEMMA OnMessagesType ==
  ASSUME NEW tabs \in Tabs, NEW s \in Seq(PushedMsg)
  PROVE  /\ OnMessages(tabs, s) \in Tabs
         /\ OnMessages(tabs, <<>>) = tabs
         /\ \A json \in PushedMsg :
              OnMessages(tabs, Append(s, json)) = OnMessage(OnMessages(tabs, s), json)
<1>1. PICK n \in Nat : n = Len(s)
  BY LenProperties
<1>2. PICK v \in [0..n -> Tabs] :
        /\ v[0] = tabs /\ v[n] = OnMessages(tabs, s)
        /\ \A i \in 1..n : v[i] = OnMessage(v[i - 1], s[i])
  BY ONLY tabs \in Tabs, s \in Seq(PushedMsg), <1>1, OnMessagesSteps
<1>3. OnMessages(tabs, <<>>) = tabs
  <2>1. <<>> \in Seq(PushedMsg) /\ 0 \in Nat /\ 0 = Len(<<>>)
    BY EmptySeq
  <2> QED BY <2>1, OnMessagesSteps
<1>4. ASSUME NEW json \in PushedMsg
      PROVE  OnMessages(tabs, Append(s, json)) = OnMessage(OnMessages(tabs, s), json)
  <2>1. PICK u \in Seq(PushedMsg) : u = Append(s, json)
    BY AppendProperties
  <2>2. Len(u) = n + 1 /\ u[n + 1] = json /\ \A i \in 1..n : u[i] = s[i]
    BY <1>1, <2>1, AppendProperties
  <2>3. PICK w \in [0..(n + 1) -> Tabs] :
          /\ w[0] = tabs /\ w[n + 1] = OnMessages(tabs, u)
          /\ \A i \in 1..(n + 1) : w[i] = OnMessage(w[i - 1], u[i])
    <3>1. n + 1 \in Nat /\ n + 1 = Len(u)
      BY <2>2
    <3> QED BY <3>1, OnMessagesSteps
  <2> DEFINE P == {i \in Nat : i <= n => w[i] = v[i]}
  <2>4. 0 \in P
    BY <1>2, <2>3
  <2>5. ASSUME NEW i \in Nat, i \in P
        PROVE  i + 1 \in P
    <3> SUFFICES ASSUME i + 1 <= n PROVE w[i + 1] = v[i + 1]
      OBVIOUS
    <3>1. i + 1 \in 1..n /\ i + 1 \in 1..(n + 1) /\ (i + 1) - 1 = i /\ w[i] = v[i]
      BY <2>5
    <3>2. v[i + 1] = OnMessage(v[i], s[i + 1]) /\ w[i + 1] = OnMessage(w[i], u[i + 1])
      BY <1>2, <2>3, <3>1
    <3> QED BY <2>2, <3>1, <3>2
  <2>6. w[n] = v[n]
    <3>1. Nat \subseteq P
      <4> HIDE DEF P
      <4> QED BY <2>4, <2>5, InductionOverNat
    <3> QED BY <3>1
  <2>7. w[n + 1] = OnMessage(w[n], u[n + 1])
    <3>1. n + 1 \in 1..(n + 1) /\ (n + 1) - 1 = n
      OBVIOUS
    <3> QED BY <2>3, <3>1
  <2> QED BY <1>2, <2>1, <2>2, <2>3, <2>6, <2>7
<1>5. OnMessages(tabs, s) \in Tabs
  BY <1>2
<1> QED BY <1>3, <1>4, <1>5

\* One message is read as OnMessage says.
LEMMA OnOneMessage ==
  ASSUME NEW tabs \in Tabs, NEW json \in PushedMsg
  PROVE  OnMessages(tabs, <<json>>) = OnMessage(tabs, json)
<1>1. <<>> \in Seq(PushedMsg) /\ Append(<<>>, json) = <<json>>
  OBVIOUS
<1>2. OnMessages(tabs, Append(<<>>, json)) = OnMessage(OnMessages(tabs, <<>>), json)
  BY <1>1, OnMessagesType
<1>3. OnMessages(tabs, <<>>) = tabs
  BY <1>1, OnMessagesType
<1> QED BY <1>1, <1>2, <1>3
-----------------------------------------------------------------------------
(* A list of modules, and what the fields send.                            *)

Message == PushedMsg \cup Response

\* The modules an entry of a message tells of.
Listed(json) == {entry.id : entry \in json.modules}

\* Which modules are shown after a message, whatever is shown before.
LEMMA MessageShows ==
  ASSUME NEW tabs, NEW json
  PROVE  /\ json.type = "module_added" => DOMAIN OnMessage(tabs, json) = DOMAIN tabs \cup {json.id}
         /\ json.type = "module_removed" => DOMAIN OnMessage(tabs, json) = DOMAIN tabs \ {json.id}
         /\ json.type = "module_list" => DOMAIN OnMessage(tabs, json) = DOMAIN tabs \cup Listed(json)
         /\ json.type \notin {"module_added", "module_removed", "module_list"} =>
              DOMAIN OnMessage(tabs, json) = DOMAIN tabs
<1>1. \A id, list : DOMAIN SetModulePoperties(tabs, id, list) = DOMAIN tabs
  BY DEF SetModulePoperties
<1> QED BY <1>1 DEF OnMessage, CrateModule, DeleteModule, CrateModules, Restrict, Listed

LEMMA AnyMessageType ==
  ASSUME NEW tabs \in Tabs, NEW json \in Message
  PROVE  OnMessage(tabs, json) \in Tabs
<1>0. DOMAIN tabs \subseteq Int /\ tabs \in [DOMAIN tabs -> Seq(Field)]
  BY TabsType
<1>1. CASE json \in PushedMsg
  BY <1>1, OnMessageType
<1>2. CASE json \in ListMsg
  <2>1. json.type = "module_list" /\ json.modules \in SUBSET ModuleEntry
    BY <1>2 DEF ListMsg
  <2>2. \A entry \in json.modules : entry.id \in Int /\ entry.properties \in Seq(Property)
    BY <2>1 DEF ModuleEntry
  <2>3. \A i \in DOMAIN tabs \cup {entry.id : entry \in json.modules} :
          /\ i \in Int
          /\ (IF \E entry \in json.modules : entry.id = i
              THEN AddProperties((CHOOSE entry \in json.modules : entry.id = i).properties)
              ELSE tabs[i]) \in Seq(Field)
    BY <1>0, <2>2, AddPropertiesType
  <2>4. /\ CrateModules(tabs, json.modules)
             \in [DOMAIN tabs \cup {entry.id : entry \in json.modules} -> Seq(Field)]
        /\ DOMAIN CrateModules(tabs, json.modules) \subseteq Int
    BY <2>3 DEF CrateModules
  <2>5. OnMessage(tabs, json) = CrateModules(tabs, json.modules)
    BY <2>1 DEF OnMessage
  <2> QED BY <2>4, <2>5, TabsType
<1>3. CASE json \in EmptyMsg
  <2>1. OnMessage(tabs, json) = tabs
    BY <1>3 DEF OnMessage, EmptyMsg
  <2> QED BY <2>1
<1> QED BY <1>1, <1>2, <1>3 DEF Message, Response

LEMMA GetValueType ==
  ASSUME NEW field \in Field
  PROVE  GetValue(field) \in Value
<1>1. field.text \in Seq(Value)
  BY DEF Field
<1>2. field.text # <<>> => Head(field.text) \in Value
  BY <1>1, HeadTailProperties
<1> QED BY <1>2, WebAppAssumption DEF GetValue

\* The assignments a fold over the fields comes to, those of fields that pass a test.
LEMMA AppliedPropertiesType ==
  ASSUME NEW fields \in Seq(Field)
  PROVE  AppliedProperties(fields) \in
           Seq({a \in Assignment : a.id + 1 \in 1..Len(fields) /\ ~IsIndependent(fields[a.id + 1].type)})
<1>1. PICK n \in Nat : n = Len(fields) /\ DOMAIN fields = 1..n /\ \A k \in 1..n : fields[k] \in Field
  BY LenProperties, ElementOfSeq
<1> DEFINE A == {a \in Assignment : a.id + 1 \in 1..Len(fields) /\ ~IsIndependent(fields[a.id + 1].type)}
           S == Seq(A)
           s == [k \in DOMAIN fields |-> k]
           Adds(list, k) == IF IsIndependent(fields[k].type) THEN list
                            ELSE Append(list, [id |-> k - 1, value |-> GetValue(fields[k])])
           Is(h) == h = [T \in SUBSET (1..n) |->
                           IF T = {} THEN <<>> ELSE Adds(h[T \ {Max(T)}], s[Max(T)])]
           G == CHOOSE h : Is(h)
<1>2. DOMAIN s = 1..n /\ (\A i \in 1..n : s[i] = i) /\ Len(s) = n
  BY <1>1
<1>3. PICK base \in S : base = <<>>
  <2>1. <<>> \in S
    OBVIOUS
  <2> HIDE DEF S
  <2> QED BY <2>1
<1>4. AppliedProperties(fields) = G[1..n]
  BY <1>2 DEF AppliedProperties, FoldLeft, MapThenFoldSet
<1> DEFINE D == S \cup {G[T] : T \in SUBSET (1..n)}
           f == [z \in D \X (1..n) |-> Adds(z[1], z[2])]
<1>5. \A x \in D, i \in 1..n : f[<<x, s[i]>>] = Adds(x, s[i])
  BY <1>2
<1>6. \A x \in S, i \in 1..n : f[<<x, s[i]>>] \in S
  <2>1. ASSUME NEW x \in S, NEW k \in 1..n, ~IsIndependent(fields[k].type)
        PROVE  Append(x, [id |-> k - 1, value |-> GetValue(fields[k])]) \in S
    <3>1. GetValue(fields[k]) \in Value
      BY <1>1, GetValueType
    <3>2. (k - 1) + 1 = k /\ k - 1 \in Nat
      OBVIOUS
    <3>3. [id |-> k - 1, value |-> GetValue(fields[k])] \in A
      BY <1>1, <2>1, <3>1, <3>2 DEF Assignment
    <3> HIDE DEF A
    <3> QED BY <3>3, AppendProperties
  <2>2. \A x \in S, k \in 1..n : Adds(x, k) \in S
    <3> HIDE DEF S
    <3> QED BY <2>1
  <2>3. \A x \in S, i \in 1..n : x \in D /\ s[i] = i
    BY <1>2
  <2> HIDE DEF S, D, f, s, Adds
  <2> QED BY <1>5, <2>2, <2>3
<1>7. \A T \in SUBSET (1..n) : T # {} => Max(T) \in 1..n /\ T \ {Max(T)} \in SUBSET (1..n)
  BY MaxOf
<1> HIDE DEF f, Adds
<1>8. \E h : Is(h)
  <2>1. PICK h \in [SUBSET (1..n) -> S] : Folds(h, f, base, s, n)
    <3> HIDE DEF S, s
    <3> QED BY <1>3, <1>6, FoldExists
  <2>2. \A T \in SUBSET (1..n) :
          h[T] = IF T = {} THEN <<>> ELSE Adds(h[T \ {Max(T)}], s[Max(T)])
    <3>1. \A T \in SUBSET (1..n) : h[T] \in D
      BY <2>1
    <3> HIDE DEF S, D, s
    <3> QED BY <1>3, <1>5, <1>7, <2>1, <3>1 DEF Folds
  <2>3. Is(h)
    BY <2>1, <2>2
  <2> QED BY <2>3
<1>9. Is(G)
  <2> HIDE DEF Is
  <2> QED BY <1>8
<1>10. Folds(G, f, base, s, n)
  <2>1. /\ G = [T \in SUBSET (1..n) |-> G[T]]
        /\ \A T \in SUBSET (1..n) :
             G[T] = IF T = {} THEN base ELSE Adds(G[T \ {Max(T)}], s[Max(T)])
    <3> HIDE DEF G, s
    <3> QED BY <1>3, <1>9
  <2>2. \A T \in SUBSET (1..n) :
          G[T] = IF T = {} THEN base ELSE f[<<G[T \ {Max(T)}], s[Max(T)]>>]
    <3>1. \A T \in SUBSET (1..n) : G[T] \in D
      OBVIOUS
    <3> HIDE DEF G, Is, D, S, s
    <3>2. ASSUME NEW T \in SUBSET (1..n), T # {}
          PROVE  G[T] = f[<<G[T \ {Max(T)}], s[Max(T)]>>]
      <4>1. Max(T) \in 1..n /\ G[T \ {Max(T)}] \in D
        BY <1>7, <3>1, <3>2
      <4>2. f[<<G[T \ {Max(T)}], s[Max(T)]>>] = Adds(G[T \ {Max(T)}], s[Max(T)])
        BY <1>5, <4>1
      <4> QED BY <2>1, <3>2, <4>2
    <3> QED BY <2>1, <3>2
  <2> HIDE DEF G, Is, s
  <2> QED BY <2>1, <2>2 DEF Folds
<1> HIDE DEF G, Is, D, S, s
<1>11. G[1..n] \in S
  <2>1. Stays(f, s, n, S)
    BY <1>6 DEF Stays
  <2>2. \A i \in 0..n : G[1..i] \in S
    BY <1>10, <2>1, FoldStays
  <2>3. n \in 0..n
    OBVIOUS
  <2> QED BY <2>2, <2>3
<1> QED BY <1>4, <1>11 DEF S

-----------------------------------------------------------------------------
(* What an update gives a property.                                        *)

\* The value a list gives a property, if it gives one: that of the last assignment to it.
GivenBy(list, k) == {list[i].value : i \in LastTo(list, k - 1)}

\* What a field looks like when it shows a value.
Looks(field, value) ==
  IF field.type = "LOG" THEN GetValue(field) = value ELSE field.text = Face(field.type, value)

\* A list whose assignments are all to properties a module of n properties has.
AllWithin(list, n) == \A i \in DOMAIN list : list[i].id < n

LEMMA ShowsWhatItLooks ==
  ASSUME NEW field, NEW property
  PROVE  ShowsValue(field, property) <=> Looks(field, property.value)
BY DEF ShowsValue, Looks

\* A field looks like the value it is made for, and the value it is given.
LEMMA FieldLooks ==
  ASSUME NEW value \in Value
  PROVE  /\ \A type : Looks([type |-> type, text |-> Face(type, value)], value)
         /\ \A field \in Field : Looks(SetFieldValue(field, value), value)
<1>1. ASSUME NEW type PROVE Looks([type |-> type, text |-> Face(type, value)], value)
  <2>1. CASE type # "LOG"
    BY <2>1 DEF Looks
  <2>2. CASE type = "LOG"
    <3>1. Face(type, value) = IF value = "" THEN <<>> ELSE <<value>>
      BY <2>2 DEF Face
    <3>2. Head(<<value>>) = value /\ <<value>> # <<>>
      OBVIOUS
    <3> QED BY <2>2, <3>1, <3>2 DEF Looks, GetValue
  <2> QED BY <2>1, <2>2
<1>2. ASSUME NEW field \in Field PROVE Looks(SetFieldValue(field, value), value)
  <2>1. field.text \in Seq(Value) /\ field \in [type : PropertyType, text : Seq(Value)]
    BY DEF Field
  <2>2. CASE field.type # "LOG"
    <3>1. Face(field.type, value) \o <<>> = Face(field.type, value)
      <4>1. Face(field.type, value) \in Seq(Value)
        BY FaceType
      <4> QED BY <4>1, ConcatEmptySeq
    <3>2. SetFieldValue(field, value) = [field EXCEPT !.text = Face(field.type, value)]
      BY <2>2, <3>1 DEF SetFieldValue
    <3> QED BY <2>1, <2>2, <3>2 DEF Looks
  <2>3. CASE field.type = "LOG" /\ value = ""
    <3>1. Face(field.type, value) = <<>> /\ <<>> \o <<>> = <<>>
      <4>1. Face(field.type, value) = <<>>
        BY <2>3 DEF Face
      <4>2. <<>> \in Seq(Value)
        OBVIOUS
      <4> QED BY <4>1, <4>2, ConcatEmptySeq
    <3>2. SetFieldValue(field, value) = [field EXCEPT !.text = <<>>]
      BY <2>3, <3>1 DEF SetFieldValue
    <3> QED BY <2>1, <2>3, <3>2 DEF Looks, GetValue
  <2>4. CASE field.type = "LOG" /\ value # ""
    <3>1. Face(field.type, value) = <<value>>
      BY <2>4 DEF Face
    <3>2. SetFieldValue(field, value) = [field EXCEPT !.text = <<value>> \o field.text]
      BY <2>4, <3>1 DEF SetFieldValue
    <3>3. PICK text \in Seq(Value) : text = <<value>> \o field.text
      <4>1. <<value>> \in Seq(Value)
        OBVIOUS
      <4> QED BY <2>1, <4>1, ConcatProperties
    <3>4. text # <<>> /\ Head(text) = value
      <4>1. <<value>> \in Seq(Value) /\ Len(<<value>>) = 1 /\ <<value>>[1] = value
        OBVIOUS
      <4>2. Len(text) = 1 + Len(field.text) /\ text[1] = value
        BY <2>1, <3>3, <4>1, ConcatProperties
      <4>3. Len(field.text) \in Nat
        BY <2>1, LenProperties
      <4>4. Len(text) # 0
        BY <4>2, <4>3
      <4> QED BY <4>2, <4>4, EmptySeq, HeadTailProperties
    <3> QED BY <2>1, <2>4, <3>2, <3>3, <3>4 DEF Looks, GetValue
  <2> QED BY <2>2, <2>3, <2>4
<1> QED BY <1>1, <1>2

\* The last of the first n assignments that is to property k.
LastOf(s, k, n) == {i \in 1..n : s[i].id = k - 1 /\ \A j \in (i + 1)..n : s[j].id # k - 1}

\* What a field shows of an update: what it showed, or the last value it was given.
LEMMA SetPoropertyValuesLooks ==
  ASSUME NEW fields \in Seq(Field), NEW list \in PropertyList, AllWithin(list, Len(fields)),
         NEW k \in 1..Len(fields)
  PROVE  /\ GivenBy(list, k) = {} => SetPoropertyValues(fields, list)[k] = fields[k]
         /\ \A value \in GivenBy(list, k) : Looks(SetPoropertyValues(fields, list)[k], value)
<1>1. PICK n \in Nat : n = Len(list) /\ DOMAIN list = 1..n /\ \A i \in 1..n : list[i] \in Assignment
  BY LenProperties, ElementOfSeq DEF PropertyList
<1>2. Len(fields) \in Nat
  BY LenProperties
<1>3. list = Kept(fields, list)
  <2>1. {i \in 1..Len(list) : list[i].id >= Len(fields)} = {}
    BY <1>1, <1>2 DEF AllWithin, Assignment
  <2> QED BY <2>1 DEF Kept, SelectInSeq
<1>4. PICK v \in [0..n -> Alike(fields)] :
        /\ v[0] = fields /\ v[n] = SetPoropertyValues(fields, list)
        /\ \A i \in 1..n : v[i] = Shows(v[i - 1], list[i])
  <2>1. PICK s \in PropertyList : s = list /\ s = Kept(fields, list) /\ n = Len(s)
    BY <1>1, <1>3
  <2>2. PICK v \in [0..n -> Alike(fields)] :
          Assigns(v, fields, s, n) /\ v[n] = SetPoropertyValues(fields, list)
    BY <2>1, SetPoropertyValuesSteps, Zenon
  <2> QED BY <2>1, <2>2 DEF Assigns
<1> DEFINE Right(i) == /\ LastOf(list, k, i) = {} => v[i][k] = fields[k]
                       /\ \A j \in LastOf(list, k, i) : Looks(v[i][k], list[j].value)
           P == {i \in Nat : i <= n => Right(i)}
<1>5. 0 \in P
  <2>1. LastOf(list, k, 0) = {}
    <3>1. 1..0 = {}
      OBVIOUS
    <3> QED BY <3>1 DEF LastOf
  <2> QED BY <1>4, <2>1
<1>6. ASSUME NEW i \in Nat, i \in P
      PROVE  i + 1 \in P
  <2> SUFFICES ASSUME i + 1 <= n PROVE Right(i + 1)
    OBVIOUS
  <2>1. i + 1 \in 1..n /\ (i + 1) - 1 = i /\ i \in 0..n
    BY <1>1
  <2>2. Right(i)
    <3> HIDE DEF Right
    <3> QED BY <1>6, <2>1
  <2>3. v[i + 1] = Shows(v[i], list[i + 1]) /\ v[i] \in Alike(fields) /\ list[i + 1] \in Assignment
    BY <1>1, <1>4, <2>1
  <2>4. v[i] \in [1..Len(fields) -> Field] /\ v[i][k] \in Field
    BY <2>3 DEF Alike
  <2>5. CASE list[i + 1].id = k - 1
    <3>1. LastOf(list, k, i + 1) = {i + 1}
      BY <2>5 DEF LastOf
    <3>2. v[i + 1][k] = SetFieldValue(v[i][k], list[i + 1].value)
      BY <1>2, <2>3, <2>4, <2>5 DEF Shows
    <3>3. list[i + 1].value \in Value
      BY <2>3 DEF Assignment
    <3>4. Looks(v[i + 1][k], list[i + 1].value)
      BY <2>4, <3>2, <3>3, FieldLooks
    <3> QED BY <3>1, <3>4
  <2>6. CASE list[i + 1].id # k - 1
    <3>1. LastOf(list, k, i + 1) = LastOf(list, k, i)
      <4>1. \A j \in 1..(i + 1) : j \in 1..i \/ j = i + 1
        OBVIOUS
      <4>2. \A j \in 1..i : \A l \in (j + 1)..(i + 1) : l \in (j + 1)..i \/ l = i + 1
        OBVIOUS
      <4> QED BY <2>6, <4>1, <4>2 DEF LastOf
    <3>2. list[i + 1].id + 1 # k
      <4>1. list[i + 1].id \in Nat /\ k \in Nat
        BY <1>2, <2>3 DEF Assignment
      <4> QED BY <2>6, <4>1
    <3>3. v[i + 1][k] = v[i][k]
      BY <2>3, <2>4, <3>2 DEF Shows
    <3> QED BY <2>2, <3>1, <3>3
  <2> QED BY <2>5, <2>6
<1>7. Right(n)
  <2>1. n \in P
    <3> HIDE DEF P
    <3> QED BY <1>5, <1>6, InductionOverNat
  <2> HIDE DEF Right
  <2> QED BY <2>1
<1>8. LastTo(list, k - 1) = LastOf(list, k, n)
  BY <1>1 DEF LastTo, LastOf
<1> QED BY <1>4, <1>7, <1>8 DEF GivenBy

\* What is stored of it, unless the property is read only.
LEMMA SavedPropertiesGiven ==
  ASSUME NEW p \in Seq(Property), NEW list \in PropertyList, NEW k \in 1..Len(p)
  PROVE  /\ GivenBy(list, k) = {} => SavedProperties(p, list)[k] = p[k]
         /\ SavedProperties(p, list)[k].read_only = p[k].read_only
         /\ \A value \in GivenBy(list, k) :
              ~p[k].read_only => SavedProperties(p, list)[k].value = value
<1>1. p[k] \in Property /\ Len(list) \in Nat
  BY ElementOfSeq, LenProperties DEF PropertyList
<1>2. SavedProperties(p, list)[k]
        = IF LastTo(list, k - 1) = {} THEN p[k]
          ELSE SetValue(p[k], list[CHOOSE i \in LastTo(list, k - 1) : TRUE].value)
  BY DEF SavedProperties
<1>3. \A i, j \in LastTo(list, k - 1) : i = j
  BY <1>1 DEF LastTo
<1>4. CASE LastTo(list, k - 1) = {}
  BY <1>2, <1>4 DEF GivenBy
<1>5. CASE LastTo(list, k - 1) # {}
  <2>1. PICK i : i = CHOOSE j \in LastTo(list, k - 1) : TRUE
    OBVIOUS
  <2>2. i \in LastTo(list, k - 1)
    BY <1>5, <2>1
  <2>3. GivenBy(list, k) = {list[i].value}
    BY <1>3, <2>2 DEF GivenBy
  <2>4. SavedProperties(p, list)[k] = SetValue(p[k], list[i].value)
    BY <1>2, <1>5, <2>1
  <2> QED BY <1>1, <2>3, <2>4 DEF SetValue, Property
<1> QED BY <1>4, <1>5

-----------------------------------------------------------------------------
(* What a property comes to.                                               *)

\* What a property becomes as the members of a sequence are done: the value of the last
\* one that gives it any, or what it is.
EndsIn(s, given, base, v) ==
  \/ \E i \in 1..Len(s) : v \in given[s[i]] /\ \A j \in (i + 1)..Len(s) : given[s[j]] = {}
  \/ v = base /\ \A i \in 1..Len(s) : given[s[i]] = {}

LEMMA EndsAppend ==
  ASSUME NEW S, NEW s \in Seq(S), NEW x \in S, NEW given, NEW base, NEW v
  PROVE  /\ v \in given[x] => EndsIn(Append(s, x), given, base, v)
         /\ given[x] = {} /\ EndsIn(s, given, base, v) => EndsIn(Append(s, x), given, base, v)
<1>1. PICK n \in Nat, u \in Seq(S) : n = Len(s) /\ u = Append(s, x)
  BY LenProperties, AppendProperties
<1>2. Len(u) = n + 1 /\ u[n + 1] = x /\ \A i \in 1..n : u[i] = s[i]
  BY <1>1, AppendProperties
<1>3. \A i \in 1..(n + 1) : i \in 1..n \/ i = n + 1
  OBVIOUS
<1>4. ASSUME v \in given[x]
      PROVE  EndsIn(u, given, base, v)
  <2>1. n + 1 \in 1..Len(u) /\ ((n + 1) + 1)..Len(u) = {}
    BY <1>2
  <2> QED BY <1>2, <1>4, <2>1 DEF EndsIn
<1>5. ASSUME given[x] = {}, EndsIn(s, given, base, v)
      PROVE  EndsIn(u, given, base, v)
  <2>1. ASSUME NEW i \in 1..n, v \in given[s[i]], \A j \in (i + 1)..n : given[s[j]] = {}
        PROVE  EndsIn(u, given, base, v)
    <3>1. i \in 1..Len(u) /\ v \in given[u[i]]
      BY <1>2, <2>1
    <3>2. \A j \in (i + 1)..(n + 1) : j \in (i + 1)..n \/ j = n + 1
      OBVIOUS
    <3>3. \A j \in (i + 1)..n : u[j] = s[j]
      BY <1>2
    <3>4. \A j \in (i + 1)..Len(u) : given[u[j]] = {}
      BY <1>2, <1>5, <2>1, <3>2, <3>3
    <3> QED BY <3>1, <3>4 DEF EndsIn
  <2>2. ASSUME v = base, \A i \in 1..n : given[s[i]] = {}
        PROVE  EndsIn(u, given, base, v)
    <3>1. \A i \in 1..Len(u) : given[u[i]] = {}
      BY <1>2, <1>3, <1>5, <2>2
    <3> QED BY <2>2, <3>1 DEF EndsIn
  <2> QED BY <1>1, <1>5, <2>1, <2>2 DEF EndsIn
<1> QED BY <1>1, <1>4, <1>5

LEMMA EndsTail ==
  ASSUME NEW S, NEW s \in Seq(S), s # <<>>, NEW given, NEW base, NEW after, NEW v,
         EndsIn(s, given, base, v),
         IF given[Head(s)] = {} THEN after = base ELSE \A x \in given[Head(s)] : after = x
  PROVE  EndsIn(Tail(s), given, after, v)
<1>1. PICK n \in Nat, u \in Seq(S) : n + 1 = Len(s) /\ u = Tail(s)
  <2>1. Len(s) \in Nat \ {0} /\ Tail(s) \in Seq(S)
    BY HeadTailProperties, EmptySeq, LenProperties
  <2>2. Len(s) - 1 \in Nat /\ (Len(s) - 1) + 1 = Len(s)
    BY <2>1
  <2> QED BY <2>1, <2>2
<1>2. Len(u) = n /\ Head(s) = s[1] /\ \A i \in 1..n : u[i] = s[i + 1]
  BY <1>1, HeadTailProperties
<1>a. SUFFICES EndsIn(u, given, after, v)
  BY <1>1
<1>3. CASE \E i \in 1..(n + 1) :
             v \in given[s[i]] /\ \A j \in (i + 1)..(n + 1) : given[s[j]] = {}
  <2>1. PICK i \in 1..(n + 1) :
             v \in given[s[i]] /\ \A j \in (i + 1)..(n + 1) : given[s[j]] = {}
    BY <1>3
  <2>2. CASE i = 1
    <3>1. v = after
      BY <1>2, <2>1, <2>2
    <3>2. \A j \in 1..n : j + 1 \in 2..(n + 1) /\ u[j] = s[j + 1]
      BY <1>2
    <3>3. \A j \in 1..Len(u) : given[u[j]] = {}
      <4>1. \A j \in 2..(n + 1) : given[s[j]] = {}
        <5>1. i + 1 = 2
          BY ONLY <2>2
        <5>2. \A j \in (i + 1)..(n + 1) : given[s[j]] = {}
          BY <2>1
        <5> QED BY ONLY <5>1, <5>2
      <4>2. \A j \in 1..n : given[u[j]] = {}
        BY ONLY <3>2, <4>1, n \in Nat
      <4> QED BY <1>2, <4>2
    <3> QED BY <3>1, <3>3 DEF EndsIn
  <2>3. CASE i # 1
    <3>1. i - 1 \in 1..n /\ (i - 1) + 1 = i
      BY <2>3
    <3>2. v \in given[u[i - 1]]
      BY <1>2, <2>1, <3>1
    <3>3. \A j \in ((i - 1) + 1)..n : j + 1 \in (i + 1)..(n + 1) /\ u[j] = s[j + 1]
      BY <1>2, <3>1
    <3>4. \A j \in ((i - 1) + 1)..n : given[u[j]] = {}
      BY <2>1, <3>3
    <3>5. i - 1 \in 1..Len(u) /\ \A j \in ((i - 1) + 1)..Len(u) : given[u[j]] = {}
      BY <1>2, <3>1, <3>4
    <3> QED BY <3>2, <3>5 DEF EndsIn
  <2> QED BY <2>2, <2>3
<1>4. CASE v = base /\ \A i \in 1..(n + 1) : given[s[i]] = {}
  <2>1. v = after
    <3>1. 1 \in 1..(n + 1)
      OBVIOUS
    <3> QED BY <1>2, <1>4, <3>1
  <2>2. \A j \in 1..n : j + 1 \in 1..(n + 1) /\ u[j] = s[j + 1]
    BY <1>2
  <2>3. \A j \in 1..Len(u) : given[u[j]] = {}
    BY <1>2, <1>4, <2>2
  <2> QED BY <2>1, <2>3 DEF EndsIn
<1> QED BY <1>1, <1>3, <1>4 DEF EndsIn

\* A list gives a property one value, if any.
LEMMA GivenOnce ==
  ASSUME NEW list \in PropertyList, NEW k
  PROVE  GivenBy(list, k) \subseteq Value /\ \A v, w \in GivenBy(list, k) : v = w
<1>1. Len(list) \in Nat /\ \A i \in 1..Len(list) : list[i] \in Assignment
  BY LenProperties, ElementOfSeq DEF PropertyList
<1>2. \A i \in LastTo(list, k - 1) : i \in 1..Len(list) /\ list[i].value \in Value
  BY <1>1 DEF LastTo, Assignment
<1>3. \A i, j \in LastTo(list, k - 1) : i = j
  BY <1>1 DEF LastTo
<1> QED BY <1>2, <1>3 DEF GivenBy

-----------------------------------------------------------------------------
(* What the last one gives.                                                *)

\* The last member of a sequence that gives anything gives what is good.
EndsAmong(s, given, good) ==
  \A i \in 1..Len(s) : (\A j \in (i + 1)..Len(s) : given[s[j]] = {}) => given[s[i]] \subseteq good
GivesNothing(s, given) == \A i \in 1..Len(s) : given[s[i]] = {}

LEMMA AmongAppend ==
  ASSUME NEW S, NEW s \in Seq(S), NEW x \in S, NEW given, NEW good,
         given[x] = {} => EndsAmong(s, given, good), given[x] \subseteq good
  PROVE  EndsAmong(Append(s, x), given, good)
<1>1. PICK n \in Nat, u \in Seq(S) : n = Len(s) /\ u = Append(s, x)
  BY LenProperties, AppendProperties
<1>2. Len(u) = n + 1 /\ u[n + 1] = x /\ \A i \in 1..n : u[i] = s[i]
  BY <1>1, AppendProperties
<1>3. ASSUME NEW i \in 1..(n + 1), \A j \in (i + 1)..(n + 1) : given[u[j]] = {}
      PROVE  given[u[i]] \subseteq good
  <2>1. CASE i = n + 1
    BY <1>2, <2>1
  <2>2. CASE i \in 1..n
    <3>1. n + 1 \in (i + 1)..(n + 1)
      BY <2>2
    <3>2. given[x] = {}
      BY <1>2, <1>3, <3>1
    <3>3. \A j \in (i + 1)..n : j \in (i + 1)..(n + 1) /\ j \in 1..n
      BY <2>2
    <3>4. \A j \in (i + 1)..n : given[s[j]] = {}
      BY <1>2, <1>3, <3>3
    <3> QED BY <1>1, <1>2, <2>2, <3>2, <3>4 DEF EndsAmong
  <2> QED BY <2>1, <2>2
<1> QED BY <1>1, <1>2, <1>3 DEF EndsAmong

LEMMA AmongTail ==
  ASSUME NEW S, NEW s \in Seq(S), s # <<>>, NEW given, NEW good, EndsAmong(s, given, good)
  PROVE  /\ EndsAmong(Tail(s), given, good)
         /\ GivesNothing(Tail(s), given) => given[Head(s)] \subseteq good
         /\ GivesNothing(s, given) <=> given[Head(s)] = {} /\ GivesNothing(Tail(s), given)
<1>1. PICK n \in Nat, u \in Seq(S) : n + 1 = Len(s) /\ u = Tail(s)
  <2>1. Len(s) \in Nat \ {0} /\ Tail(s) \in Seq(S)
    BY HeadTailProperties, EmptySeq, LenProperties
  <2>2. Len(s) - 1 \in Nat /\ (Len(s) - 1) + 1 = Len(s)
    BY <2>1
  <2> QED BY <2>1, <2>2
<1>2. Len(u) = n /\ Head(s) = s[1] /\ \A i \in 1..n : u[i] = s[i + 1]
  BY <1>1, HeadTailProperties
<1>3. ASSUME NEW i \in 1..n, \A j \in (i + 1)..n : given[u[j]] = {}
      PROVE  given[u[i]] \subseteq good
  <2>1. i + 1 \in 1..(n + 1) /\ u[i] = s[i + 1]
    BY <1>2
  <2>2. ASSUME NEW j \in ((i + 1) + 1)..(n + 1)
        PROVE  given[s[j]] = {}
    <3>1. j - 1 \in (i + 1)..n /\ j - 1 \in 1..n /\ (j - 1) + 1 = j
      OBVIOUS
    <3> QED BY <1>2, <1>3, <3>1
  <2> QED BY <1>1, <2>1, <2>2 DEF EndsAmong
<1>4. GivesNothing(s, given) <=> given[s[1]] = {} /\ GivesNothing(u, given)
  <2>1. ASSUME GivesNothing(s, given)
        PROVE  given[s[1]] = {} /\ GivesNothing(u, given)
    <3>1. 1 \in 1..(n + 1) /\ \A i \in 1..n : i + 1 \in 1..(n + 1)
      OBVIOUS
    <3>2. \A i \in 1..(n + 1) : given[s[i]] = {}
      BY <1>1, <2>1 DEF GivesNothing
    <3>3. \A i \in 1..n : given[u[i]] = {}
      BY <1>2, <3>1, <3>2
    <3> QED BY <1>2, <3>1, <3>2, <3>3 DEF GivesNothing
  <2>2. ASSUME given[s[1]] = {}, GivesNothing(u, given), NEW i \in 1..(n + 1)
        PROVE  given[s[i]] = {}
    <3>1. i = 1 \/ (i - 1 \in 1..n /\ (i - 1) + 1 = i)
      OBVIOUS
    <3> QED BY <1>2, <2>2, <3>1 DEF GivesNothing
  <2> QED BY <1>1, <2>1, <2>2 DEF GivesNothing
<1>5. ASSUME GivesNothing(u, given)
      PROVE  given[s[1]] \subseteq good
  <2>1. ASSUME NEW j \in (1 + 1)..(n + 1)
        PROVE  given[s[j]] = {}
    <3>1. j - 1 \in 1..n /\ (j - 1) + 1 = j
      OBVIOUS
    <3>2. given[u[j - 1]] = {} /\ u[j - 1] = s[j]
      BY <1>2, <1>5, <3>1 DEF GivesNothing
    <3> QED BY <3>2
  <2>2. \A j \in (1 + 1)..(n + 1) : given[s[j]] = {}
    BY <2>1
  <2>3. 1 \in 1..(n + 1)
    OBVIOUS
  <2> QED BY <1>1, <2>2, <2>3 DEF EndsAmong
<1> QED BY <1>1, <1>2, <1>3, <1>4, <1>5 DEF EndsAmong
=============================================================================

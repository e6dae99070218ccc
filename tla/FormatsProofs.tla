---------------------------- MODULE FormatsProofs ----------------------------
(***************************************************************************)
(* Proofs about Formats: a URI is shown whole or refused however many      *)
(* parameters it has, the metadata of an LNURL response is read for        *)
(* what it means however many entries it has, a text is read alike in      *)
(* every spelling, what values are shown as reads back whatever their      *)
(* digits, parts and lines, and a Cashu request reads as it was written    *)
(* whatever it holds.  Loops are folds and recursive functions; what is    *)
(* said of them for every length is shown with a shortest sequence, or a   *)
(* least number, that it is wrong of.                                      *)
(***************************************************************************)
EXTENDS Formats, FiniteSetTheorems, SequenceTheorems, WellFoundedInduction, TLAPS

-----------------------------------------------------------------------------
(* The least and the greatest number of a set.                             *)

Less == {p \in Nat \X Nat : p[1] < p[2]}

LEMMA LessIsWellFounded == IsWellFoundedOn(Less, Nat)
BY NatLessThanWellFounded DEF OpToRel, Less

LEMMA LeastNumber ==
  ASSUME NEW T, T \subseteq Nat, T # {}
  PROVE  \E x \in T : \A y \in T : x <= y
<1>1. PICK x \in T : \A y \in T : <<y, x>> \notin Less
  BY LessIsWellFounded, WFMin
<1>2. ASSUME NEW y \in T PROVE x <= y
  <2>1. x \in Nat /\ y \in Nat /\ <<y, x>> \notin Less
    BY <1>1
  <2>2. <<y, x>> \in Nat \X Nat /\ <<y, x>>[1] = y /\ <<y, x>>[2] = x
    BY <2>1
  <2>3. ~ (y < x)
    BY <2>1, <2>2 DEF Less
  <2> QED BY <2>1, <2>3
<1> QED BY <1>2

Greatest(s) == CHOOSE x \in s : \A y \in s : x >= y

LEMMA GreatestOf ==
  ASSUME NEW n \in Nat, NEW S, S \subseteq 1..n, S # {}
  PROVE  Greatest(S) \in S /\ \A y \in S : Greatest(S) >= y
<1> DEFINE Rest == {n - x : x \in S}
<1>1. Rest \subseteq Nat /\ Rest # {}
  <2>1. \A x \in S : x \in 1..n /\ n - x \in Nat
    OBVIOUS
  <2> QED BY <2>1
<1>2. PICK d \in Rest : \A r \in Rest : d <= r
  BY <1>1, LeastNumber
<1>3. PICK x \in S : d = n - x
  BY <1>2
<1>4. \A y \in S : x >= y
  <2> SUFFICES ASSUME NEW y \in S PROVE x >= y
    OBVIOUS
  <2>1. n - x <= n - y
    BY <1>2, <1>3
  <2>2. x \in 1..n /\ y \in 1..n
    BY Zenon
  <2>3. \A i \in 1..n : i \in Nat
    OBVIOUS
  <2>4. x \in Nat /\ y \in Nat
    BY <2>2, <2>3, Zenon
  <2> QED BY <2>1, <2>4
<1> QED BY <1>4, Zenon DEF Greatest

LEMMA BeginningOf ==
  ASSUME NEW n \in Nat \ {0}
  PROVE  /\ Greatest(1..n) = n /\ (1..n) \ {n} = 1..(n - 1) /\ 1..n # {}
         /\ \A s \in SUBSET (1..n) : s # {} => s \ {Greatest(s)} \in SUBSET (1..(n - 1))
<1>1. 1..n # {} /\ (1..n) \ {n} = 1..(n - 1)
  OBVIOUS
<1>2. Greatest(1..n) = n
  <2>1. Greatest(1..n) \in 1..n /\ \A y \in 1..n : Greatest(1..n) >= y
    BY <1>1, GreatestOf
  <2> QED BY <2>1
<1>3. ASSUME NEW s \in SUBSET (1..n), s # {}
      PROVE  s \ {Greatest(s)} \in SUBSET (1..(n - 1))
  <2>1. Greatest(s) \in s /\ \A y \in s : Greatest(s) >= y
    BY <1>3, GreatestOf
  <2>2. ASSUME NEW y \in s \ {Greatest(s)} PROVE y \in 1..(n - 1)
    <3>1. y \in 1..n /\ Greatest(s) \in 1..n /\ Greatest(s) >= y /\ y # Greatest(s)
      BY <2>1, <2>2
    <3> QED BY <3>1
  <2> QED BY <2>2
<1> QED BY <1>1, <1>2, <1>3

-----------------------------------------------------------------------------
(* Folds: FoldLeft takes the elements from the last to the first.          *)

\* What the loops do with an element.
Step(loop, x, e) ==
  IF loop = "bip21" THEN IF x.ok THEN Uri!Bip21(x, e) ELSE x
  ELSE IF loop = "liquid" THEN IF x.ok THEN Uri!Liquid(x, e) ELSE x
  ELSE IF loop = "metadata" THEN Metadata!Read(x, e)
  ELSE IF loop = "digits" THEN x * 10 + e
  ELSE IF loop = "bytes" THEN x * Base + e
  ELSE IF loop = "join" THEN x \o e
  ELSE x + e[1] * e[2]

\* The function that FoldLeft defines, for the sets of places of the family.
Folds(f, family, loop, base, seq) ==
  f = [s \in family |->
         IF s = {} THEN base ELSE Step(loop, f[s \ {Greatest(s)}], seq[Greatest(s)])]

LEMMA FoldsExist ==
  ASSUME NEW n \in Nat, NEW loop, NEW base, NEW seq
  PROVE  \E f : Folds(f, SUBSET (1..n), loop, base, seq)
<1> DEFINE Bad == {m \in Nat : ~\E f : Folds(f, SUBSET (1..m), loop, base, seq)}
<1> SUFFICES ASSUME n \in Bad PROVE FALSE
  OBVIOUS
<1>1. PICK m \in Bad : \A k \in Bad : m <= k
  BY LeastNumber
<1>2. m \in Nat /\ \A f : ~Folds(f, SUBSET (1..m), loop, base, seq)
  BY <1>1
<1> DEFINE Body(h, s) ==
             IF s = {} THEN base ELSE Step(loop, h[s \ {Greatest(s)}], seq[Greatest(s)])
<1>3. m # 0
  <2> SUFFICES ASSUME m = 0 PROVE FALSE
    OBVIOUS
  <2> DEFINE f == [s \in SUBSET (1..0) |-> base]
             g == [s \in SUBSET (1..0) |-> Body(f, s)]
  <2>1. \A s \in SUBSET (1..0) : s = {}
    OBVIOUS
  <2>2. \A s \in SUBSET (1..0) : f[s] = g[s]
    BY <2>1
  <2>3. f = g
    BY <2>2
  <2>4. Folds(f, SUBSET (1..0), loop, base, seq)
    BY <2>3 DEF Folds
  <2> QED BY <1>2, <2>4
<1>4. PICK f : Folds(f, SUBSET (1..(m - 1)), loop, base, seq)
  <2>1. m - 1 \in Nat /\ ~ (m <= m - 1)
    BY <1>2, <1>3
  <2>2. m - 1 \notin Bad
    BY <1>1, <2>1
  <2> QED BY <2>1, <2>2
<1> DEFINE g == [s \in SUBSET (1..m) |-> Body(f, s)]
           k == [s \in SUBSET (1..m) |-> Body(g, s)]
<1>5. \A s \in SUBSET (1..(m - 1)) : f[s] = Body(f, s)
  BY <1>4, Zenon DEF Folds
<1>6. \A s \in SUBSET (1..(m - 1)) : s \in SUBSET (1..m) /\ g[s] = f[s]
  <2>1. 1..(m - 1) \subseteq 1..m
    BY <1>2
  <2> QED BY <1>5, <2>1
<1>7. g = k
  <2>1. ASSUME NEW s \in SUBSET (1..m) PROVE g[s] = k[s]
    <3>1. CASE s = {}
      BY <3>1
    <3>2. CASE s # {}
      <4>1. s \ {Greatest(s)} \in SUBSET (1..(m - 1))
        BY <1>2, <1>3, <3>2, BeginningOf
      <4>2. g[s \ {Greatest(s)}] = f[s \ {Greatest(s)}]
        BY <1>6, <4>1
      <4>3. g[s] = Step(loop, f[s \ {Greatest(s)}], seq[Greatest(s)])
        BY <3>2
      <4>4. k[s] = Step(loop, g[s \ {Greatest(s)}], seq[Greatest(s)])
        BY <3>2
      <4> QED BY <4>2, <4>3, <4>4
    <3> QED BY <3>1, <3>2
  <2> QED BY <2>1
<1>8. Folds(g, SUBSET (1..m), loop, base, seq)
  BY <1>7 DEF Folds
<1> QED BY <1>2, <1>8

\* What a fold makes of each beginning of the first n elements.
OneByOne(f, n, loop, base, seq) ==
  /\ f[1..0] = base
  /\ \A i \in 1..n : f[1..i] = Step(loop, f[1..(i - 1)], seq[i])

LEMMA FoldsOneByOne ==
  ASSUME NEW n \in Nat, NEW loop, NEW base, NEW seq, NEW f,
         Folds(f, SUBSET (1..n), loop, base, seq)
  PROVE  OneByOne(f, n, loop, base, seq)
<1>1. \A s \in SUBSET (1..n) :
        f[s] = IF s = {} THEN base
               ELSE Step(loop, f[s \ {Greatest(s)}], seq[Greatest(s)])
  BY Zenon DEF Folds
<1>2. 1..0 = {} /\ 1..0 \in SUBSET (1..n)
  OBVIOUS
<1>3. ASSUME NEW i \in 1..n
      PROVE  f[1..i] = Step(loop, f[1..(i - 1)], seq[i])
  <2>1. 1..i \in SUBSET (1..n) /\ i \in Nat \ {0}
    OBVIOUS
  <2>2. Greatest(1..i) = i /\ (1..i) \ {i} = 1..(i - 1) /\ 1..i # {}
    BY <2>1, BeginningOf
  <2> QED BY <1>1, <2>1, <2>2
<1> QED BY <1>1, <1>2, <1>3 DEF OneByOne

-----------------------------------------------------------------------------
(* URIs.                                                                   *)

LEMMA FoldOfBip21 ==
  ASSUME NEW S, NEW params \in Seq(S)
  PROVE  \E f : /\ Folds(f, SUBSET (1..Len(params)), "bip21", Uri!Start, params)
                /\ Uri!Params(params, Uri!Bip21) = f[1..Len(params)]
<1> DEFINE D == 1..Len(params)
           Raw(h) == [s \in SUBSET D |->
                        IF s = {} THEN Uri!Start
                        ELSE IF h[s \ {Greatest(s)}].ok
                             THEN Uri!Bip21(h[s \ {Greatest(s)}], params[Greatest(s)])
                             ELSE h[s \ {Greatest(s)}]]
           f == CHOOSE h : h = Raw(h)
<1>1. Len(params) \in Nat /\ DOMAIN params = D
  BY LenProperties
<1>2. Uri!Params(params, Uri!Bip21) = f[D]
  BY <1>1 DEF Uri!Params, Uri!FoldLeft, Uri!MapThenFoldSet, Uri!Max, Greatest
<1>3. \A h : h = Raw(h) <=> Folds(h, SUBSET D, "bip21", Uri!Start, params)
  BY DEF Folds, Step
<1>4. \E h : h = Raw(h)
  BY <1>1, <1>3, FoldsExist
<1> HIDE DEF Raw
<1>5. f = Raw(f)
  BY <1>4, Zenon
<1> HIDE DEF f
<1> QED BY <1>2, <1>3, <1>5

LEMMA FoldOfLiquid ==
  ASSUME NEW S, NEW params \in Seq(S)
  PROVE  \E f : /\ Folds(f, SUBSET (1..Len(params)), "liquid", Uri!Start, params)
                /\ Uri!Params(params, Uri!Liquid) = f[1..Len(params)]
<1> DEFINE D == 1..Len(params)
           Raw(h) == [s \in SUBSET D |->
                        IF s = {} THEN Uri!Start
                        ELSE IF h[s \ {Greatest(s)}].ok
                             THEN Uri!Liquid(h[s \ {Greatest(s)}], params[Greatest(s)])
                             ELSE h[s \ {Greatest(s)}]]
           f == CHOOSE h : h = Raw(h)
<1>1. Len(params) \in Nat /\ DOMAIN params = D
  BY LenProperties
<1>2. Uri!Params(params, Uri!Liquid) = f[D]
  BY <1>1 DEF Uri!Params, Uri!FoldLeft, Uri!MapThenFoldSet, Uri!Max, Greatest
<1>3. \A h : h = Raw(h) <=> Folds(h, SUBSET D, "liquid", Uri!Start, params)
  BY DEF Folds, Step
<1>4. \E h : h = Raw(h)
  BY <1>1, <1>3, FoldsExist
<1> HIDE DEF Raw
<1>5. f = Raw(f)
  BY <1>4, Zenon
<1> HIDE DEF f
<1> QED BY <1>2, <1>3, <1>5

Item == [as : {"amount", "pjos", "label", "unknown"}, key : Uri!Key, value : Uri!Value]

UriType == [ok : BOOLEAN, fields : [Uri!Field -> Uri!Value \cup {None}], list : Seq(Item)]

\* A parameter that its format rules out.
IsWrongParam(form, p) ==
  \/ p = Uri!NoEquals
  \/ form = "bip21" /\ p = Uri!Empty
  \/ p.key # None /\ ( \/ "%" \in {p.key, p.value}
                       \/ form = "liquid" /\ p.key = "amount" /\ ~Uri!IsAmount(Uri!Percent(p.value))
                       \/ form = "bip21" /\ Uri!Known(p) /\ p.key = "amount" /\ ~Uri!IsAmount(p.value)
                       \/ form = "bip21" /\ Uri!Known(p) /\ p.key = "pjos" /\ p.value # "0" )

ParamTypes == [key : Uri!Key, escaped : BOOLEAN, value : Uri!Value]

LEMMA NoParam ==
  ASSUME NEW p \in {Uri!Empty, Uri!NoEquals}
  PROVE  p.key = None /\ ~Uri!Known(p)
<1>1. Uri!Empty.key = None /\ Uri!NoEquals.key = None
  BY DEF Uri!Empty, Uri!NoEquals
<1>2. p.key = None
  BY <1>1
<1>3. None \notin {"amount", "label", "pjos"}
  BY NoneAssumption DEF Uri!Key
<1> QED BY <1>2, <1>3 DEF Uri!Known

LEMMA ParamType ==
  ASSUME NEW p \in Uri!Param
  PROVE  \/ /\ p \in ParamTypes /\ p.key # None /\ p # Uri!Empty /\ p # Uri!NoEquals
            /\ Uri!Percent(p.value) \in Uri!Value
         \/ p \in {Uri!Empty, Uri!NoEquals} /\ p.key = None /\ ~Uri!Known(p)
<1>1. CASE p \in ParamTypes
  <2>1. p.key \in Uri!Key /\ p.value \in Uri!Value
    BY <1>1 DEF ParamTypes
  <2>2. p.key # None
    BY <2>1, NoneAssumption
  <2>3. Uri!Percent(p.value) \in Uri!Value
    BY <2>1 DEF Uri!Percent, Uri!Value
  <2>4. p # Uri!Empty /\ p # Uri!NoEquals
    BY <2>2, NoParam
  <2> QED BY <1>1, <2>2, <2>3, <2>4
<1>2. CASE p \in {Uri!Empty, Uri!NoEquals}
  BY <1>2, NoParam
<1> QED BY <1>1, <1>2 DEF Uri!Param, ParamTypes

\* How a list is longer by this parameter.
Pushed(x, y, p) ==
  /\ y.fields = x.fields
  /\ \E item \in Item : /\ y.list = Append(x.list, item)
                        /\ item.key = p.key /\ item.value = Uri!Percent(p.value)
                        /\ item.as = "amount" => Uri!IsAmount(item.value)

\* What holds of the URI y that has the parameter p in its list.
Pushes(x, y, p) == y \in UriType /\ y.ok = x.ok /\ Pushed(x, y, p)

LEMMA PushPushes ==
  ASSUME NEW x \in UriType, NEW as \in {"amount", "pjos", "label", "unknown"},
         NEW p, p.key \in Uri!Key, NEW value \in Uri!Value, value = Uri!Percent(p.value),
         as = "amount" => Uri!IsAmount(value)
  PROVE  Pushes(x, Uri!Push(x, as, p.key, value), p)
<1> DEFINE y == Uri!Push(x, as, p.key, value)
           item == [as |-> as, key |-> p.key, value |-> value]
<1>1. item \in Item /\ item.as = as /\ item.key = p.key /\ item.value = value
  BY DEF Item
<1>2. y = [x EXCEPT !.list = Append(x.list, item)]
  BY DEF Uri!Push, UriType
<1> HIDE DEF y, item
<1>3. x.ok \in BOOLEAN /\ x.fields \in [Uri!Field -> Uri!Value \cup {None}] /\ x.list \in Seq(Item)
      /\ x = [ok |-> x.ok, fields |-> x.fields, list |-> x.list]
  BY DEF UriType
<1>4. Append(x.list, item) \in Seq(Item)
  BY <1>1, <1>3, AppendProperties
<1>5. y = [ok |-> x.ok, fields |-> x.fields, list |-> Append(x.list, item)]
  BY <1>2, <1>3
<1>6. y \in UriType /\ y.ok = x.ok /\ y.fields = x.fields /\ y.list = Append(x.list, item)
  BY <1>3, <1>4, <1>5 DEF UriType
<1>7. Pushed(x, y, p)
  BY <1>1, <1>6 DEF Pushed
<1> QED BY <1>6, <1>7 DEF y, Pushes

LEMMA Bip21Step ==
  ASSUME NEW x \in UriType, x.ok, NEW p \in Uri!Param
  PROVE  LET y == Uri!Bip21(x, p) IN
         /\ y \in UriType
         /\ y.ok <=> ~IsWrongParam("bip21", p)
         /\ y.ok => Pushed(x, y, p) /\ p.key # None
<1> DEFINE y == Uri!Bip21(x, p)
<1>1. CASE p \in {Uri!Empty, Uri!NoEquals}
  <2>1. y = Uri!Refuse(x) /\ ~Uri!Known(p)
    BY <1>1, ParamType DEF Uri!Bip21
  <2>2. y \in UriType /\ ~y.ok
    BY <2>1 DEF Uri!Refuse, UriType
  <2>3. IsWrongParam("bip21", p)
    BY <1>1 DEF IsWrongParam
  <2> QED BY <2>2, <2>3
<1>2. CASE p \notin {Uri!Empty, Uri!NoEquals}
  <2>1. p.key \in Uri!Key /\ p.value \in Uri!Value /\ p.key # None
        /\ Uri!Percent(p.value) \in Uri!Value
    BY <1>2, ParamType DEF ParamTypes
  <2>2. Uri!Refuse(x) \in UriType /\ ~Uri!Refuse(x).ok
    BY DEF Uri!Refuse, UriType
  <2>3. CASE Uri!Known(p) /\ p.key = "amount"
    <3>1. y = IF Uri!IsAmount(p.value) THEN Uri!Push(x, "amount", p.key, p.value)
              ELSE Uri!Refuse(x)
      BY <1>2, <2>3 DEF Uri!Bip21
    <3>2. IsWrongParam("bip21", p) <=> ~Uri!IsAmount(p.value)
      BY <1>2, <2>1, <2>3 DEF IsWrongParam, Uri!IsAmount
    <3>3. Uri!IsAmount(p.value) => Uri!Percent(p.value) = p.value
      BY DEF Uri!IsAmount, Uri!Percent
    <3>4. Uri!IsAmount(p.value) => Pushes(x, Uri!Push(x, "amount", p.key, p.value), p)
      BY <2>1, <3>3, PushPushes
    <3> QED BY <2>1, <2>2, <3>1, <3>2, <3>4 DEF Pushes
  <2>4. CASE Uri!Known(p) /\ p.key = "pjos"
    <3>1. y = IF p.value = "0" THEN Uri!Push(x, "pjos", p.key, "0") ELSE Uri!Refuse(x)
      BY <1>2, <2>4 DEF Uri!Bip21
    <3>2. IsWrongParam("bip21", p) <=> p.value # "0"
      BY <1>2, <2>1, <2>4 DEF IsWrongParam
    <3>3. p.value = "0" => Uri!Percent(p.value) = "0"
      BY DEF Uri!Percent
    <3>4. p.value = "0" => Pushes(x, Uri!Push(x, "pjos", p.key, "0"), p)
      BY <2>1, <3>3, PushPushes
    <3> QED BY <2>1, <2>2, <3>1, <3>2, <3>4 DEF Pushes
  <2>5. CASE ~ (Uri!Known(p) /\ p.key \in {"amount", "pjos"})
    <3> DEFINE as == IF Uri!Known(p) THEN "label" ELSE "unknown"
    <3>1. y = IF Uri!Decodes(p.key) /\ Uri!Decodes(p.value)
              THEN Uri!Push(x, as, p.key, Uri!Percent(p.value)) ELSE Uri!Refuse(x)
      BY <1>2, <2>5 DEF Uri!Bip21
    <3>2. IsWrongParam("bip21", p) <=> ~ (Uri!Decodes(p.key) /\ Uri!Decodes(p.value))
      BY <1>2, <2>1, <2>5 DEF IsWrongParam, Uri!Decodes
    <3>3. as \in {"amount", "pjos", "label", "unknown"} /\ as # "amount"
      OBVIOUS
    <3> HIDE DEF as
    <3>4. Pushes(x, Uri!Push(x, as, p.key, Uri!Percent(p.value)), p)
      BY <2>1, <3>3, PushPushes
    <3> QED BY <2>1, <2>2, <3>1, <3>2, <3>4 DEF Pushes
  <2> QED BY <2>3, <2>4, <2>5
<1> QED BY <1>1, <1>2

\* A field that has this parameter's value now.
IsSet(x, y, p) ==
  /\ p.key \in Uri!Field
  /\ y.list = x.list
  /\ y.fields = [x.fields EXCEPT ![p.key] = Uri!Percent(p.value)]
  /\ p.key = "amount" => Uri!IsAmount(Uri!Percent(p.value))

LEMMA LiquidStep ==
  ASSUME NEW x \in UriType, x.ok, NEW p \in Uri!Param
  PROVE  LET y == Uri!Liquid(x, p) IN
         /\ y \in UriType
         /\ y.ok <=> ~IsWrongParam("liquid", p)
         /\ y.ok => \/ p.key = None /\ y = x
                    \/ p.key # None /\ (Pushed(x, y, p) \/ IsSet(x, y, p))
<1> DEFINE y == Uri!Liquid(x, p)
           value == Uri!Percent(p.value)
           reads == p # Uri!NoEquals /\ Uri!Decodes(p.key) /\ Uri!Decodes(value)
<1>0. Uri!Refuse(x) \in UriType /\ ~Uri!Refuse(x).ok
  BY DEF Uri!Refuse, UriType
<1>1. CASE p = Uri!Empty
  <2>1. p # Uri!NoEquals /\ p.key = None
    BY <1>1, ParamType DEF Uri!Empty, Uri!NoEquals
  <2>2. None \notin Uri!Key
    BY NoneAssumption
  <2>3. y = x
    BY <1>1, <2>1, <2>2 DEF Uri!Liquid, Uri!Key
  <2> QED BY <2>1, <2>3 DEF IsWrongParam
<1>2. CASE p # Uri!Empty /\ ~reads
  <2>1. y = Uri!Refuse(x)
    BY <1>2 DEF Uri!Liquid
  <2>2. IsWrongParam("liquid", p)
    BY <1>2, ParamType DEF IsWrongParam, Uri!Decodes, Uri!Percent
  <2> QED BY <1>0, <2>1, <2>2
<1>3. CASE p # Uri!Empty /\ reads
  <2>1. p.key \in Uri!Key /\ value \in Uri!Value /\ p.key # None /\ p.key # "%" /\ p.value # "%"
    BY <1>3, ParamType DEF ParamTypes, Uri!Decodes, Uri!Percent
  <2>2. CASE p.key = "amount"
    <3>1. y = IF Uri!IsAmount(value) THEN Uri!Set(x, "amount", value) ELSE Uri!Refuse(x)
      BY <1>3, <2>2 DEF Uri!Liquid
    <3>2. IsWrongParam("liquid", p) <=> ~Uri!IsAmount(value)
      BY <1>3, <2>1, <2>2 DEF IsWrongParam
    <3>3. Uri!IsAmount(value) => y \in UriType /\ y.ok /\ IsSet(x, y, p)
      BY <2>1, <2>2, <3>1 DEF Uri!Set, UriType, IsSet, Uri!Field
    <3> QED BY <1>0, <2>1, <3>1, <3>2, <3>3
  <2>3. CASE p.key \in {"assetid", "label"}
    <3>1. y = Uri!Set(x, p.key, value)
      BY <1>3, <2>3 DEF Uri!Liquid
    <3>2. ~IsWrongParam("liquid", p)
      BY <1>3, <2>1, <2>3 DEF IsWrongParam
    <3>3. y \in UriType /\ y.ok /\ IsSet(x, y, p)
      BY <2>1, <2>3, <3>1 DEF Uri!Set, UriType, IsSet, Uri!Field
    <3> QED BY <2>1, <3>2, <3>3
  <2>4. CASE p.key \notin {"amount", "assetid", "label"}
    <3>1. y = Uri!Push(x, "unknown", p.key, value)
      BY <1>3, <2>4 DEF Uri!Liquid
    <3>2. ~IsWrongParam("liquid", p)
      BY <1>3, <2>1, <2>4 DEF IsWrongParam
    <3> HIDE DEF value
    <3>3. Pushes(x, Uri!Push(x, "unknown", p.key, value), p)
      BY <2>1, PushPushes DEF value
    <3> QED BY <2>1, <3>1, <3>2, <3>3 DEF Pushes
  <2> QED BY <2>2, <2>3, <2>4
<1> QED BY <1>1, <1>2, <1>3

Forms == {"bip21", "liquid"}

\* What a parameter changes.
ReadsParam(form, x, y, p) ==
  /\ y \in UriType
  /\ y.ok <=> x.ok /\ ~IsWrongParam(form, p)
  /\ y.ok => \/ form = "liquid" /\ p.key = None /\ y = x
             \/ p.key # None /\ Pushed(x, y, p)
             \/ form = "liquid" /\ p.key # None /\ IsSet(x, y, p)

LEMMA ParamStep ==
  ASSUME NEW form \in Forms, NEW x \in UriType, NEW p \in Uri!Param
  PROVE  ReadsParam(form, x, Step(form, x, p), p)
<1> DEFINE y == Step(form, x, p)
<1>1. CASE ~x.ok
  <2>1. y = x
    BY <1>1 DEF Step, Forms
  <2> QED BY <1>1, <2>1 DEF ReadsParam
<1>2. CASE x.ok /\ form = "bip21"
  <2>1. y = Uri!Bip21(x, p)
    BY <1>2 DEF Step
  <2> QED BY <1>2, <2>1, Bip21Step DEF ReadsParam
<1>3. CASE x.ok /\ form = "liquid"
  <2>1. y = Uri!Liquid(x, p)
    BY <1>3 DEF Step
  <2> QED BY <1>3, <2>1, LiquidStep DEF ReadsParam
<1> QED BY <1>1, <1>2, <1>3 DEF Forms

Shows(x, p) ==
  \/ \E e \in Uri!Range(x.list) : e.key = p.key /\ e.value = Uri!Percent(p.value)
  \/ p.key \in Uri!Field /\ x.fields[p.key] = Uri!Percent(p.value)

AmountsAreAmounts(x) ==
  /\ x.fields["amount"] # None => Uri!IsAmount(x.fields["amount"])
  /\ \A k \in 1..Len(x.list) : x.list[k].as = "amount" => Uri!IsAmount(x.list[k].value)

\* One parameter more: it is shown, the others are as before unless it replaces them.
LEMMA ShowsOneMore ==
  ASSUME NEW form \in Forms, NEW x \in UriType, NEW y, NEW p \in Uri!Param,
         ReadsParam(form, x, y, p), y.ok, AmountsAreAmounts(x)
  PROVE  /\ p.key # None => Shows(y, p)
         /\ \A q : Shows(x, q) =>
              Shows(y, q) \/ (form = "liquid" /\ q.key \in Uri!Field /\ q.key = p.key)
         /\ form = "bip21" => Len(y.list) = Len(x.list) + 1 /\ p.key # None
         /\ AmountsAreAmounts(y)
<1>0. x.list \in Seq(Item) /\ x.fields \in [Uri!Field -> Uri!Value \cup {None}]
  BY DEF UriType
<1>1. CASE form = "liquid" /\ p.key = None /\ y = x
  BY <1>1
<1>2. CASE p.key # None /\ Pushed(x, y, p)
  <2>1. PICK item \in Item : /\ y.list = Append(x.list, item)
                             /\ item.key = p.key /\ item.value = Uri!Percent(p.value)
                             /\ item.as = "amount" => Uri!IsAmount(item.value)
    BY <1>2 DEF Pushed
  <2>2. /\ Len(x.list) \in Nat /\ Len(y.list) = Len(x.list) + 1
        /\ DOMAIN x.list = 1..Len(x.list) /\ DOMAIN y.list = 1..Len(y.list)
        /\ \A k \in 1..Len(x.list) : y.list[k] = x.list[k]
        /\ y.list[Len(y.list)] = item
    BY <1>0, <2>1, AppendProperties, LenProperties
  <2>3. Uri!Range(x.list) \subseteq Uri!Range(y.list) /\ item \in Uri!Range(y.list)
    BY <2>2 DEF Uri!Range
  <2>4. y.fields = x.fields
    BY <1>2 DEF Pushed
  <2>5. Shows(y, p)
    BY <2>1, <2>3 DEF Shows
  <2>6. \A q : Shows(x, q) => Shows(y, q)
    BY <2>3, <2>4 DEF Shows
  <2>7. AmountsAreAmounts(y)
    <3>1. ASSUME NEW k \in 1..Len(y.list), y.list[k].as = "amount"
          PROVE  Uri!IsAmount(y.list[k].value)
      <4>1. k \in 1..Len(x.list) \/ k = Len(y.list)
        BY <2>2
      <4>2. CASE k \in 1..Len(x.list)
        BY <2>2, <3>1, <4>2 DEF AmountsAreAmounts
      <4>3. CASE k = Len(y.list)
        BY <2>1, <2>2, <3>1, <4>3
      <4> QED BY <4>1, <4>2, <4>3
    <3> QED BY <2>4, <3>1 DEF AmountsAreAmounts
  <2> QED BY <1>2, <2>2, <2>5, <2>6, <2>7
<1>3. CASE form = "liquid" /\ p.key # None /\ IsSet(x, y, p)
  <2>1. /\ p.key \in Uri!Field /\ y.list = x.list
        /\ y.fields = [x.fields EXCEPT ![p.key] = Uri!Percent(p.value)]
        /\ p.key = "amount" => Uri!IsAmount(Uri!Percent(p.value))
    BY <1>3 DEF IsSet
  <2>2. y.fields[p.key] = Uri!Percent(p.value)
        /\ \A field \in Uri!Field : field # p.key => y.fields[field] = x.fields[field]
    BY <1>0, <2>1
  <2>3. Shows(y, p)
    BY <2>1, <2>2 DEF Shows
  <2>4. \A q : Shows(x, q) => Shows(y, q) \/ (q.key \in Uri!Field /\ q.key = p.key)
    BY <2>1, <2>2 DEF Shows
  <2>5. "amount" \in Uri!Field
    BY DEF Uri!Field
  <2>6. AmountsAreAmounts(y)
    BY <2>1, <2>2, <2>5 DEF AmountsAreAmounts
  <2>7. form # "bip21"
    BY <1>3
  <2> QED BY <1>3, <2>3, <2>4, <2>6, <2>7
<1> QED BY <1>1, <1>2, <1>3 DEF ReadsParam, Forms

\* What is to be said of the URI read from the first n parameters.
IsReadUpTo(form, params, x, n) ==
  /\ x \in UriType
  /\ x.ok <=> \A j \in 1..n : ~IsWrongParam(form, params[j])
  /\ x.ok =>
       /\ \A j \in 1..n : params[j].key # None =>
            \/ Shows(x, params[j])
            \/ /\ form = "liquid" /\ params[j].key \in Uri!Field
               /\ \E k \in j + 1 .. n : params[k].key = params[j].key
       /\ form = "bip21" => Len(x.list) = n
       /\ AmountsAreAmounts(x)

LEMMA ReadsNone ==
  ASSUME NEW form \in Forms, NEW params
  PROVE  IsReadUpTo(form, params, Uri!Start, 0)
<1>1. << >> \in Seq(Item) /\ Len(<< >>) = 0
  OBVIOUS
<1>2. Uri!Start \in UriType /\ Uri!Start.ok /\ Uri!Start.list = << >>
  BY <1>1 DEF Uri!Start, UriType
<1>3. Uri!Start.fields["amount"] = None
  BY DEF Uri!Start, Uri!Field
<1>4. AmountsAreAmounts(Uri!Start)
  BY <1>1, <1>2, <1>3 DEF AmountsAreAmounts
<1> QED BY <1>1, <1>2, <1>4 DEF IsReadUpTo

LEMMA ReadsOneMore ==
  ASSUME NEW form \in Forms, NEW params \in Seq(Uri!Param), NEW n \in 1..Len(params),
         NEW x, IsReadUpTo(form, params, x, n - 1)
  PROVE  IsReadUpTo(form, params, Step(form, x, params[n]), n)
<1> DEFINE p == params[n]
           y == Step(form, x, p)
<1>0. p \in Uri!Param /\ n \in Nat /\ n - 1 \in Nat /\ x \in UriType
  BY ElementOfSeq DEF IsReadUpTo
<1>1. ReadsParam(form, x, y, p)
  BY <1>0, ParamStep
<1> HIDE DEF y
<1>2. \A j \in 1..n : j \in 1..(n - 1) \/ j = n
  BY <1>0
<1>2a. \A j \in 1..(n - 1) : j \in 1..n /\ n \in j + 1 .. n
                              /\ \A k \in j + 1 .. n - 1 : k \in j + 1 .. n
  BY <1>0
<1>3. y \in UriType
  BY <1>1 DEF ReadsParam
<1>4. y.ok <=> \A j \in 1..n : ~IsWrongParam(form, params[j])
  BY <1>0, <1>1, <1>2, <1>2a DEF ReadsParam, IsReadUpTo
<1>5. ASSUME y.ok
      PROVE  /\ \A j \in 1..n : params[j].key # None =>
                  \/ Shows(y, params[j])
                  \/ /\ form = "liquid" /\ params[j].key \in Uri!Field
                     /\ \E k \in j + 1 .. n : params[k].key = params[j].key
             /\ form = "bip21" => Len(y.list) = n
             /\ AmountsAreAmounts(y)
  <2>1. x.ok
    BY <1>1, <1>5 DEF ReadsParam
  <2>2. AmountsAreAmounts(x)
    BY <2>1 DEF IsReadUpTo
  <2>3. /\ p.key # None => Shows(y, p)
        /\ \A q : Shows(x, q) =>
             Shows(y, q) \/ (form = "liquid" /\ q.key \in Uri!Field /\ q.key = p.key)
        /\ form = "bip21" => Len(y.list) = Len(x.list) + 1 /\ p.key # None
        /\ AmountsAreAmounts(y)
    BY <1>0, <1>1, <1>5, <2>2, ShowsOneMore
  <2>4. ASSUME NEW j \in 1..n, params[j].key # None
        PROVE  \/ Shows(y, params[j])
               \/ /\ form = "liquid" /\ params[j].key \in Uri!Field
                  /\ \E k \in j + 1 .. n : params[k].key = params[j].key
    <3>1. CASE j = n
      BY <2>3, <2>4, <3>1
    <3>2. CASE j \in 1..(n - 1)
      <4>1. \/ Shows(x, params[j])
            \/ /\ form = "liquid" /\ params[j].key \in Uri!Field
               /\ \E k \in j + 1 .. n - 1 : params[k].key = params[j].key
        BY <2>1, <2>4, <3>2 DEF IsReadUpTo
      <4>2. CASE Shows(x, params[j])
        BY <1>2a, <2>3, <3>2, <4>2
      <4>3. CASE /\ form = "liquid" /\ params[j].key \in Uri!Field
                 /\ \E k \in j + 1 .. n - 1 : params[k].key = params[j].key
        BY <1>2a, <3>2, <4>3
      <4> QED BY <4>1, <4>2, <4>3
    <3> QED BY <1>2, <3>1, <3>2
  <2>5. form = "bip21" => Len(y.list) = n
    <3>1. form = "bip21" => Len(x.list) = n - 1
      BY <2>1 DEF IsReadUpTo
    <3> QED BY <1>0, <2>3, <3>1
  <2> QED BY <2>3, <2>4, <2>5
<1> QED BY <1>3, <1>4, <1>5 DEF IsReadUpTo, y

LEMMA ReadsAll ==
  ASSUME NEW form \in Forms, NEW params \in Seq(Uri!Param), NEW f,
         Folds(f, SUBSET (1..Len(params)), form, Uri!Start, params)
  PROVE  IsReadUpTo(form, params, f[1..Len(params)], Len(params))
<1> DEFINE N == Len(params)
           Bad == {n \in 0..N : ~IsReadUpTo(form, params, f[1..n], n)}
<1>0. N \in Nat
  BY LenProperties
<1>1. /\ f[1..0] = Uri!Start
      /\ \A i \in 1..N : f[1..i] = Step(form, f[1..(i - 1)], params[i])
  <2>1. OneByOne(f, N, form, Uri!Start, params)
    BY <1>0, FoldsOneByOne
  <2> QED BY <2>1 DEF OneByOne
<1>2. SUFFICES ASSUME Bad # {} PROVE FALSE
  <2>1. N \in 0..N
    BY <1>0
  <2> QED BY <1>2, <2>1
<1>3. PICK n \in Bad : \A m \in Bad : n <= m
  <2>1. Bad \subseteq Nat
    BY <1>0
  <2> HIDE DEF Bad
  <2> QED BY <1>2, <2>1, LeastNumber
<1>4. n # 0
  BY <1>1, <1>3, ReadsNone
<1>5. n \in 1..N /\ n - 1 \in 0..N /\ ~ (n <= n - 1)
  BY <1>0, <1>3, <1>4
<1>6. IsReadUpTo(form, params, f[1..(n - 1)], n - 1)
  BY <1>3, <1>5
<1>7. IsReadUpTo(form, params, f[1..n], n)
  BY <1>1, <1>5, <1>6, ReadsOneMore
<1> QED BY <1>3, <1>7

\* A parameter that its format rules out makes the URI wrong, or its address does.
LEMMA WrongParams ==
  ASSUME NEW form \in Forms, NEW params \in Seq(Uri!Param), NEW address
  PROVE  LET u == [form |-> form, address |-> address, params |-> params] IN
         Uri!IsWrong(u) <=>
           \/ ~Uri!AddressFits(u)
           \/ \E j \in 1..Len(params) : IsWrongParam(form, params[j])
<1> DEFINE u == [form |-> form, address |-> address, params |-> params]
<1>1. u.form = form /\ u.params = params /\ DOMAIN params = 1..Len(params)
  BY LenProperties
<1> HIDE DEF u
<1>2. Uri!Range(params) = {params[j] : j \in 1..Len(params)}
  BY <1>1 DEF Uri!Range
<1>3. Uri!Written(u) = {j \in 1..Len(params) : params[j].key # None}
  BY <1>1 DEF Uri!Written
<1>4. Uri!IsWrong(u) <=>
        \/ ~Uri!AddressFits(u)
        \/ \E j \in 1..Len(params) : params[j] = Uri!NoEquals
        \/ form = "bip21" /\ \E j \in 1..Len(params) : params[j] = Uri!Empty
        \/ \E j \in 1..Len(params) : params[j].key # None /\
             \/ "%" \in {params[j].key, params[j].value}
             \/ form = "liquid" /\ params[j].key = "amount" /\ ~Uri!IsAmount(Uri!Percent(params[j].value))
             \/ form = "bip21" /\ Uri!Known(params[j]) /\ params[j].key = "amount"
                /\ ~Uri!IsAmount(params[j].value)
             \/ form = "bip21" /\ Uri!Known(params[j]) /\ params[j].key = "pjos"
                /\ params[j].value # "0"
  BY <1>1, <1>2, <1>3 DEF Uri!IsWrong
<1> QED BY <1>4 DEF IsWrongParam, u

IsWhole(u, uri) ==
  /\ uri.ok <=> ~Uri!IsWrong(u)
  /\ uri.ok =>
       /\ \A i \in Uri!Written(u) : Uri!IsShown(u, uri, i) \/ Uri!IsReplaced(u, i)
       /\ u.form = "bip21" => Len(uri.list) = Len(u.params)
       /\ uri.fields.amount # None => Uri!IsAmount(uri.fields.amount)
       /\ \A i \in DOMAIN uri.list :
            uri.list[i].as = "amount" => Uri!IsAmount(uri.list[i].value)

LEMMA UrisAreWhole ==
  ASSUME NEW u \in Uri!Uri(MaxParams)
  PROVE  IsWhole(u, Uri!Parse(u))
<1> DEFINE N == Len(u.params)
           x == IF u.form = "bip21" THEN Uri!Params(u.params, Uri!Bip21)
                ELSE Uri!Params(u.params, Uri!Liquid)
           fits == Uri!AddressFits(u)
<1>1. /\ u.form \in Forms /\ u.params \in Seq(Uri!Param)
      /\ u = [form |-> u.form, address |-> u.address, params |-> u.params]
  <2>1. PICK n \in 0..MaxParams : u.params \in [1..n -> Uri!Param]
    BY DEF Uri!Uri
  <2>2. n \in Nat
    BY <2>1, ConstantsAssumption
  <2> QED BY <2>1, <2>2 DEF Uri!Uri, Forms
<1>2. Uri!Parse(u) = IF fits THEN x ELSE Uri!Refuse(x)
  BY DEF Uri!Parse
<1>3. IsReadUpTo(u.form, u.params, x, N)
  <2>1. CASE u.form = "bip21"
    <3>1. PICK f : /\ Folds(f, SUBSET (1..N), "bip21", Uri!Start, u.params)
                   /\ Uri!Params(u.params, Uri!Bip21) = f[1..N]
      BY <1>1, FoldOfBip21
    <3>2. IsReadUpTo("bip21", u.params, f[1..N], N)
      BY <1>1, <2>1, <3>1, ReadsAll
    <3> QED BY <2>1, <3>1, <3>2
  <2>2. CASE u.form = "liquid"
    <3>1. PICK f : /\ Folds(f, SUBSET (1..N), "liquid", Uri!Start, u.params)
                   /\ Uri!Params(u.params, Uri!Liquid) = f[1..N]
      BY <1>1, FoldOfLiquid
    <3>2. IsReadUpTo("liquid", u.params, f[1..N], N)
      BY <1>1, <2>2, <3>1, ReadsAll
    <3> QED BY <2>2, <3>1, <3>2
  <2> QED BY <1>1, <2>1, <2>2 DEF Forms
<1>4. Uri!IsWrong(u) <=> ~fits \/ \E j \in 1..N : IsWrongParam(u.form, u.params[j])
  BY <1>1, WrongParams
<1> HIDE DEF x
<1>5. x \in UriType /\ (x.ok <=> \A j \in 1..N : ~IsWrongParam(u.form, u.params[j]))
  BY <1>3 DEF IsReadUpTo
<1>6. CASE ~fits
  <2>1. ~Uri!Refuse(x).ok
    BY <1>5 DEF Uri!Refuse, UriType
  <2> QED BY <1>2, <1>4, <1>6, <2>1 DEF IsWhole
<1>7. CASE fits
  <2>1. Uri!Parse(u) = x
    BY <1>2, <1>7
  <2>2. x.ok <=> ~Uri!IsWrong(u)
    BY <1>4, <1>5, <1>7
  <2>3. ASSUME x.ok
        PROVE  /\ \A i \in Uri!Written(u) : Uri!IsShown(u, x, i) \/ Uri!IsReplaced(u, i)
               /\ u.form = "bip21" => Len(x.list) = N
               /\ AmountsAreAmounts(x)
    <3>1. DOMAIN u.params = 1..N
      BY <1>1, LenProperties
    <3>2. /\ \A j \in 1..N : u.params[j].key # None =>
              \/ Shows(x, u.params[j])
              \/ /\ u.form = "liquid" /\ u.params[j].key \in Uri!Field
                 /\ \E k \in j + 1 .. N : u.params[k].key = u.params[j].key
          /\ u.form = "bip21" => Len(x.list) = N
          /\ AmountsAreAmounts(x)
      BY <1>3, <2>3 DEF IsReadUpTo
    <3>3. ASSUME NEW i \in Uri!Written(u)
          PROVE  Uri!IsShown(u, x, i) \/ Uri!IsReplaced(u, i)
      <4>1. i \in 1..N /\ u.params[i].key # None
        BY <3>1 DEF Uri!Written
      <4>2. Shows(x, u.params[i]) => Uri!IsShown(u, x, i)
        BY DEF Shows, Uri!IsShown
      <4>3. (/\ u.form = "liquid" /\ u.params[i].key \in Uri!Field
             /\ \E k \in i + 1 .. N : u.params[k].key = u.params[i].key) => Uri!IsReplaced(u, i)
        BY DEF Uri!IsReplaced
      <4> QED BY <3>2, <4>1, <4>2, <4>3
    <3> QED BY <3>2, <3>3
  <2>4. DOMAIN x.list = 1..Len(x.list) /\ x.fields.amount = x.fields["amount"]
    BY <1>5, LenProperties DEF UriType
  <2> QED BY <2>1, <2>2, <2>3, <2>4 DEF IsWhole, AmountsAreAmounts
<1> QED BY <1>6, <1>7

-----------------------------------------------------------------------------
(* Metadata.                                                               *)

LEMMA FoldOfMetadata ==
  ASSUME NEW S, NEW entries \in Seq(S)
  PROVE  \E f : /\ Folds(f, SUBSET (1..Len(entries)), "metadata", Metadata!Nothing, entries)
                /\ Metadata!FoldLeft(Metadata!Read, Metadata!Nothing, entries) = f[1..Len(entries)]
<1> DEFINE D == 1..Len(entries)
           Raw(h) == [s \in SUBSET D |->
                        IF s = {} THEN Metadata!Nothing
                        ELSE Metadata!Read(h[s \ {Greatest(s)}], entries[Greatest(s)])]
           f == CHOOSE h : h = Raw(h)
<1>1. Len(entries) \in Nat /\ DOMAIN entries = D
  BY LenProperties
<1>2. Metadata!FoldLeft(Metadata!Read, Metadata!Nothing, entries) = f[D]
  BY <1>1 DEF Metadata!FoldLeft, Metadata!MapThenFoldSet, Metadata!Max, Greatest
<1>3. \A h : h = Raw(h) <=> Folds(h, SUBSET D, "metadata", Metadata!Nothing, entries)
  BY DEF Folds, Step
<1>4. \E h : h = Raw(h)
  BY <1>1, <1>3, FoldsExist
<1> HIDE DEF Raw
<1>5. f = Raw(f)
  BY <1>4, Zenon
<1> HIDE DEF f
<1> QED BY <1>2, <1>3, <1>5

LEMMA SameCardinality == \A S : Metadata!Cardinality(S) = Cardinality(S)
BY DEF Metadata!Cardinality, Cardinality

\* The kinds of entries.
PlainKeys == {"text/plain"}
LongKeys  == {"text/long-desc", "text/longdesc"}
ImageKeys == {"image/png;base64", "image/jpeg;base64"}
OtherKeys == {"other"}

\* The places of the entries of a kind among the first n.
Places(entries, n, keys) == {i \in 1..n : entries[i].key \in keys}

LEMMA PlacesOneMore ==
  ASSUME NEW entries, NEW n \in Nat \ {0}, NEW keys
  PROVE  /\ entries[n].key \in keys =>
              Places(entries, n, keys) = Places(entries, n - 1, keys) \cup {n}
         /\ entries[n].key \notin keys =>
              Places(entries, n, keys) = Places(entries, n - 1, keys)
         /\ Places(entries, n - 1, keys) \subseteq 1..(n - 1)
         /\ n \notin Places(entries, n - 1, keys)
<1>1. \A i : i \in 1..n <=> i \in 1..(n - 1) \/ i = n
  OBVIOUS
<1>2. n \notin 1..(n - 1)
  OBVIOUS
<1> QED BY <1>1, <1>2 DEF Places

\* The first n entries are acceptable, though the description may be missing.
IsFine(entries, n) ==
  /\ \A i \in 1..n : entries[i].key # None
  /\ \A i, j \in Places(entries, n, PlainKeys) : i = j
  /\ \A i, j \in Places(entries, n, ImageKeys) : i = j
  /\ \A i \in Places(entries, n, PlainKeys) \cup Places(entries, n, LongKeys) :
       entries[i].value # "empty"
  /\ \A i \in Places(entries, n, ImageKeys) : Metadata!IsBase64(entries[i].value)

\* So they are with the n-th if they are without it and the n-th fits.
Fits(entries, n) ==
  /\ entries[n].key # None
  /\ entries[n].key \in PlainKeys =>
       Places(entries, n - 1, PlainKeys) = {} /\ entries[n].value # "empty"
  /\ entries[n].key \in LongKeys => entries[n].value # "empty"
  /\ entries[n].key \in ImageKeys =>
       Places(entries, n - 1, ImageKeys) = {} /\ Metadata!IsBase64(entries[n].value)

LEMMA FineOneMore ==
  ASSUME NEW entries, NEW n \in Nat \ {0}
  PROVE  IsFine(entries, n) <=> IsFine(entries, n - 1) /\ Fits(entries, n)
<1> DEFINE Old(keys) == Places(entries, n - 1, keys)
           New(keys) == Places(entries, n, keys)
<1>1. \A i : i \in 1..n <=> i \in 1..(n - 1) \/ i = n
  OBVIOUS
<1>2. \A keys : /\ entries[n].key \in keys => New(keys) = Old(keys) \cup {n}
                /\ entries[n].key \notin keys => New(keys) = Old(keys)
                /\ n \notin Old(keys)
  BY PlacesOneMore
<1> HIDE DEF Old, New
<1>3. \A keys : (\A i, j \in New(keys) : i = j) <=>
                /\ \A i, j \in Old(keys) : i = j
                /\ entries[n].key \in keys => Old(keys) = {}
  <2> TAKE keys
  <2>1. CASE entries[n].key \in keys
    BY <1>2, <2>1
  <2>2. CASE entries[n].key \notin keys
    BY <1>2, <2>2
  <2> QED BY <2>1, <2>2
<1>4. \A keys : (\A i \in New(keys) : entries[i].value # "empty") <=>
                /\ \A i \in Old(keys) : entries[i].value # "empty"
                /\ entries[n].key \in keys => entries[n].value # "empty"
  BY <1>2
<1>5. (\A i \in New(ImageKeys) : Metadata!IsBase64(entries[i].value)) <=>
        /\ \A i \in Old(ImageKeys) : Metadata!IsBase64(entries[i].value)
        /\ entries[n].key \in ImageKeys => Metadata!IsBase64(entries[n].value)
  BY <1>2
<1>6. (\A i \in 1..n : entries[i].key # None) <=>
        (\A i \in 1..(n - 1) : entries[i].key # None) /\ entries[n].key # None
  BY <1>1
<1>7. IsFine(entries, n) <=>
        /\ \A i \in 1..n : entries[i].key # None
        /\ \A i, j \in New(PlainKeys) : i = j
        /\ \A i, j \in New(ImageKeys) : i = j
        /\ \A i \in New(PlainKeys) : entries[i].value # "empty"
        /\ \A i \in New(LongKeys) : entries[i].value # "empty"
        /\ \A i \in New(ImageKeys) : Metadata!IsBase64(entries[i].value)
  BY DEF IsFine, New
<1>8. IsFine(entries, n - 1) <=>
        /\ \A i \in 1..(n - 1) : entries[i].key # None
        /\ \A i, j \in Old(PlainKeys) : i = j
        /\ \A i, j \in Old(ImageKeys) : i = j
        /\ \A i \in Old(PlainKeys) : entries[i].value # "empty"
        /\ \A i \in Old(LongKeys) : entries[i].value # "empty"
        /\ \A i \in Old(ImageKeys) : Metadata!IsBase64(entries[i].value)
  BY DEF IsFine, Old
<1>9. Fits(entries, n) <=>
        /\ entries[n].key # None
        /\ entries[n].key \in PlainKeys => Old(PlainKeys) = {}
        /\ entries[n].key \in PlainKeys => entries[n].value # "empty"
        /\ entries[n].key \in LongKeys => entries[n].value # "empty"
        /\ entries[n].key \in ImageKeys => Old(ImageKeys) = {}
        /\ entries[n].key \in ImageKeys => Metadata!IsBase64(entries[n].value)
  BY DEF Fits, Old
<1> QED BY <1>3, <1>4, <1>5, <1>6, <1>7, <1>8, <1>9

\* A number that is greater than all of the places is the last with them.
IsLast(i, places) == i \in places /\ \A j \in places : j <= i

LEMMA LastOneMore ==
  ASSUME NEW n \in Nat \ {0}, NEW places, places \subseteq 1..(n - 1)
  PROVE  \A i : IsLast(i, places \cup {n}) <=> i = n
<1>1. \A j \in places : j \in 1..(n - 1)
  OBVIOUS
<1>2. \A j \in 1..(n - 1) : j <= n /\ ~(n <= j)
  OBVIOUS
<1>3. n <= n
  OBVIOUS
<1> QED BY <1>1, <1>2, <1>3 DEF IsLast

LEMMA ListOneMore ==
  ASSUME NEW entries, NEW n \in Nat \ {0}, NEW places, places \subseteq 1..(n - 1),
         NEW list \in Seq(Metadata!Entry), entries[n] \in Metadata!Entry,
         Metadata!IsListOf(list, entries, places)
  PROVE  Metadata!IsListOf(Append(list, entries[n]), entries, places \cup {n})
<1> DEFINE longer == Append(list, entries[n])
           UpTo(i) == {j \in places : j <= i}
           UpToAll(i) == {j \in places \cup {n} : j <= i}
<1>1. /\ Len(list) = Cardinality(places)
      /\ \A i \in places : list[Cardinality(UpTo(i))] = entries[i]
  BY SameCardinality DEF Metadata!IsListOf
<1>2. Len(list) \in Nat /\ Len(longer) = Len(list) + 1
      /\ \A k \in 1..Len(list) : longer[k] = list[k]
  BY AppendProperties, LenProperties
<1>3. longer[Len(list) + 1] = entries[n]
  BY AppendProperties
<1>4. IsFiniteSet(places) /\ n \notin places
  <2>1. IsFiniteSet(1..(n - 1))
    BY FS_Interval
  <2>2. places \in SUBSET (1..(n - 1)) /\ n \notin 1..(n - 1)
    OBVIOUS
  <2>3. IsFiniteSet(places)
    BY <2>1, <2>2, FS_Subset
  <2> QED BY <2>2, <2>3
<1>5. Cardinality(places \cup {n}) = Len(list) + 1
  BY <1>1, <1>4, FS_AddElement
<1>6. \A j \in places : j \in 1..(n - 1)
  OBVIOUS
<1>7. n <= n /\ \A j \in 1..(n - 1) : j <= n /\ ~(n <= j)
  OBVIOUS
<1>8. UpToAll(n) = places \cup {n}
  BY <1>6, <1>7
<1> HIDE DEF longer
<1>9. ASSUME NEW i \in places
      PROVE  longer[Cardinality(UpToAll(i))] = entries[i]
  <2>1. UpToAll(i) = UpTo(i) /\ UpTo(i) \in SUBSET places
    BY <1>6, <1>7
  <2>2. i \in UpTo(i)
    BY <1>6
  <2> HIDE DEF UpTo, UpToAll
  <2>3. IsFiniteSet(UpTo(i)) /\ Cardinality(UpTo(i)) <= Len(list)
    BY <1>1, <1>4, <2>1, FS_Subset
  <2>4. Cardinality(UpTo(i)) \in Nat /\ Cardinality(UpTo(i)) # 0
    BY <2>2, <2>3, FS_CardinalityType, FS_EmptySet
  <2>5. Cardinality(UpTo(i)) \in 1..Len(list)
    BY <1>2, <2>3, <2>4
  <2> QED BY <1>1, <1>2, <2>1, <2>5
<1> HIDE DEF UpToAll, UpTo
<1>10. \A i \in places \cup {n} : longer[Cardinality(UpToAll(i))] = entries[i]
  BY <1>3, <1>5, <1>8, <1>9
<1> QED BY <1>2, <1>5, <1>10, SameCardinality DEF Metadata!IsListOf, UpToAll, longer

MetadataType ==
  [description : Metadata!Value \cup {None}, long : Metadata!Value \cup {None},
   image : Metadata!Entry \cup {None}, metadata : Seq(Metadata!Entry)]

ValueOfLast(value, entries, places) ==
  (places = {} => value = None) /\ \A i : IsLast(i, places) => value = entries[i].value

EntryOfLast(entry, entries, places) ==
  (places = {} => entry = None) /\ \A i : IsLast(i, places) => entry = entries[i]

Means(found, entries, n) ==
  /\ found \in MetadataType
  /\ ValueOfLast(found.description, entries, Places(entries, n, PlainKeys))
  /\ ValueOfLast(found.long, entries, Places(entries, n, LongKeys))
  /\ EntryOfLast(found.image, entries, Places(entries, n, ImageKeys))
  /\ Metadata!IsListOf(found.metadata, entries, Places(entries, n, OtherKeys))

\* What is to be said of what was found in the first n entries.
IsFoundIn(found, entries, n) ==
  IF IsFine(entries, n) THEN Means(found, entries, n) ELSE found = Metadata!Rejected

LEMMA FoundInNothing ==
  ASSUME NEW entries
  PROVE  IsFoundIn(Metadata!Nothing, entries, 0)
<1>1. \A keys : Places(entries, 0, keys) = {}
  BY DEF Places
<1>2. << >> \in Seq(Metadata!Entry) /\ Len(<< >>) = 0
  OBVIOUS
<1>3. /\ Metadata!Nothing \in MetadataType
      /\ Metadata!Nothing.description = None /\ Metadata!Nothing.long = None
      /\ Metadata!Nothing.image = None /\ Metadata!Nothing.metadata = << >>
  BY <1>2 DEF Metadata!Nothing, MetadataType
<1>4. Metadata!IsListOf(<< >>, entries, {})
  BY <1>2, SameCardinality, FS_EmptySet DEF Metadata!IsListOf
<1>5. \A i : ~IsLast(i, {})
  BY DEF IsLast
<1>6. Means(Metadata!Nothing, entries, 0)
  BY <1>1, <1>3, <1>4, <1>5 DEF Means, ValueOfLast, EntryOfLast
<1>7. IsFine(entries, 0)
  BY <1>1 DEF IsFine
<1> QED BY <1>6, <1>7 DEF IsFoundIn

LEMMA RejectedIsNothingFound ==
  ASSUME NEW found \in MetadataType
  PROVE  found # Metadata!Rejected
<1>1. Metadata!Rejected.description = "rejected"
  BY DEF Metadata!Rejected, Metadata!Nothing
<1>2. found.description # "rejected"
  BY NoneAssumption DEF MetadataType, Metadata!Value
<1> QED BY <1>1, <1>2

\* The one place there is of a kind is the last.
LEMMA OneIsLast ==
  ASSUME NEW entries, NEW n \in Nat, NEW keys, NEW i \in Places(entries, n, keys),
         \A j, k \in Places(entries, n, keys) : j = k
  PROVE  IsLast(i, Places(entries, n, keys))
<1>1. i \in Nat
  BY DEF Places
<1>2. i <= i
  BY <1>1
<1> QED BY <1>2 DEF IsLast

\* There is a description, or an image, when something was found at its places.
LEMMA FoundIsThere ==
  ASSUME NEW entries, NEW n \in Nat, NEW found, Means(found, entries, n), IsFine(entries, n),
         \A i \in 1..n : entries[i] \in Metadata!Entry
  PROVE  /\ found.description = None <=> Places(entries, n, PlainKeys) = {}
         /\ found.image = None <=> Places(entries, n, ImageKeys) = {}
<1>1. ASSUME NEW i \in Places(entries, n, PlainKeys) PROVE found.description # None
  <2>1. IsLast(i, Places(entries, n, PlainKeys))
    BY OneIsLast DEF IsFine
  <2>2. found.description = entries[i].value
    BY <2>1 DEF Means, ValueOfLast
  <2>3. i \in 1..n /\ entries[i] \in Metadata!Entry /\ entries[i].key # None
    BY DEF Places, IsFine
  <2>4. entries[i].value \in Metadata!Value
    BY <2>3 DEF Metadata!Entry
  <2> QED BY <2>2, <2>4, NoneAssumption
<1>2. ASSUME NEW i \in Places(entries, n, ImageKeys) PROVE found.image # None
  <2>1. IsLast(i, Places(entries, n, ImageKeys))
    BY OneIsLast DEF IsFine
  <2>2. found.image = entries[i]
    BY <2>1 DEF Means, EntryOfLast
  <2>3. entries[i] \in Metadata!Entry
    BY DEF Places
  <2> QED BY <2>2, <2>3, NoneAssumption
<1>3. /\ Places(entries, n, PlainKeys) = {} => found.description = None
      /\ Places(entries, n, ImageKeys) = {} => found.image = None
  BY DEF Means, ValueOfLast, EntryOfLast
<1> QED BY <1>1, <1>2, <1>3

\* A new last place has a new value; other kinds keep theirs.
LEMMA LastValueOneMore ==
  ASSUME NEW entries, NEW n \in Nat \ {0}, NEW keys
  PROVE  /\ entries[n].key \in keys =>
              /\ ValueOfLast(entries[n].value, entries, Places(entries, n, keys))
              /\ EntryOfLast(entries[n], entries, Places(entries, n, keys))
         /\ entries[n].key \notin keys =>
              Places(entries, n, keys) = Places(entries, n - 1, keys)
<1> DEFINE Old == Places(entries, n - 1, keys)
           New == Places(entries, n, keys)
<1>1. /\ entries[n].key \in keys => New = Old \cup {n}
      /\ entries[n].key \notin keys => New = Old
      /\ Old \subseteq 1..(n - 1)
  BY PlacesOneMore
<1> HIDE DEF Old, New
<1>2. \A i : IsLast(i, Old \cup {n}) <=> i = n
  BY <1>1, LastOneMore
<1>3. CASE entries[n].key \in keys
  <2>1. New = Old \cup {n} /\ New # {}
    BY <1>1, <1>3
  <2>2. /\ ValueOfLast(entries[n].value, entries, New)
        /\ EntryOfLast(entries[n], entries, New)
    BY <1>2, <2>1 DEF ValueOfLast, EntryOfLast
  <2> QED BY <1>3, <2>2 DEF New
<1>4. CASE entries[n].key \notin keys
  BY <1>1, <1>4 DEF New, Old
<1> QED BY <1>3, <1>4

LEMMA FindsOneMore ==
  ASSUME NEW entries, NEW n \in Nat \ {0}, NEW found, IsFoundIn(found, entries, n - 1),
         \A i \in 1..n : entries[i] \in Metadata!Entry
  PROVE  IsFoundIn(Metadata!Read(found, entries[n]), entries, n)
<1> DEFINE e == entries[n]
           y == Metadata!Read(found, e)
           Old(keys) == Places(entries, n - 1, keys)
           New(keys) == Places(entries, n, keys)
<1>0. e \in Metadata!Entry /\ n - 1 \in Nat /\ \A i \in 1..(n - 1) : entries[i] \in Metadata!Entry
  OBVIOUS
<1>1. IsFine(entries, n) <=> IsFine(entries, n - 1) /\ Fits(entries, n)
  BY FineOneMore
<1>2. CASE ~IsFine(entries, n - 1)
  <2>1. found = Metadata!Rejected
    BY <1>2 DEF IsFoundIn
  <2>2. y = Metadata!Rejected
    BY <2>1 DEF Metadata!Read
  <2> QED BY <1>1, <1>2, <2>2 DEF IsFoundIn
<1>3. CASE IsFine(entries, n - 1)
  <2>1. Means(found, entries, n - 1)
    BY <1>3 DEF IsFoundIn
  <2>2. found \in MetadataType /\ found # Metadata!Rejected
    BY <2>1, RejectedIsNothingFound DEF Means
  <2>3. /\ found.description \in Metadata!Value \cup {None}
        /\ found.long \in Metadata!Value \cup {None}
        /\ found.image \in Metadata!Entry \cup {None} /\ found.metadata \in Seq(Metadata!Entry)
        /\ found = [description |-> found.description, long |-> found.long,
                    image |-> found.image, metadata |-> found.metadata]
    BY <2>2 DEF MetadataType
  <2>4. /\ found.description = None <=> Old(PlainKeys) = {}
        /\ found.image = None <=> Old(ImageKeys) = {}
    BY <1>0, <1>3, <2>1, FoundIsThere
  <2>5. /\ ValueOfLast(found.description, entries, Old(PlainKeys))
        /\ ValueOfLast(found.long, entries, Old(LongKeys))
        /\ EntryOfLast(found.image, entries, Old(ImageKeys))
        /\ Metadata!IsListOf(found.metadata, entries, Old(OtherKeys))
    BY <2>1 DEF Means
  <2>6. SUFFICES IF Fits(entries, n) THEN Means(y, entries, n) ELSE y = Metadata!Rejected
    BY <1>1, <1>3 DEF IsFoundIn
  <2>7. \A keys : /\ e.key \in keys => /\ ValueOfLast(e.value, entries, New(keys))
                                        /\ EntryOfLast(e, entries, New(keys))
                  /\ e.key \notin keys => New(keys) = Old(keys)
    BY LastValueOneMore
  <2>8. e.key # None => e.key \in Metadata!Key /\ e.value \in Metadata!Value
    BY <1>0 DEF Metadata!Entry
  <2>9. None \notin Metadata!Key
    BY NoneAssumption
  <2>10. Fits(entries, n) <=>
           /\ e.key # None
           /\ e.key \in PlainKeys => Old(PlainKeys) = {} /\ e.value # "empty"
           /\ e.key \in LongKeys => e.value # "empty"
           /\ e.key \in ImageKeys => Old(ImageKeys) = {} /\ Metadata!IsBase64(e.value)
    BY DEF Fits
  <2>11. New(OtherKeys) = IF e.key \in OtherKeys THEN Old(OtherKeys) \cup {n} ELSE Old(OtherKeys)
    BY PlacesOneMore
  <2>12. Old(OtherKeys) \subseteq 1..(n - 1)
    BY PlacesOneMore
  <2>13. Means(y, entries, n) <=>
           /\ y \in MetadataType
           /\ ValueOfLast(y.description, entries, New(PlainKeys))
           /\ ValueOfLast(y.long, entries, New(LongKeys))
           /\ EntryOfLast(y.image, entries, New(ImageKeys))
           /\ Metadata!IsListOf(y.metadata, entries, New(OtherKeys))
    BY DEF Means
  <2> HIDE DEF y, Old, New
  <2>14. CASE e.key = None
    <3>1. y = Metadata!Rejected
      BY <2>2, <2>9, <2>14 DEF y, Metadata!Read, Metadata!Key, Metadata!IsLong, Metadata!IsImage
    <3> QED BY <2>10, <2>14, <3>1
  <2>15. CASE e.key = "text/plain"
    <3>1. e.key \in PlainKeys /\ e.key \notin LongKeys /\ e.key \notin ImageKeys
          /\ e.key \notin OtherKeys /\ e.key # None
      BY <2>9, <2>15 DEF PlainKeys, LongKeys, ImageKeys, OtherKeys, Metadata!Key
    <3>2. y = IF e.value = "empty" \/ found.description # None THEN Metadata!Rejected
              ELSE [found EXCEPT !.description = e.value]
      BY <2>2, <2>15, <3>1
      DEF y, Metadata!Read, Metadata!Plain, Metadata!IsLong, Metadata!IsImage
    <3>3. CASE Fits(entries, n)
      <4>1. y = [description |-> e.value, long |-> found.long,
                 image |-> found.image, metadata |-> found.metadata]
        BY <2>3, <2>4, <2>10, <3>1, <3>2, <3>3
      <4>2. y \in MetadataType
        BY <2>3, <2>8, <3>1, <4>1 DEF MetadataType
      <4>3. /\ y.description = e.value /\ y.long = found.long
            /\ y.image = found.image /\ y.metadata = found.metadata
        BY <4>1
      <4> QED BY <2>5, <2>7, <2>13, <3>1, <3>3, <4>2, <4>3
    <3>4. CASE ~Fits(entries, n)
      BY <2>4, <2>10, <3>1, <3>2, <3>4
    <3> QED BY <3>3, <3>4
  <2>16. CASE e.key \in LongKeys
    <3>1. e.key \notin PlainKeys /\ e.key \notin ImageKeys
          /\ e.key \notin OtherKeys /\ e.key # None
      BY <2>9, <2>16 DEF PlainKeys, LongKeys, ImageKeys, OtherKeys, Metadata!Key
    <3>2. y = IF e.value = "empty" THEN Metadata!Rejected ELSE [found EXCEPT !.long = e.value]
      BY <2>2, <2>16, <3>1 DEF y, LongKeys, PlainKeys, ImageKeys,
         Metadata!Read, Metadata!LongDescription, Metadata!IsLong, Metadata!IsImage
    <3>3. CASE Fits(entries, n)
      <4>1. y = [description |-> found.description, long |-> e.value,
                 image |-> found.image, metadata |-> found.metadata]
        BY <2>3, <2>10, <2>16, <3>2, <3>3
      <4>2. y \in MetadataType
        BY <2>3, <2>8, <3>1, <4>1 DEF MetadataType
      <4>3. /\ y.description = found.description /\ y.long = e.value
            /\ y.image = found.image /\ y.metadata = found.metadata
        BY <4>1
      <4> QED BY <2>5, <2>7, <2>13, <2>16, <3>1, <3>3, <4>2, <4>3
    <3>4. CASE ~Fits(entries, n)
      BY <2>10, <2>16, <3>1, <3>2, <3>4
    <3> QED BY <3>3, <3>4
  <2>17. CASE e.key \in ImageKeys
    <3>1. e.key \notin PlainKeys /\ e.key \notin LongKeys
          /\ e.key \notin OtherKeys /\ e.key # None
      BY <2>9, <2>17 DEF PlainKeys, LongKeys, ImageKeys, OtherKeys, Metadata!Key
    <3>2. y = IF ~Metadata!IsBase64(e.value) \/ found.image # None THEN Metadata!Rejected
              ELSE [found EXCEPT !.image = e]
      BY <2>2, <2>17, <3>1 DEF y, LongKeys, PlainKeys, ImageKeys,
         Metadata!Read, Metadata!Image, Metadata!IsLong, Metadata!IsImage
    <3>3. CASE Fits(entries, n)
      <4>1. y = [description |-> found.description, long |-> found.long,
                 image |-> e, metadata |-> found.metadata]
        BY <2>3, <2>4, <2>10, <2>17, <3>2, <3>3
      <4>2. y \in MetadataType
        BY <1>0, <2>3, <4>1 DEF MetadataType
      <4>3. /\ y.description = found.description /\ y.long = found.long
            /\ y.image = e /\ y.metadata = found.metadata
        BY <4>1
      <4> QED BY <2>5, <2>7, <2>13, <2>17, <3>1, <3>3, <4>2, <4>3
    <3>4. CASE ~Fits(entries, n)
      BY <2>4, <2>10, <2>17, <3>1, <3>2, <3>4
    <3> QED BY <3>3, <3>4
  <2>18. CASE e.key = "other"
    <3>1. e.key \notin PlainKeys /\ e.key \notin LongKeys /\ e.key \notin ImageKeys
          /\ e.key \in OtherKeys /\ e.key # None
      BY <2>9, <2>18 DEF PlainKeys, LongKeys, ImageKeys, OtherKeys, Metadata!Key
    <3>2. y = [found EXCEPT !.metadata = Append(@, e)]
      BY <2>2, <2>18, <3>1
      DEF y, Metadata!Read, Metadata!Other, Metadata!IsLong, Metadata!IsImage
    <3>3. y = [description |-> found.description, long |-> found.long,
               image |-> found.image, metadata |-> Append(found.metadata, e)]
      BY <2>3, <3>2
    <3>4. Append(found.metadata, e) \in Seq(Metadata!Entry)
      BY <1>0, <2>3, AppendProperties
    <3>5. y \in MetadataType
      BY <2>3, <3>3, <3>4 DEF MetadataType
    <3>6. /\ y.description = found.description /\ y.long = found.long
          /\ y.image = found.image /\ y.metadata = Append(found.metadata, e)
      BY <3>3
    <3>7. Metadata!IsListOf(Append(found.metadata, e), entries, Old(OtherKeys) \cup {n})
      BY <1>0, <2>3, <2>5, <2>12, ListOneMore
    <3>8. Means(y, entries, n)
      BY <2>5, <2>7, <2>11, <2>13, <3>1, <3>5, <3>6, <3>7
    <3>9. Fits(entries, n)
      BY <2>10, <3>1
    <3> QED BY <3>8, <3>9
  <2> QED BY <2>8, <2>14, <2>15, <2>16, <2>17, <2>18 DEF Metadata!Key, LongKeys, ImageKeys
<1> QED BY <1>2, <1>3

LEMMA FindsAll ==
  ASSUME NEW entries \in Seq(Metadata!Entry), NEW f,
         Folds(f, SUBSET (1..Len(entries)), "metadata", Metadata!Nothing, entries)
  PROVE  IsFoundIn(f[1..Len(entries)], entries, Len(entries))
<1> DEFINE N == Len(entries)
           Bad == {n \in 0..N : ~IsFoundIn(f[1..n], entries, n)}
<1>0. N \in Nat /\ \A i \in 1..N : entries[i] \in Metadata!Entry
  BY LenProperties, ElementOfSeq
<1>1. /\ f[1..0] = Metadata!Nothing
      /\ \A i \in 1..N : f[1..i] = Metadata!Read(f[1..(i - 1)], entries[i])
  <2>1. OneByOne(f, N, "metadata", Metadata!Nothing, entries)
    BY <1>0, FoldsOneByOne
  <2> QED BY <2>1 DEF OneByOne, Step
<1>2. SUFFICES ASSUME Bad # {} PROVE FALSE
  <2>1. N \in 0..N
    BY <1>0
  <2> QED BY <1>2, <2>1
<1>3. PICK n \in Bad : \A m \in Bad : n <= m
  <2>1. Bad \subseteq Nat
    BY <1>0
  <2> HIDE DEF Bad
  <2> QED BY <1>2, <2>1, LeastNumber
<1>4. n # 0
  BY <1>1, <1>3, FoundInNothing
<1>5. n \in 1..N /\ n - 1 \in 0..N /\ ~ (n <= n - 1) /\ n \in Nat \ {0}
      /\ \A i \in 1..n : i \in 1..N
  BY <1>0, <1>3, <1>4
<1>6. IsFoundIn(f[1..(n - 1)], entries, n - 1)
  BY <1>3, <1>5
<1>7. IsFoundIn(f[1..n], entries, n)
  BY <1>0, <1>1, <1>5, <1>6, FindsOneMore
<1> QED BY <1>3, <1>7

LEMMA LastOfIsLast ==
  ASSUME NEW n \in Nat, NEW places, places \subseteq 1..n, places # {}
  PROVE  IsLast(Metadata!LastOf(places), places)
<1>1. Greatest(places) \in places /\ \A j \in places : Greatest(places) >= j
  BY GreatestOf
<1>2. \A j \in places : j \in 1..n
  OBVIOUS
<1>3. \A j \in 1..n, k \in 1..n : j >= k => k <= j
  OBVIOUS
<1>4. \A j \in places : j <= Greatest(places)
  BY <1>1, <1>2, <1>3
<1> QED BY <1>1, <1>4, Zenon DEF IsLast, Metadata!LastOf

\* Acceptable is what is fine to its end and has a description.
LEMMA AcceptableIsFine ==
  ASSUME NEW entries \in Seq(Metadata!Entry)
  PROVE  Metadata!Acceptable(entries) <=>
           /\ IsFine(entries, Len(entries))
           /\ Places(entries, Len(entries), PlainKeys) # {}
<1> DEFINE N == Len(entries)
           Plain == Places(entries, N, PlainKeys)
           Long == Places(entries, N, LongKeys)
           Image == Places(entries, N, ImageKeys)
<1>1. N \in Nat /\ DOMAIN entries = 1..N
  BY LenProperties
<1>2. /\ Metadata!With(entries, Metadata!IsPlain) = Plain
      /\ Metadata!With(entries, Metadata!IsLong) = Long
      /\ Metadata!With(entries, Metadata!IsImage) = Image
  BY <1>1 DEF Metadata!With, Metadata!IsPlain, Metadata!IsLong, Metadata!IsImage,
     Places, PlainKeys, LongKeys, ImageKeys
<1>3. IsFiniteSet(Plain) /\ IsFiniteSet(Image)
  <2>1. IsFiniteSet(1..N)
    BY <1>1, FS_Interval
  <2>2. Plain \in SUBSET (1..N) /\ Image \in SUBSET (1..N)
    BY DEF Places
  <2> QED BY <2>1, <2>2, FS_Subset
<1>4. \A S : IsFiniteSet(S) =>
        (Cardinality(S) = 1 <=> S # {} /\ \A i, j \in S : i = j)
  <2> SUFFICES ASSUME NEW S, IsFiniteSet(S)
               PROVE  Cardinality(S) = 1 <=> S # {} /\ \A i, j \in S : i = j
    OBVIOUS
  <2>1. Cardinality(S) = 1 <=> \E x : S = {x}
    BY FS_Singleton
  <2>2. (\E x : S = {x}) <=> S # {} /\ \A i, j \in S : i = j
    <3>1. ASSUME S # {}, \A i, j \in S : i = j PROVE \E x : S = {x}
      <4>1. PICK x : x \in S
        BY <3>1
      <4>2. S = {x}
        BY <3>1, <4>1
      <4> QED BY <4>2
    <3> QED BY <3>1
  <2> QED BY <2>1, <2>2
<1>5. \A S : IsFiniteSet(S) => (Cardinality(S) <= 1 <=> \A i, j \in S : i = j)
  <2> SUFFICES ASSUME NEW S, IsFiniteSet(S)
               PROVE  Cardinality(S) <= 1 <=> \A i, j \in S : i = j
    OBVIOUS
  <2>1. Cardinality(S) \in Nat /\ (Cardinality(S) = 0 <=> S = {})
    BY FS_CardinalityType, FS_EmptySet
  <2>2. Cardinality(S) <= 1 <=> Cardinality(S) = 0 \/ Cardinality(S) = 1
    BY <2>1
  <2>3. Cardinality(S) = 1 <=> S # {} /\ \A i, j \in S : i = j
    BY <1>4
  <2>4. S = {} => \A i, j \in S : i = j
    OBVIOUS
  <2> QED BY <2>1, <2>2, <2>3, <2>4, Zenon
<1>6. /\ Cardinality(Plain) = 1 <=> Plain # {} /\ \A i, j \in Plain : i = j
      /\ Cardinality(Image) <= 1 <=> \A i, j \in Image : i = j
  BY <1>3, <1>4, <1>5
<1>7. Metadata!Acceptable(entries) <=>
        /\ \A i \in 1..N : entries[i].key # None
        /\ Cardinality(Plain) = 1
        /\ Cardinality(Image) <= 1
        /\ \A i \in Plain \cup Long : entries[i].value # "empty"
        /\ \A i \in Image : Metadata!IsBase64(entries[i].value)
  BY <1>1, <1>2, SameCardinality DEF Metadata!Acceptable
<1>8. IsFine(entries, N) <=>
        /\ \A i \in 1..N : entries[i].key # None
        /\ \A i, j \in Plain : i = j
        /\ \A i, j \in Image : i = j
        /\ \A i \in Plain \cup Long : entries[i].value # "empty"
        /\ \A i \in Image : Metadata!IsBase64(entries[i].value)
  BY DEF IsFine
<1> HIDE DEF Plain, Long, Image
<1>9. Metadata!Acceptable(entries) <=> IsFine(entries, N) /\ Plain # {}
  BY <1>6, <1>7, <1>8, Zenon
<1> QED BY <1>9 DEF Plain

LEMMA MetadataIsRead ==
  ASSUME NEW n \in Nat, NEW entries \in [1..n -> Metadata!Entry]
  PROVE  IF Metadata!Acceptable(entries)
         THEN Metadata!IsMeaning(Metadata!Parse(entries), entries)
         ELSE Metadata!Parse(entries) = Metadata!Rejected
<1> DEFINE N == Len(entries)
           found == Metadata!FoldLeft(Metadata!Read, Metadata!Nothing, entries)
           Plain == Places(entries, N, PlainKeys)
           Long == Places(entries, N, LongKeys)
           Image == Places(entries, N, ImageKeys)
<1>1. entries \in Seq(Metadata!Entry)
  OBVIOUS
<1>2. N \in Nat /\ DOMAIN entries = 1..N /\ \A i \in 1..N : entries[i] \in Metadata!Entry
  BY <1>1, LenProperties, ElementOfSeq
<1>3. IsFoundIn(found, entries, N)
  <2>1. PICK f : /\ Folds(f, SUBSET (1..N), "metadata", Metadata!Nothing, entries)
                 /\ found = f[1..N]
    BY <1>1, FoldOfMetadata
  <2> QED BY <1>1, <2>1, FindsAll
<1>4. Metadata!Parse(entries) = IF found.description = None THEN Metadata!Rejected ELSE found
  BY DEF Metadata!Parse
<1>5. Metadata!Acceptable(entries) <=> IsFine(entries, N) /\ Plain # {}
  BY <1>1, AcceptableIsFine
<1> HIDE DEF found
<1>6. CASE ~IsFine(entries, N)
  <2>1. found = Metadata!Rejected
    BY <1>3, <1>6 DEF IsFoundIn
  <2> QED BY <1>4, <1>5, <1>6, <2>1
<1>7. CASE IsFine(entries, N)
  <2>1. Means(found, entries, N)
    BY <1>3, <1>7 DEF IsFoundIn
  <2>2. found.description = None <=> Plain = {}
    BY <1>2, <1>7, <2>1, FoundIsThere
  <2>3. CASE Plain = {}
    BY <1>4, <1>5, <2>2, <2>3
  <2>4. CASE Plain # {}
    <3>1. Metadata!Acceptable(entries) /\ Metadata!Parse(entries) = found
      BY <1>4, <1>5, <1>7, <2>2, <2>4
    <3>2. /\ Metadata!With(entries, Metadata!IsPlain) = Plain
          /\ Metadata!With(entries, Metadata!IsLong) = Long
          /\ Metadata!With(entries, Metadata!IsImage) = Image
          /\ Metadata!With(entries, Metadata!IsOther) = Places(entries, N, OtherKeys)
      BY <1>2 DEF Metadata!With, Metadata!IsPlain, Metadata!IsLong, Metadata!IsImage,
         Metadata!IsOther, Places, PlainKeys, LongKeys, ImageKeys, OtherKeys
    <3>3. /\ ValueOfLast(found.description, entries, Plain)
          /\ ValueOfLast(found.long, entries, Long)
          /\ EntryOfLast(found.image, entries, Image)
          /\ Metadata!IsListOf(found.metadata, entries, Places(entries, N, OtherKeys))
      BY <2>1 DEF Means
    <3>4. Plain \subseteq 1..N /\ Long \subseteq 1..N /\ Image \subseteq 1..N
      BY DEF Places
    <3> HIDE DEF Plain, Long, Image
    <3>5. found.description = entries[Metadata!LastOf(Plain)].value
      <4>1. IsLast(Metadata!LastOf(Plain), Plain)
        BY <1>2, <2>4, <3>4, LastOfIsLast
      <4> QED BY <3>3, <4>1 DEF ValueOfLast
    <3>6. found.long = IF Long = {} THEN None ELSE entries[Metadata!LastOf(Long)].value
      <4>1. Long # {} => IsLast(Metadata!LastOf(Long), Long)
        BY <1>2, <3>4, LastOfIsLast
      <4> QED BY <3>3, <4>1 DEF ValueOfLast
    <3>7. found.image = IF Image = {} THEN None ELSE entries[Metadata!LastOf(Image)]
      <4>1. Image # {} => IsLast(Metadata!LastOf(Image), Image)
        BY <1>2, <3>4, LastOfIsLast
      <4> QED BY <3>3, <4>1 DEF EntryOfLast
    <3>8. Metadata!IsMeaning(found, entries)
      BY <3>2, <3>3, <3>5, <3>6, <3>7 DEF Metadata!IsMeaning
    <3> QED BY <3>1, <3>8
  <2> QED BY <2>3, <2>4
<1> QED BY <1>6, <1>7

-----------------------------------------------------------------------------
(* The calls.                                                              *)

\* A URI that was parsed is one of those that there are, and came out of its parser.
UriInv ==
  called = "parse uri" => input \in Uri!Uri(MaxParams) /\ output \in {None, Uri!Parse(input)}

LEMMA UriInvariant == Spec => []UriInv
<1>1. Init => UriInv
  BY DEF Init, Call, UriInv
<1>2. UriInv /\ [Next]_vars => UriInv'
  <2> SUFFICES ASSUME UriInv, [Next]_vars PROVE UriInv'
    OBVIOUS
  <2>1. CASE ParseUri
    BY <2>1 DEF ParseUri, Return, UriInv
  <2>2. CASE \/ Decode \/ ParseRequest \/ TryFromParts \/ Fmt
    <3>1. called' # "parse uri"
      BY <2>2 DEF Decode, ParseRequest, TryFromParts, Fmt, Return
    <3> QED BY <3>1 DEF UriInv
  <2>3. CASE UNCHANGED vars
    BY <2>3 DEF vars, UriInv
  <2> QED BY <2>1, <2>2, <2>3 DEF Next
<1> QED BY <1>1, <1>2, PTL DEF Spec

\* A URI with any number of parameters, of either form, is shown whole or refused: none
\* is lost but the values that Liquid replaces, and no amount that is none gets through
\* (decoder.rs:204-254, liquid_address.rs:75-135).
THEOREM UrisAreShownWhole == Spec => []ShowsTheWholeUri
<1>1. UriInv => ShowsTheWholeUri
  <2> SUFFICES ASSUME UriInv, called = "parse uri", output # None
               PROVE  IsWhole(input, output)
    BY DEF ShowsTheWholeUri, Returned, IsWhole
  <2>1. input \in Uri!Uri(MaxParams) /\ output = Uri!Parse(input)
    BY DEF UriInv
  <2> QED BY <2>1, UrisAreWhole
<1> QED BY <1>1, UriInvariant, PTL

\* The same of the metadata.
MetadataInv ==
  called = "try_from_parts" =>
    /\ \E n \in 0..MaxEntries : input \in [1..n -> Metadata!Entry]
    /\ output \in {None, Metadata!Parse(input)}

LEMMA MetadataInvariant == Spec => []MetadataInv
<1>1. Init => MetadataInv
  BY DEF Init, Call, MetadataInv
<1>2. MetadataInv /\ [Next]_vars => MetadataInv'
  <2> SUFFICES ASSUME MetadataInv, [Next]_vars PROVE MetadataInv'
    OBVIOUS
  <2>1. CASE TryFromParts
    BY <2>1 DEF TryFromParts, Return, MetadataInv
  <2>2. CASE \/ Decode \/ ParseUri \/ ParseRequest \/ Fmt
    <3>1. called' # "try_from_parts"
      BY <2>2 DEF Decode, ParseUri, ParseRequest, Fmt, Return
    <3> QED BY <3>1 DEF MetadataInv
  <2>3. CASE UNCHANGED vars
    BY <2>3 DEF vars, MetadataInv
  <2> QED BY <2>1, <2>2, <2>3 DEF Next
<1> QED BY <1>1, <1>2, PTL DEF Spec

\* Metadata with any number of entries is accepted exactly when the whole of it is
\* acceptable, and what is kept of it is what it means (lnurl.rs:183-250).
THEOREM MetadataIsReadForWhatItMeans == Spec => []ReadsTheMetadata
<1>1. MetadataInv => ReadsTheMetadata
  <2> SUFFICES ASSUME MetadataInv, called = "try_from_parts", output # None
               PROVE  IF Metadata!Acceptable(input) THEN Metadata!IsMeaning(output, input)
                      ELSE output = Metadata!Rejected
    BY DEF ReadsTheMetadata, Returned
  <2>1. PICK n \in 0..MaxEntries : input \in [1..n -> Metadata!Entry]
    BY DEF MetadataInv
  <2>2. n \in Nat
    BY <2>1, ConstantsAssumption
  <2>3. output = Metadata!Parse(input)
    BY DEF MetadataInv
  <2> QED BY <2>1, <2>2, <2>3, MetadataIsRead
<1> QED BY <1>1, MetadataInvariant, PTL

-----------------------------------------------------------------------------
(* Texts.                                                                  *)

LEMMA LowercasedInput ==
  ASSUME NEW i \in Text!Input
  PROVE  /\ Text!Lowercased(i).scheme = i.scheme /\ Text!Lowercased(i).start = i.start
         /\ Text!Lowercased(i).upper = FALSE
         /\ i.start # "name" => Text!Lowercased(i).valid = i.small
         /\ i.start = "name" => Text!Lowercased(i).address = i.address
         /\ Text!Lowercased(Text!Lowercased(i)) = Text!Lowercased(i)
<1>1. CASE i.start # "name"
  BY <1>1 DEF Text!Lowercased
<1>2. CASE i.start = "name"
  <2>1. i \in [scheme : Text!Scheme, start : {"name"}, upper : BOOLEAN, hrn : BOOLEAN,
              address : BOOLEAN]
    BY <1>2 DEF Text!Input, Text!Text, Text!Hex, Text!Cashu, Text!Lud17, Text!Address
  <2>2. Text!Lowercased(i) = [i EXCEPT !.upper = FALSE]
    BY <1>2 DEF Text!Lowercased
  <2> DEFINE l == [i EXCEPT !.upper = FALSE]
  <2>3. l.scheme = i.scheme /\ l.start = i.start /\ l.upper = FALSE /\ l.address = i.address
    BY <2>1
  <2>4. [l EXCEPT !.upper = FALSE] = l
    BY <2>1
  <2>5. Text!Lowercased(l) = l
    BY <1>2, <2>3, <2>4 DEF Text!Lowercased
  <2> QED BY <1>2, <2>2, <2>3, <2>5
<1> QED BY <1>1, <1>2

\* What is read in small letters anyhow is what it is in them.
LEMMA DecodesInSmallLetters ==
  ASSUME NEW i \in Text!Input,
         i.scheme = "lightning:" \/ (i.scheme = "" /\ i.start \in Lightning)
  PROVE  Text!Decode(i) = Text!Decode(Text!Lowercased(i))
<1> DEFINE l == Text!Lowercased(i)
<1>1. l.scheme = i.scheme /\ l.start = i.start /\ Text!Lowercased(l) = l
  BY LowercasedInput
<1>2. Text!Lowercased(i) = l
  BY DEF l
<1> HIDE DEF l
<1>3. Text!Decode(i) = Text!DecodeLightning(l)
  BY <1>2
     DEF Text!Decode, Text!DecodeLightningUri, Text!IsInvestigateValue, Text!IsPaymentRequest,
         Text!IsArkAddress, Text!Hex, Text!Cashu, Text!Address, Text!Lud17, Lightning
<1>4. Text!Decode(l) = Text!DecodeLightning(l)
  BY <1>1
     DEF Text!Decode, Text!DecodeLightningUri, Text!IsInvestigateValue, Text!IsPaymentRequest,
         Text!IsArkAddress, Text!Hex, Text!Cashu, Text!Address, Text!Lud17, Lightning
<1> QED BY <1>2, <1>3, <1>4

AddressData(start) ==
  Text!Data(CASE start = "liquid"  -> "LiquidAddress"
              [] start = "onchain" -> "OnchainAddress"
              [] OTHER             -> "SilentPaymentAddress")

\* Capitals are read as small letters, except in hex and names, if the parser does so.
LEMMA DecodesLikeLowercased ==
  ASSUME NEW i \in Text!Input, i.start \notin Text!Hex \cup {"name"}, i.valid = i.small
  PROVE  Text!Decode(i) = Text!Decode(Text!Lowercased(i))
<1> DEFINE l == Text!Lowercased(i)
<1>1. /\ l.scheme = i.scheme /\ l.start = i.start /\ l.valid = i.valid
      /\ Text!Lowercased(l) = l
  BY LowercasedInput
<1>2. ~Text!IsInvestigateValue(i) /\ ~Text!IsInvestigateValue(l)
  BY <1>1 DEF Text!IsInvestigateValue
<1> HIDE DEF l
<1>3. /\ Text!IsPaymentRequest(i) <=> Text!IsPaymentRequest(l)
      /\ Text!IsArkAddress(i) <=> Text!IsArkAddress(l)
      /\ \A kind : Text!Parsed(i, kind) = Text!Parsed(l, kind)
      /\ \A kind : Text!ParsedUri(i, kind) = Text!ParsedUri(l, kind)
  BY <1>1 DEF Text!IsPaymentRequest, Text!IsArkAddress, Text!Parsed, Text!ParsedUri
<1>4. Text!Lowercased(i) = l
  BY DEF l
<1> SUFFICES Text!Decode(i) = Text!Decode(l)
  BY <1>4
<1>5. /\ Text!DecodeLightningUri(i) = Text!DecodeLightning(l)
      /\ Text!DecodeLightningUri(l) = Text!DecodeLightning(l)
  BY <1>1, <1>4 DEF Text!DecodeLightningUri
<1>6. CASE Text!IsPaymentRequest(i)
  <2>1. Text!Decode(i) = Text!Parsed(l, "CashuPaymentRequest")
    BY <1>1, <1>2, <1>3, <1>6
       DEF Text!Decode, Text!IsPaymentRequest, Text!IsArkAddress, Text!Cashu, Text!Address
  <2>2. Text!Decode(l) = Text!Parsed(l, "CashuPaymentRequest")
    BY <1>1, <1>2, <1>3, <1>6
       DEF Text!Decode, Text!IsPaymentRequest, Text!IsArkAddress, Text!Cashu, Text!Address
  <2> QED BY <2>1, <2>2
<1>7. CASE i.scheme = "lightning:"
  <2>1. Text!Decode(i) = Text!DecodeLightning(l)
    BY <1>1, <1>2, <1>3, <1>5, <1>7 DEF Text!Decode, Text!IsPaymentRequest, Text!IsArkAddress
  <2>2. Text!Decode(l) = Text!DecodeLightning(l)
    BY <1>1, <1>2, <1>3, <1>5, <1>7 DEF Text!Decode, Text!IsPaymentRequest, Text!IsArkAddress
  <2> QED BY <2>1, <2>2
<1>8. CASE i.scheme = "liquidnetwork:"
  <2>1. Text!Decode(i) = Text!ParsedUri(l, "LiquidUri")
    BY <1>1, <1>2, <1>3, <1>5, <1>8 DEF Text!Decode, Text!IsPaymentRequest, Text!IsArkAddress
  <2>2. Text!Decode(l) = Text!ParsedUri(l, "LiquidUri")
    BY <1>1, <1>2, <1>3, <1>5, <1>8 DEF Text!Decode, Text!IsPaymentRequest, Text!IsArkAddress
  <2> QED BY <2>1, <2>2
<1>9. CASE i.scheme = "bitcoin:"
  <2>1. Text!Decode(i) = Text!ParsedUri(l, "Bip21")
    BY <1>1, <1>2, <1>3, <1>5, <1>9 DEF Text!Decode, Text!IsPaymentRequest, Text!IsArkAddress
  <2>2. Text!Decode(l) = Text!ParsedUri(l, "Bip21")
    BY <1>1, <1>2, <1>3, <1>5, <1>9 DEF Text!Decode, Text!IsPaymentRequest, Text!IsArkAddress
  <2> QED BY <2>1, <2>2
<1>10. CASE i.scheme = "bitcoin-sign"
  <2>1. Text!Decode(i) = Text!Refused
    BY <1>1, <1>2, <1>3, <1>5, <1>10 DEF Text!Decode, Text!IsPaymentRequest, Text!IsArkAddress
  <2>2. Text!Decode(l) = Text!Refused
    BY <1>1, <1>2, <1>3, <1>5, <1>10 DEF Text!Decode, Text!IsPaymentRequest, Text!IsArkAddress
  <2> QED BY <2>1, <2>2
<1>11. CASE i.scheme = "" /\ ~Text!IsPaymentRequest(i)
  <2>1. CASE Text!IsArkAddress(i)
    <3>1. Text!Decode(i) = Text!Parsed(l, "ArkAddress")
      BY <1>1, <1>2, <1>3, <1>11, <2>1 DEF Text!Decode, Text!IsArkAddress, Text!Address
    <3>2. Text!Decode(l) = Text!Parsed(l, "ArkAddress")
      BY <1>1, <1>2, <1>3, <1>11, <2>1 DEF Text!Decode, Text!IsArkAddress, Text!Address
    <3> QED BY <3>1, <3>2
  <2>2. CASE i.start \in Text!Address /\ i.valid
    <3>1. Text!Decode(i) = AddressData(l.start)
      BY <1>1, <1>2, <1>3, <1>11, <2>2 DEF Text!Decode, Text!IsArkAddress, Text!Address, AddressData
    <3>2. Text!Decode(l) = AddressData(l.start)
      BY <1>1, <1>2, <1>3, <1>11, <2>2 DEF Text!Decode, Text!IsArkAddress, Text!Address, AddressData
    <3> QED BY <3>1, <3>2
  <2>3. CASE ~Text!IsArkAddress(i) /\ ~(i.start \in Text!Address /\ i.valid)
    <3>1. Text!Decode(i) = Text!DecodeLightning(l)
      BY <1>1, <1>2, <1>3, <1>4, <1>11, <2>3 DEF Text!Decode
    <3>2. Text!Decode(l) = Text!DecodeLightning(l)
      BY <1>1, <1>2, <1>3, <1>4, <1>11, <2>3 DEF Text!Decode
    <3> QED BY <3>1, <3>2
  <2> QED BY <2>1, <2>2, <2>3
<1> QED BY <1>6, <1>7, <1>8, <1>9, <1>10, <1>11 DEF Text!Input, Text!Scheme

\* What `lightning:` is read for is what it is without, except names.
LEMMA SchemeMakesNoDifference ==
  ASSUME NEW i \in Text!Input, i.scheme = "",
         Text!DecodeLightningUri(i) # Text!Refused
  PROVE  \/ Text!Decode(i) = Text!DecodeLightningUri(i)
         \/ i.start = "name"
            /\ Text!Decode(i) =
                 Text!Data(IF i.upper THEN "Bip353" ELSE "Bip353OrLightningAddress")
<1> DEFINE l == Text!Lowercased(i)
<1>1. l.start = i.start /\ l.upper = FALSE /\ i.start \in Text!Text \cup {"name"}
  BY LowercasedInput DEF Text!Input
<1>2. CASE i.start # "name"
  <2>1. i.start \in {"lno", "lnr", "ln", "lnurl"} \cup Text!Lud17
    BY <1>1, <1>2 DEF Text!DecodeLightningUri, Text!DecodeLightning
  <2>2. Text!Decode(i) = Text!DecodeLightning(l)
    BY <1>2, <2>1
      DEF Text!Decode, Text!IsInvestigateValue, Text!IsPaymentRequest, Text!IsArkAddress, Text!Hex,
          Text!Cashu, Text!Address, Text!Lud17
  <2> QED BY <2>2 DEF Text!DecodeLightningUri
<1>3. CASE i.start = "name"
  <2>1. Text!DecodeLightningUri(i) =
          IF Text!IsLightningAddress(l) THEN Text!Data("LightningAddress") ELSE Text!Refused
    <3>1. Text!DecodeLightningUri(i) = Text!DecodeLightning(l)
      BY DEF Text!DecodeLightningUri
    <3> HIDE DEF l
    <3> QED BY <1>1, <1>3, <3>1 DEF Text!DecodeLightning, Text!Lud17
  <2>2. l.address
    BY <2>1 DEF Text!IsLightningAddress
  <2>3. i.address
    BY <1>3, <2>2, LowercasedInput
  <2>4. i.upper \in BOOLEAN
    BY DEF Text!Input
  <2>5. CASE i.hrn
    <3>1. Text!Decode(i) = Text!DecodeName(i)
      BY <1>3, <2>5
      DEF Text!Decode, Text!IsInvestigateValue, Text!IsPaymentRequest, Text!IsArkAddress, Text!Hex,
          Text!Cashu, Text!Address
    <3> QED BY <1>3, <2>3, <2>4, <3>1 DEF Text!DecodeName, Text!IsLightningAddress
  <2>6. CASE ~i.hrn
    <3>1. Text!Decode(i) = Text!DecodeLightning(l)
      BY <1>3, <2>6
      DEF Text!Decode, Text!IsInvestigateValue, Text!IsPaymentRequest, Text!IsArkAddress, Text!Hex,
          Text!Cashu, Text!Address
    <3> QED BY <3>1 DEF Text!DecodeLightningUri
  <2> QED BY <2>5, <2>6
<1> QED BY <1>2, <1>3

\* A text that is decoded is one of the inputs, and comes out as Decode has it.
DecodeInv ==
  called = "decode" => input \in Text!Input /\ output \in {None, Text!Decode(input)}

LEMMA DecodeInvariant == Spec => []DecodeInv
<1>1. Init => DecodeInv
  BY DEF Init, Call, DecodeInv
<1>2. DecodeInv /\ [Next]_vars => DecodeInv'
  <2> SUFFICES ASSUME DecodeInv, [Next]_vars PROVE DecodeInv'
    OBVIOUS
  <2>1. CASE Decode
    BY <2>1 DEF Decode, Return, DecodeInv
  <2>2. CASE \/ ParseUri \/ ParseRequest \/ TryFromParts \/ Fmt
    <3>1. called' # "decode"
      BY <2>2 DEF ParseUri, ParseRequest, TryFromParts, Fmt, Return
    <3> QED BY <3>1 DEF DecodeInv
  <2>3. CASE UNCHANGED vars
    BY <2>3 DEF vars, DecodeInv
  <2> QED BY <2>1, <2>2, <2>3 DEF Next
<1> QED BY <1>1, <1>2, PTL DEF Spec

\* Whatever a text starts with and whatever its parts parse as: in capitals it is what it
\* is in small letters if it is read in these, or if its parser says the same of both,
\* and without `lightning:` what it is with it (decoder.rs:46, 64-68, 89-96).
THEOREM TextsAreReadInAnySpelling == Spec => []SpellingDoesNotMatter
<1>1. DecodeInv => SpellingDoesNotMatter
  BY DecodesInSmallLetters, DecodesLikeLowercased, SchemeMakesNoDifference
     DEF DecodeInv, SpellingDoesNotMatter, Returned
<1> QED BY <1>1, DecodeInvariant, PTL

-----------------------------------------------------------------------------
(* Recursive functions: each ends at once, or is made of what it is for a  *)
(* rest that is smaller.  Such a function exists, so it is what the        *)
(* equation in its definition says.                                        *)

Over(r) ==
  CASE r.of = "digits"  -> Nat
    [] r.of = "lines"   -> Seq({"x", "CR", "LF"})
    [] r.of = "stream"  -> Seq({"x", "CR", "LF", "data: "})
    [] r.of \in {"entries", "parts"} -> Cashu!Bytes

LineFeed(text) == Value!Min({i \in DOMAIN text : text[i] = "LF"})
LineEnd(text)  == LET lf == LineFeed(text) IN
                  IF lf > 1 /\ text[lf - 1] = "CR" THEN lf - 2 ELSE lf - 1

StreamEnd(s)  == Value!Min({i \in DOMAIN s : s[i] \in {"CR", "LF"}})
StreamSkip(s) == LET end == StreamEnd(s) IN
                 IF s[end] = "CR" /\ end < Len(s) /\ s[end + 1] = "LF" THEN 2 ELSE 1

FirstEntry(x) == [kind |-> x[1], value |-> SubSeq(x, 4, 3 + Cashu!LengthOf(x))]

Ends(r, x) ==
  CASE r.of = "digits"  -> x < 10
    [] r.of = "lines"   -> x = <<>> \/ ~Value!Contains(x, "LF")
    [] r.of = "stream"  -> {i \in DOMAIN x : x[i] \in {"CR", "LF"}} = {}
    [] r.of = "entries" -> x = <<>> \/ Cashu!IsCut(x)
    [] r.of = "parts"   -> x = <<>> \/ Len(x) < 1 + x[1]

End(r, x) ==
  CASE r.of = "digits"  -> <<x>>
    [] r.of = "lines"   -> IF x = <<>> THEN <<>> ELSE <<x>>
    [] r.of = "stream"  -> <<>>
    [] r.of = "entries" -> IF x = <<>> THEN <<>> ELSE Cashu!Cut(x)
    [] r.of = "parts"   -> IF x = <<>> THEN <<>> ELSE << <<Base>> >>

Rest(r, x) ==
  CASE r.of = "digits"  -> x \div 10
    [] r.of = "lines"   -> SubSeq(x, LineFeed(x) + 1, Len(x))
    [] r.of = "stream"  -> SubSeq(x, StreamEnd(x) + StreamSkip(x), Len(x))
    [] r.of = "entries" -> SubSeq(x, 3 + Cashu!LengthOf(x) + 1, Len(x))
    [] r.of = "parts"   -> SubSeq(x, 2 + x[1], Len(x))

Joined(r, x, v) ==
  CASE r.of = "digits"  -> Append(v, x % 10)
    [] r.of = "lines"   -> <<SubSeq(x, 1, LineEnd(x))>> \o v
    [] r.of = "stream"  -> <<SubSeq(x, 1, StreamEnd(x) - 1)>> \o v
    [] r.of = "entries" -> <<FirstEntry(x)>> \o v
    [] r.of = "parts"   -> <<SubSeq(x, 2, 1 + x[1])>> \o v

Size(r, x) == IF r.of = "digits" THEN x ELSE Len(x)

Defines(f, r) ==
  f = [x \in Over(r) |-> IF Ends(r, x) THEN End(r, x) ELSE Joined(r, x, f[Rest(r, x)])]

Shrinks(r) ==
  \A x \in Over(r) :
    /\ Size(r, x) \in Nat
    /\ ~Ends(r, x) => Rest(r, x) \in Over(r) /\ Size(r, Rest(r, x)) < Size(r, x)

\* f is what its equation says for what is smaller than m.
Below(f, r, m) ==
  \A x \in Over(r) :
    Size(r, x) < m =>
      f[x] = IF Ends(r, x) THEN End(r, x) ELSE Joined(r, x, f[Rest(r, x)])

LEMMA BelowAny ==
  ASSUME NEW r, Shrinks(r), NEW m \in Nat
  PROVE  \E f : Below(f, r, m)
<1> DEFINE Bad == {k \in Nat : ~\E f : Below(f, r, k)}
<1> SUFFICES ASSUME m \in Bad PROVE FALSE
  OBVIOUS
<1>1. PICK k \in Bad : \A j \in Bad : k <= j
  BY LeastNumber
<1>2. k \in Nat /\ \A f : ~Below(f, r, k)
  BY <1>1
<1>3. k # 0
  <2> SUFFICES ASSUME k = 0 PROVE FALSE
    OBVIOUS
  <2>1. \A x \in Over(r) : ~(Size(r, x) < 0)
    BY DEF Shrinks
  <2>2. Below(<<>>, r, 0)
    BY <2>1 DEF Below
  <2> QED BY <1>2, <2>2
<1>4. PICK f : Below(f, r, k - 1)
  <2>1. k - 1 \in Nat /\ ~(k <= k - 1)
    BY <1>2, <1>3
  <2>2. k - 1 \notin Bad
    BY <1>1, <2>1
  <2> QED BY <2>1, <2>2
<1> DEFINE g == [x \in Over(r) |->
                   IF Ends(r, x) THEN End(r, x) ELSE Joined(r, x, f[Rest(r, x)])]
<1>5. ASSUME NEW x \in Over(r), Size(r, x) < k
      PROVE  g[x] = IF Ends(r, x) THEN End(r, x) ELSE Joined(r, x, g[Rest(r, x)])
  <2>1. CASE Ends(r, x)
    BY <2>1
  <2>2. CASE ~Ends(r, x)
    <3>1. /\ Rest(r, x) \in Over(r) /\ Size(r, x) \in Nat /\ Size(r, Rest(r, x)) \in Nat
          /\ Size(r, Rest(r, x)) < Size(r, x)
      BY <2>2 DEF Shrinks
    <3>2. Size(r, Rest(r, x)) < k - 1
      BY <1>2, <1>5, <3>1
    <3>3. g[Rest(r, x)] = f[Rest(r, x)]
      BY <1>4, <3>1, <3>2 DEF Below
    <3> QED BY <2>2, <3>3
  <2> QED BY <2>1, <2>2
<1>6. Below(g, r, k)
  BY <1>5, Zenon DEF Below
<1> QED BY <1>2, <1>6

LEMMA BelowIsOne ==
  ASSUME NEW r, Shrinks(r), NEW m \in Nat, NEW f, NEW g, Below(f, r, m), Below(g, r, m),
         NEW x \in Over(r), Size(r, x) < m
  PROVE  f[x] = g[x]
<1> DEFINE Bad == {n \in Nat : \E y \in Over(r) : Size(r, y) = n /\ n < m /\ f[y] # g[y]}
<1> SUFFICES ASSUME f[x] # g[x] PROVE FALSE
  OBVIOUS
<1>1. Size(r, x) \in Bad
  BY DEF Shrinks
<1>2. PICK n \in Bad : \A j \in Bad : n <= j
  <2>1. Bad \subseteq Nat /\ Bad # {}
    BY <1>1
  <2> QED BY <2>1, LeastNumber
<1>3. PICK y \in Over(r) : Size(r, y) = n /\ n < m /\ f[y] # g[y]
  BY <1>2
<1>4. /\ f[y] = IF Ends(r, y) THEN End(r, y) ELSE Joined(r, y, f[Rest(r, y)])
      /\ g[y] = IF Ends(r, y) THEN End(r, y) ELSE Joined(r, y, g[Rest(r, y)])
  BY <1>3 DEF Below
<1>5. ~Ends(r, y) /\ f[Rest(r, y)] # g[Rest(r, y)]
  BY <1>3, <1>4
<1>6. Rest(r, y) \in Over(r) /\ Size(r, Rest(r, y)) \in Nat /\ Size(r, Rest(r, y)) < n
  BY <1>3, <1>5 DEF Shrinks
<1>7. n \in Nat
  BY <1>2
<1>8. Size(r, Rest(r, y)) \in Bad
  BY <1>3, <1>5, <1>6, <1>7
<1> QED BY <1>2, <1>6, <1>7, <1>8

LEMMA RecursionExists ==
  ASSUME NEW r, Shrinks(r)
  PROVE  \E f : Defines(f, r)
<1> DEFINE One(m) == CHOOSE f : Below(f, r, m)
           h == [x \in Over(r) |-> One(Size(r, x) + 1)[x]]
           k == [x \in Over(r) |->
                   IF Ends(r, x) THEN End(r, x) ELSE Joined(r, x, h[Rest(r, x)])]
<1>1. \A m \in Nat : Below(One(m), r, m)
  BY BelowAny, Zenon
<1> HIDE DEF One
<1>2. ASSUME NEW x \in Over(r) PROVE h[x] = k[x]
  <2> DEFINE n == Size(r, x) + 1
  <2>1. Size(r, x) \in Nat /\ n \in Nat /\ Size(r, x) < n
    BY DEF Shrinks
  <2>2. Below(One(n), r, n)
    BY <1>1, <2>1
  <2>3. One(n)[x] = IF Ends(r, x) THEN End(r, x) ELSE Joined(r, x, One(n)[Rest(r, x)])
    BY <2>1, <2>2 DEF Below
  <2>4. CASE Ends(r, x)
    BY <2>3, <2>4
  <2>5. CASE ~Ends(r, x)
    <3> DEFINE y == Rest(r, x)
               j == Size(r, y) + 1
    <3>1. y \in Over(r) /\ Size(r, y) \in Nat /\ j \in Nat /\ Size(r, y) < j /\ j < n
      BY <2>1, <2>5 DEF Shrinks
    <3>2. Below(One(j), r, j)
      BY <1>1, <3>1
    <3>3. Below(One(n), r, j)
      <4> SUFFICES ASSUME NEW z \in Over(r), Size(r, z) < j
                   PROVE  One(n)[z] = IF Ends(r, z) THEN End(r, z)
                                      ELSE Joined(r, z, One(n)[Rest(r, z)])
        BY DEF Below
      <4>1. Size(r, z) \in Nat
        BY DEF Shrinks
      <4>2. Size(r, z) < n
        BY <2>1, <3>1, <4>1
      <4> QED BY <2>2, <4>2 DEF Below
    <3>4. One(n)[y] = One(j)[y]
      BY <3>1, <3>2, <3>3, BelowIsOne
    <3>5. h[y] = One(n)[y]
      BY <3>1, <3>4
    <3> QED BY <2>3, <2>5, <3>5
  <2> QED BY <2>4, <2>5
<1>3. h = k
  BY <1>2
<1> QED BY <1>3 DEF Defines

LEMMA DivisionByTen ==
  ASSUME NEW n \in Nat
  PROVE  /\ n \div 10 \in Nat /\ n % 10 \in 0..9 /\ n = 10 * (n \div 10) + (n % 10)
         /\ n >= 10 => n \div 10 < n
<1>1. n \div 10 \in Nat /\ n % 10 \in 0..9
  OBVIOUS
<1>2. n = 10 * (n \div 10) + (n % 10)
  OBVIOUS
<1> QED BY <1>1, <1>2

LEMMA LeastIn ==
  ASSUME NEW n \in Nat, NEW T, T \subseteq 1..n, T # {}
  PROVE  Value!Min(T) \in T /\ \A y \in T : Value!Min(T) <= y
<1>1. T \subseteq Nat
  OBVIOUS
<1>2. \E x \in T : \A y \in T : x <= y
  BY <1>1, LeastNumber
<1> QED BY <1>2 DEF Value!Min

LEMMA DigitsOf ==
  ASSUME NEW n \in Nat
  PROVE  Value!Digits[n] =
           IF n < 10 THEN <<n>> ELSE Append(Value!Digits[n \div 10], n % 10)
<1> DEFINE r == [of |-> "digits"]
           Raw(f) == [x \in Nat |-> IF x < 10 THEN <<x>> ELSE Append(f[x \div 10], x % 10)]
<1>1. \A f : Defines(f, r) <=> f = Raw(f)
  BY DEF Defines, Over, Ends, End, Rest, Joined
<1>2. Shrinks(r)
  BY DivisionByTen DEF Shrinks, Over, Ends, Rest, Size
<1>3. \E f : f = Raw(f)
  BY <1>1, <1>2, RecursionExists
<1>4. Value!Digits = CHOOSE f : f = Raw(f)
  BY DEF Value!Digits
<1>5. Value!Digits = Raw(Value!Digits)
  BY <1>3, <1>4
<1> QED BY <1>5

\* What is left of a sequence without its beginning.
LEMMA LeftOf ==
  ASSUME NEW S, NEW s \in Seq(S), Len(s) # 0, NEW m \in Nat, m >= 2
  PROVE  SubSeq(s, m, Len(s)) \in Seq(S) /\ Len(SubSeq(s, m, Len(s))) < Len(s)
<1>1. Len(s) \in Nat
  BY LenProperties
<1>2. \A i \in m..Len(s) : s[i] \in S
  <2>1. \A i \in m..Len(s) : i \in 1..Len(s)
    BY <1>1
  <2> QED BY <2>1, ElementOfSeq
<1>3. /\ SubSeq(s, m, Len(s)) \in Seq(S)
      /\ Len(SubSeq(s, m, Len(s))) = IF m <= Len(s) THEN Len(s) - m + 1 ELSE 0
  BY <1>1, <1>2, SubSeqProperties
<1> QED BY <1>1, <1>3

LEMMA AfterOne ==
  \A n \in Nat : \A i \in 1..n : \A k \in {1, 2} : n # 0 /\ i + k \in Nat /\ i + k >= 2
OBVIOUS

LEMMA LinesOf ==
  ASSUME NEW text \in Seq({"x", "CR", "LF"})
  PROVE  Value!Lines[text] =
           IF text = <<>> THEN <<>>
           ELSE IF ~Value!Contains(text, "LF") THEN <<text>>
           ELSE <<SubSeq(text, 1, LineEnd(text))>>
                  \o Value!Lines[SubSeq(text, LineFeed(text) + 1, Len(text))]
<1> DEFINE r == [of |-> "lines"]
           T == Seq({"x", "CR", "LF"})
           Raw(f) == [x \in T |->
             IF x = <<>> THEN <<>> ELSE IF ~Value!Contains(x, "LF") THEN <<x>>
             ELSE <<SubSeq(x, 1, LineEnd(x))>> \o f[SubSeq(x, LineFeed(x) + 1, Len(x))]]
<1>1. \A f : Defines(f, r) <=> f = Raw(f)
  <2>1. \A f : [x \in Over(r) |-> IF Ends(r, x) THEN End(r, x) ELSE Joined(r, x, f[Rest(r, x)])]
             = Raw(f)
    BY DEF Over, Ends, End, Rest, Joined
  <2> QED BY <2>1 DEF Defines
<1>2. Shrinks(r)
  <2> SUFFICES ASSUME NEW x \in T
               PROVE  /\ Len(x) \in Nat
                      /\ x # <<>> /\ Value!Contains(x, "LF") =>
                           LET y == SubSeq(x, LineFeed(x) + 1, Len(x)) IN
                           y \in T /\ Len(y) < Len(x)
    BY DEF Shrinks, Over, Ends, Rest, Size
  <2>1. Len(x) \in Nat /\ DOMAIN x = 1..Len(x)
    BY LenProperties
  <2>2. ASSUME x # <<>>, Value!Contains(x, "LF")
        PROVE  LET y == SubSeq(x, LineFeed(x) + 1, Len(x)) IN y \in T /\ Len(y) < Len(x)
    <3> DEFINE at == {i \in DOMAIN x : x[i] = "LF"}
    <3>1. at # {} /\ at \subseteq 1..Len(x)
      BY <2>1, <2>2 DEF Value!Contains
    <3>2. LineFeed(x) \in 1..Len(x)
      BY <2>1, <3>1, LeastIn DEF LineFeed
    <3>3. \A i \in (LineFeed(x) + 1)..Len(x) : x[i] \in {"x", "CR", "LF"}
      BY <2>1, <3>2, ElementOfSeq
    <3> QED BY <2>1, <3>2, <3>3, SubSeqProperties
  <2> QED BY <2>1, <2>2
<1>3. \E f : f = Raw(f)
  BY <1>1, <1>2, RecursionExists
<1>4. Value!Lines = CHOOSE f : f = Raw(f)
  BY DEF Value!Lines, LineEnd, LineFeed
<1> HIDE DEF Raw
<1>5. Value!Lines = Raw(Value!Lines)
  BY <1>3, <1>4
<1> QED BY <1>5 DEF Raw

LEMMA StreamOf ==
  ASSUME NEW s \in Seq({"x", "CR", "LF", "data: "})
  PROVE  Value!StreamLines[s] =
           IF {i \in DOMAIN s : s[i] \in {"CR", "LF"}} = {} THEN <<>>
           ELSE <<SubSeq(s, 1, StreamEnd(s) - 1)>>
                  \o Value!StreamLines[SubSeq(s, StreamEnd(s) + StreamSkip(s), Len(s))]
<1> DEFINE r == [of |-> "stream"]
           T == Seq({"x", "CR", "LF", "data: "})
           Raw(f) == [x \in T |->
             IF {i \in DOMAIN x : x[i] \in {"CR", "LF"}} = {} THEN <<>>
             ELSE <<SubSeq(x, 1, StreamEnd(x) - 1)>>
                    \o f[SubSeq(x, StreamEnd(x) + StreamSkip(x), Len(x))]]
<1>1. \A f : Defines(f, r) <=> f = Raw(f)
  <2>1. \A f : [x \in Over(r) |-> IF Ends(r, x) THEN End(r, x) ELSE Joined(r, x, f[Rest(r, x)])]
             = Raw(f)
    BY DEF Over, Ends, End, Rest, Joined
  <2> QED BY <2>1 DEF Defines
<1>2. Shrinks(r)
  <2> SUFFICES ASSUME NEW x \in T
               PROVE  /\ Len(x) \in Nat
                      /\ {i \in DOMAIN x : x[i] \in {"CR", "LF"}} # {} =>
                           LET y == SubSeq(x, StreamEnd(x) + StreamSkip(x), Len(x)) IN
                           y \in T /\ Len(y) < Len(x)
    BY DEF Shrinks, Over, Ends, Rest, Size
  <2>1. Len(x) \in Nat /\ DOMAIN x = 1..Len(x)
    BY LenProperties
  <2> DEFINE at == {i \in DOMAIN x : x[i] \in {"CR", "LF"}}
  <2>2. ASSUME at # {}
        PROVE  LET y == SubSeq(x, StreamEnd(x) + StreamSkip(x), Len(x)) IN y \in T /\ Len(y) < Len(x)
    <3>1. at \subseteq 1..Len(x)
      BY <2>1
    <3>2. StreamEnd(x) \in 1..Len(x)
      BY <2>1, <2>2, <3>1, LeastIn DEF StreamEnd
    <3>3. StreamSkip(x) \in {1, 2}
      BY DEF StreamSkip
    <3>5. /\ Len(x) # 0 /\ StreamEnd(x) + StreamSkip(x) \in Nat
          /\ StreamEnd(x) + StreamSkip(x) >= 2
      BY <2>1, <3>2, <3>3, AfterOne
    <3> QED BY <3>5, LeftOf
  <2> QED BY <2>1, <2>2
<1>3. \E f : f = Raw(f)
  BY <1>1, <1>2, RecursionExists
<1>4. Value!StreamLines = CHOOSE f : f = Raw(f)
  BY DEF Value!StreamLines, StreamEnd, StreamSkip
<1> HIDE DEF Raw
<1>5. Value!StreamLines = Raw(Value!StreamLines)
  BY <1>3, <1>4
<1> QED BY <1>5 DEF Raw

-----------------------------------------------------------------------------
(* What a loop makes of a whole sequence.                                  *)

Run(loop, base, seq) ==
  (CHOOSE f : Folds(f, SUBSET (1..Len(seq)), loop, base, seq))[1..Len(seq)]

LEMMA RunOneByOne ==
  ASSUME NEW S, NEW seq \in Seq(S), NEW loop, NEW base
  PROVE  \E f : OneByOne(f, Len(seq), loop, base, seq) /\ Run(loop, base, seq) = f[1..Len(seq)]
<1> DEFINE f == CHOOSE h : Folds(h, SUBSET (1..Len(seq)), loop, base, seq)
<1>1. Len(seq) \in Nat
  BY LenProperties
<1>2. Folds(f, SUBSET (1..Len(seq)), loop, base, seq)
  BY <1>1, FoldsExist
<1>3. OneByOne(f, Len(seq), loop, base, seq)
  BY <1>1, <1>2, FoldsOneByOne
<1>4. Run(loop, base, seq) = f[1..Len(seq)]
  BY DEF Run
<1> QED BY <1>3, <1>4

LEMMA RunOfNone ==
  ASSUME NEW loop, NEW base
  PROVE  Run(loop, base, <<>>) = base
<1>1. <<>> \in Seq({}) /\ Len(<<>>) = 0
  BY EmptySeq
<1>2. PICK f : /\ OneByOne(f, Len(<<>>), loop, base, <<>>)
                /\ Run(loop, base, <<>>) = f[1..Len(<<>>)]
  BY <1>1, RunOneByOne
<1>3. f[1..0] = base
  BY <1>2 DEF OneByOne
<1> QED BY <1>1, <1>2, <1>3

\* Two folds are the same as far as what they go through is.
LEMMA SameSoFar ==
  ASSUME NEW n \in Nat, NEW m \in Nat, NEW loop, NEW base, NEW s, NEW t, NEW f, NEW g,
         OneByOne(f, n, loop, base, s), OneByOne(g, m, loop, base, t), n <= m,
         \A i \in 1..n : s[i] = t[i], NEW k \in 0..n
  PROVE  f[1..k] = g[1..k]
<1> DEFINE Bad == {i \in Nat : i <= n /\ f[1..i] # g[1..i]}
<1> SUFFICES ASSUME f[1..k] # g[1..k] PROVE FALSE
  OBVIOUS
<1>1. k \in Bad
  OBVIOUS
<1>2. PICK i \in Bad : \A j \in Bad : i <= j
  <2>1. Bad \subseteq Nat /\ Bad # {}
    BY <1>1
  <2> QED BY <2>1, LeastNumber
<1>3. i \in Nat /\ i <= n /\ f[1..i] # g[1..i]
  BY <1>2
<1>4. i # 0
  BY <1>3 DEF OneByOne
<1>5. i - 1 \in Nat /\ i - 1 <= n /\ i \in 1..n /\ i \in 1..m /\ ~(i <= i - 1)
  BY <1>3, <1>4
<1>6. f[1..(i - 1)] = g[1..(i - 1)]
  BY <1>2, <1>5
<1>7. /\ f[1..i] = Step(loop, f[1..(i - 1)], s[i])
      /\ g[1..i] = Step(loop, g[1..(i - 1)], t[i])
  BY <1>5 DEF OneByOne
<1> QED BY <1>3, <1>5, <1>6, <1>7

LEMMA RunOfOneMore ==
  ASSUME NEW S, NEW seq \in Seq(S), NEW e \in S, NEW loop, NEW base
  PROVE  Run(loop, base, Append(seq, e)) = Step(loop, Run(loop, base, seq), e)
<1> DEFINE n == Len(seq)
           t == Append(seq, e)
<1>1. /\ n \in Nat /\ t \in Seq(S) /\ Len(t) = n + 1 /\ t[n + 1] = e
      /\ \A i \in 1..n : t[i] = seq[i]
  BY AppendProperties, LenProperties
<1>2. PICK f : OneByOne(f, n, loop, base, seq) /\ Run(loop, base, seq) = f[1..n]
  BY RunOneByOne
<1>3. PICK g : OneByOne(g, n + 1, loop, base, t) /\ Run(loop, base, t) = g[1..(n + 1)]
  BY <1>1, RunOneByOne
<1> HIDE DEF n, t
<1>4. n + 1 \in Nat /\ n <= n + 1 /\ n \in 0..n /\ n + 1 \in 1..(n + 1) /\ (n + 1) - 1 = n
  BY <1>1
<1>5. f[1..n] = g[1..n]
  BY <1>1, <1>2, <1>3, <1>4, SameSoFar
<1>6. g[1..(n + 1)] = Step(loop, g[1..((n + 1) - 1)], t[n + 1])
  BY <1>3, <1>4 DEF OneByOne
<1> QED BY <1>1, <1>2, <1>3, <1>4, <1>5, <1>6 DEF t

\* A sequence that has one more at its end.
LEMMA LastOne ==
  ASSUME NEW S, NEW seq \in Seq(S), Len(seq) # 0
  PROVE  \E s \in Seq(S), e \in S : seq = Append(s, e) /\ Len(s) = Len(seq) - 1 /\ Len(s) \in Nat
<1>1. seq # <<>>
  BY EmptySeq
<1>2. PICK s \in Seq(S), e \in S : seq = Append(s, e)
  BY <1>1, SequenceEmptyOrAppend
<1>3. Len(s) \in Nat /\ Len(seq) = Len(s) + 1
  BY <1>2, LenProperties, AppendProperties
<1>4. Len(s) = Len(seq) - 1
  BY <1>3
<1> QED BY <1>2, <1>3, <1>4

LEMMA ConcatOneMore ==
  ASSUME NEW S, NEW s \in Seq(S), NEW t \in Seq(S), NEW e \in S
  PROVE  s \o Append(t, e) = Append(s \o t, e)
<1>1. <<e>> \in Seq(S) /\ s \o t \in Seq(S)
  BY ConcatProperties
<1>2. Append(t, e) = t \o <<e>> /\ Append(s \o t, e) = (s \o t) \o <<e>>
  BY <1>1, AppendIsConcat
<1> QED BY <1>1, <1>2, ConcatAssociative

LEMMA RunOfConcat ==
  ASSUME NEW S, NEW s \in Seq(S), NEW t \in Seq(S), NEW loop, NEW base
  PROVE  Run(loop, base, s \o t) = Run(loop, Run(loop, base, s), t)
<1> DEFINE Fine(u) == Run(loop, base, s \o u) = Run(loop, Run(loop, base, s), u)
           Bad == {n \in Nat : \E u \in Seq(S) : Len(u) = n /\ ~Fine(u)}
<1> SUFFICES ASSUME ~Fine(t) PROVE FALSE
  OBVIOUS
<1>1. Len(t) \in Bad
  BY LenProperties
<1>2. PICK n \in Bad : \A j \in Bad : n <= j
  <2>1. Bad \subseteq Nat /\ Bad # {}
    BY <1>1
  <2> QED BY <2>1, LeastNumber
<1>3. PICK u \in Seq(S) : Len(u) = n /\ ~Fine(u)
  BY <1>2
<1>4. n \in Nat
  BY <1>2
<1>5. CASE n = 0
  <2>1. u = <<>>
    BY <1>3, <1>5, EmptySeq
  <2>2. s \o u = s
    BY <2>1, ConcatEmptySeq
  <2> QED BY <1>3, <2>1, <2>2, RunOfNone
<1>6. CASE n # 0
  <2>1. PICK v \in Seq(S), e \in S : u = Append(v, e) /\ Len(v) = n - 1 /\ Len(v) \in Nat
    BY <1>3, <1>6, LastOne
  <2>2. Len(v) \notin Bad
    BY <1>2, <1>4, <2>1
  <2>3. Fine(v)
    BY <2>1, <2>2
  <2>4. s \o u = Append(s \o v, e) /\ s \o v \in Seq(S)
    BY <2>1, ConcatOneMore, ConcatProperties
  <2>5. Run(loop, base, s \o u) = Step(loop, Run(loop, base, s \o v), e)
    BY <2>4, RunOfOneMore
  <2>6. Run(loop, Run(loop, base, s), u) = Step(loop, Run(loop, Run(loop, base, s), v), e)
    BY <2>1, RunOfOneMore
  <2> QED BY <1>3, <2>3, <2>5, <2>6
<1> QED BY <1>5, <1>6

-----------------------------------------------------------------------------
(* Numbers and their digits.                                               *)

Digit == 0..9

LEMMA ContinuedIsRun ==
  ASSUME NEW S, NEW digits \in Seq(S), NEW n
  PROVE  Value!Continued(n, digits) = Run("digits", n, digits)
<1> DEFINE D == 1..Len(digits)
           Raw(h) == [s \in SUBSET D |->
                        IF s = {} THEN n
                        ELSE h[s \ {Greatest(s)}] * 10 + digits[Greatest(s)]]
<1>1. Len(digits) \in Nat /\ DOMAIN digits = D
  BY LenProperties
<1>2. Value!Continued(n, digits) = (CHOOSE h : h = Raw(h))[D]
  BY <1>1 DEF Value!Continued, Value!FoldLeft, Value!MapThenFoldSet, Value!Max, Greatest
<1>3. \A h : h = Raw(h) <=> Folds(h, SUBSET D, "digits", n, digits)
  BY DEF Folds, Step
<1> HIDE DEF Raw
<1>4. (CHOOSE h : h = Raw(h)) = (CHOOSE h : Folds(h, SUBSET D, "digits", n, digits))
  BY <1>3
<1> QED BY <1>2, <1>4 DEF Run

LEMMA ContinuedOneMore ==
  ASSUME NEW n \in Nat, NEW digits \in Seq(Digit), NEW d \in Digit
  PROVE  /\ Value!Continued(n, <<>>) = n
         /\ Value!Continued(n, Append(digits, d)) = Value!Continued(n, digits) * 10 + d
<1>1. Append(digits, d) \in Seq(Digit) /\ <<>> \in Seq(Digit)
  BY AppendProperties
<1>2. Value!Continued(n, <<>>) = n
  BY <1>1, ContinuedIsRun, RunOfNone
<1>3. Run("digits", n, Append(digits, d)) = Step("digits", Run("digits", n, digits), d)
  BY RunOfOneMore
<1> QED BY <1>1, <1>2, <1>3, ContinuedIsRun DEF Step

LEMMA ContinuedConcat ==
  ASSUME NEW n \in Nat, NEW s \in Seq(Digit), NEW t \in Seq(Digit)
  PROVE  Value!Continued(n, s \o t) = Value!Continued(Value!Continued(n, s), t)
<1>1. s \o t \in Seq(Digit)
  BY ConcatProperties
<1>2. /\ Value!Continued(n, s \o t) = Run("digits", n, s \o t)
      /\ Value!Continued(n, s) = Run("digits", n, s)
      /\ Value!Continued(Value!Continued(n, s), t) = Run("digits", Value!Continued(n, s), t)
  BY <1>1, ContinuedIsRun
<1> QED BY <1>2, RunOfConcat

\* The digits of a number are digits, at least one, and it is the number they are of.
DigitsFine(n) ==
  /\ Value!Digits[n] \in Seq(Digit) /\ Len(Value!Digits[n]) \in Nat \ {0}
  /\ Value!Continued(0, Value!Digits[n]) = n

LEMMA NumberOfDigits ==
  ASSUME NEW n \in Nat
  PROVE  DigitsFine(n)
<1> DEFINE Bad == {m \in Nat : ~DigitsFine(m)}
<1> SUFFICES ASSUME n \in Bad PROVE FALSE
  OBVIOUS
<1>1. PICK m \in Bad : \A j \in Bad : m <= j
  BY LeastNumber
<1>2. m \in Nat /\ ~DigitsFine(m)
  BY <1>1
<1>3. Value!Digits[m] = IF m < 10 THEN <<m>> ELSE Append(Value!Digits[m \div 10], m % 10)
  BY <1>2, DigitsOf
<1>4. CASE m < 10
  <2>1. m \in Digit
    BY <1>2, <1>4 DEF Digit
  <2>2. <<>> \in Seq(Digit) /\ <<m>> = Append(<<>>, m)
    BY EmptySeq
  <2>3. <<m>> \in Seq(Digit) /\ Len(<<m>>) = 1
    BY <2>1
  <2>4. Value!Continued(0, <<m>>) = 0 * 10 + m
    <3>1. /\ Value!Continued(0, <<>>) = 0
          /\ Value!Continued(0, Append(<<>>, m)) = Value!Continued(0, <<>>) * 10 + m
      BY <2>1, <2>2, ContinuedOneMore
    <3> QED BY <2>2, <3>1
  <2>5. Value!Digits[m] = <<m>>
    BY <1>3, <1>4
  <2> QED BY <1>2, <2>3, <2>4, <2>5 DEF DigitsFine
<1>5. CASE ~(m < 10)
  <2> DEFINE q == m \div 10
             d == m % 10
  <2>1. /\ q \in Nat /\ d \in Digit /\ m = 10 * q + d /\ q < m
        /\ Value!Digits[m] = Append(Value!Digits[q], d)
    BY <1>2, <1>3, <1>5, DivisionByTen DEF Digit
  <2> HIDE DEF q, d
  <2>2. DigitsFine(q)
    BY <1>1, <1>2, <2>1
  <2>3. Value!Digits[m] \in Seq(Digit) /\ Len(Value!Digits[m]) \in Nat \ {0}
    BY <2>1, <2>2, AppendProperties DEF DigitsFine
  <2>4. Value!Continued(0, Value!Digits[m]) = q * 10 + d
    BY <2>1, <2>2, ContinuedOneMore DEF DigitsFine
  <2>5. q * 10 + d = m
    BY <2>1 DEF Digit
  <2> QED BY <1>2, <2>3, <2>4, <2>5 DEF DigitsFine
<1> QED BY <1>4, <1>5

LEMMA ContinuedType ==
  ASSUME NEW n \in Nat, NEW digits \in Seq(Digit)
  PROVE  Value!Continued(n, digits) \in Nat
<1> DEFINE Fine(u) == Value!Continued(n, u) \in Nat
           Bad == {k \in Nat : \E u \in Seq(Digit) : Len(u) = k /\ ~Fine(u)}
<1> SUFFICES ASSUME ~Fine(digits) PROVE FALSE
  OBVIOUS
<1>1. Len(digits) \in Bad
  BY LenProperties
<1>2. PICK k \in Bad : \A j \in Bad : k <= j
  <2>1. Bad \subseteq Nat /\ Bad # {}
    BY <1>1
  <2> QED BY <2>1, LeastNumber
<1>3. PICK u \in Seq(Digit) : Len(u) = k /\ ~Fine(u)
  BY <1>2
<1>4. k \in Nat
  BY <1>2
<1>5. CASE k = 0
  <2>1. u = <<>>
    BY <1>3, <1>5, EmptySeq
  <2>2. 0 \in Digit
    BY DEF Digit
  <2> QED BY <1>3, <2>1, <2>2, ContinuedOneMore
<1>6. CASE k # 0
  <2>1. PICK v \in Seq(Digit), e \in Digit : u = Append(v, e) /\ Len(v) = k - 1 /\ Len(v) \in Nat
    BY <1>3, <1>6, LastOne
  <2>2. Len(v) \notin Bad
    BY <1>2, <1>4, <2>1
  <2>3. Value!Continued(n, v) \in Nat
    BY <2>1, <2>2
  <2>4. Value!Continued(n, u) = Value!Continued(n, v) * 10 + e
    BY <2>1, ContinuedOneMore
  <2> QED BY <1>3, <2>1, <2>3, <2>4 DEF Digit
<1> QED BY <1>5, <1>6

LEMMA ZerosAreDigits ==
  ASSUME NEW n \in Int
  PROVE  /\ Value!Zeros(n) \in Seq(Digit)
         /\ Len(Value!Zeros(n)) = IF n < 0 THEN 0 ELSE n
         /\ \A i \in 1..n : Value!Zeros(n)[i] = 0
         /\ n <= 0 => Value!Zeros(n) = <<>>
<1>1. CASE n <= 0
  <2>1. Value!Zeros(n) = <<>>
    BY <1>1 DEF Value!Zeros
  <2> QED BY <1>1, <2>1, EmptySeq
<1>2. CASE n > 0
  BY <1>2 DEF Value!Zeros, Digit
<1> QED BY <1>1, <1>2

\* Zeros before a number are none of it.
LEMMA ZerosBefore ==
  ASSUME NEW n \in Nat
  PROVE  Value!Continued(0, Value!Zeros(n)) = 0
<1> DEFINE Bad == {m \in Nat : Value!Continued(0, Value!Zeros(m)) # 0}
<1> SUFFICES ASSUME n \in Bad PROVE FALSE
  OBVIOUS
<1>1. PICK m \in Bad : \A j \in Bad : m <= j
  BY LeastNumber
<1>2. m \in Nat /\ Value!Continued(0, Value!Zeros(m)) # 0
  BY <1>1
<1>3. 0 \in Digit /\ <<>> \in Seq(Digit)
  BY EmptySeq DEF Digit
<1>4. m # 0
  BY <1>2, <1>3, ZerosAreDigits, ContinuedOneMore
<1>5. m - 1 \in Nat /\ ~(m <= m - 1)
  BY <1>2, <1>4
<1>6. Value!Continued(0, Value!Zeros(m - 1)) = 0
  BY <1>1, <1>5
<1>7. Value!Zeros(m) = Append(Value!Zeros(m - 1), 0)
  BY <1>2, <1>4, <1>5 DEF Value!Zeros
<1>8. Value!Continued(0, Value!Zeros(m)) = 0 * 10 + 0
  BY <1>3, <1>5, <1>6, <1>7, ZerosAreDigits, ContinuedOneMore
<1> QED BY <1>2, <1>8

\* Digits after a number: so many of them count so much.
Shifts(k, c) ==
  \A q \in Nat : \A ds \in Seq(Digit) :
    Len(ds) = k => Value!Continued(q, ds) = q * c + Value!Continued(0, ds)

LEMMA ShiftsOneMore ==
  ASSUME NEW k \in Nat, NEW c \in Nat, Shifts(k, c)
  PROVE  Shifts(k + 1, c * 10)
<1> SUFFICES ASSUME NEW q \in Nat, NEW ds \in Seq(Digit), Len(ds) = k + 1
             PROVE  Value!Continued(q, ds) = q * (c * 10) + Value!Continued(0, ds)
  BY DEF Shifts
<1>1. PICK s \in Seq(Digit), e \in Digit : ds = Append(s, e) /\ Len(s) = Len(ds) - 1
  BY LastOne
<1>2. Len(s) = k
  BY <1>1
<1> DEFINE a == Value!Continued(q, s)
           b == Value!Continued(0, s)
<1>3. a = q * c + b
  BY <1>1, <1>2 DEF Shifts
<1>4. Value!Continued(q, ds) = a * 10 + e /\ Value!Continued(0, ds) = b * 10 + e
  BY <1>1, ContinuedOneMore
<1>5. b \in Nat /\ e \in Nat
  BY <1>1, ContinuedType DEF Digit
<1> HIDE DEF a, b
<1>6. \A x, y, z, d \in Nat : (x * y + z) * 10 + d = x * (y * 10) + (z * 10 + d)
  OBVIOUS
<1> QED BY <1>3, <1>4, <1>5, <1>6

\* A number below c has at most k digits.
IsShort(k, c) == \A n \in Nat : n < c => Len(Value!Digits[n]) <= k

LEMMA ShortOneMore ==
  ASSUME NEW k \in Nat, NEW c \in Nat, IsShort(k, c)
  PROVE  IsShort(k + 1, c * 10)
<1> SUFFICES ASSUME NEW n \in Nat, n < c * 10
             PROVE  Len(Value!Digits[n]) <= k + 1
  BY DEF IsShort
<1>1. CASE n < 10
  <2>1. Value!Digits[n] = <<n>>
    BY <1>1, DigitsOf
  <2> QED BY <2>1
<1>2. CASE ~(n < 10)
  <2> DEFINE q == n \div 10
             d == n % 10
  <2>1. /\ q \in Nat /\ d \in Digit /\ n = 10 * q + d
        /\ Value!Digits[n] = Append(Value!Digits[q], d)
    BY <1>2, DivisionByTen, DigitsOf DEF Digit
  <2> HIDE DEF q, d
  <2>2. q < c
    BY <2>1 DEF Digit
  <2>3. Len(Value!Digits[q]) <= k /\ Value!Digits[q] \in Seq(Digit)
    BY <2>1, <2>2, NumberOfDigits DEF IsShort, DigitsFine
  <2>4. Len(Value!Digits[n]) = Len(Value!Digits[q]) + 1 /\ Len(Value!Digits[q]) \in Nat
    BY <2>1, <2>3, AppendProperties, LenProperties
  <2> QED BY <2>3, <2>4
<1> QED BY <1>1, <1>2

LEMMA FourPlaces ==
  /\ Shifts(3, 1000) /\ Shifts(4, 10000)
  /\ IsShort(3, 1000) /\ IsShort(4, 10000)
<1>1. Shifts(0, 1)
  <2> SUFFICES ASSUME NEW q \in Nat, NEW ds \in Seq(Digit), Len(ds) = 0
               PROVE  Value!Continued(q, ds) = q * 1 + Value!Continued(0, ds)
    BY DEF Shifts
  <2>1. ds = <<>> /\ 0 \in Digit
    BY EmptySeq DEF Digit
  <2>2. Value!Continued(q, <<>>) = q /\ Value!Continued(0, <<>>) = 0
    BY <2>1, ContinuedOneMore
  <2> QED BY <2>1, <2>2
<1>2. Shifts(0 + 1, 1 * 10)
  BY <1>1, ShiftsOneMore
<1>3. Shifts(1 + 1, 10 * 10)
  BY <1>2, ShiftsOneMore
<1>4. Shifts(2 + 1, 100 * 10)
  BY <1>3, ShiftsOneMore
<1>5. Shifts(3 + 1, 1000 * 10)
  BY <1>4, ShiftsOneMore
<1>6. IsShort(1, 10)
  <2> SUFFICES ASSUME NEW n \in Nat, n < 10 PROVE Len(Value!Digits[n]) <= 1
    BY DEF IsShort
  <2>1. Value!Digits[n] = <<n>>
    BY DigitsOf
  <2> QED BY <2>1
<1>7. IsShort(1 + 1, 10 * 10)
  BY <1>6, ShortOneMore
<1>8. IsShort(2 + 1, 100 * 10)
  BY <1>7, ShortOneMore
<1>9. IsShort(3 + 1, 1000 * 10)
  BY <1>8, ShortOneMore
<1> QED BY <1>4, <1>5, <1>8, <1>9

LEMMA ThreeAfter ==
  ASSUME NEW q \in Nat, NEW ds \in Seq(Digit), Len(ds) = 3
  PROVE  Value!Continued(q, ds) = q * 1000 + Value!Continued(0, ds)
<1>1. Shifts(3, 1000)
  BY FourPlaces
<1> QED BY <1>1 DEF Shifts

LEMMA FourAfter ==
  ASSUME NEW q \in Nat, NEW ds \in Seq(Digit), Len(ds) = 4
  PROVE  Value!Continued(q, ds) = q * 10000 + Value!Continued(0, ds)
<1>1. Shifts(4, 10000)
  BY FourPlaces
<1> QED BY <1>1 DEF Shifts

\* So many digits, zeros before them if need be.
LEMMA PaddedIsNumber ==
  ASSUME NEW k \in Nat, NEW n \in Nat, Len(Value!Digits[n]) <= k
  PROVE  /\ Value!Padded(n, k) \in Seq(Digit) /\ Len(Value!Padded(n, k)) = k
         /\ Value!Continued(0, Value!Padded(n, k)) = n
<1> DEFINE d == Value!Digits[n]
           m == k - Len(d)
           z == Value!Zeros(m)
<1>1. d \in Seq(Digit) /\ Len(d) \in Nat /\ Value!Continued(0, d) = n
  BY NumberOfDigits DEF DigitsFine
<1>2. m \in Nat /\ m = k - Len(d)
  BY <1>1
<1>4. Value!Padded(n, k) = z \o d
  BY DEF Value!Padded
<1> HIDE DEF m, d
<1>3. z \in Seq(Digit) /\ Len(z) = m /\ Value!Continued(0, z) = 0
  BY <1>2, ZerosAreDigits, ZerosBefore
<1> HIDE DEF z
<1>5. z \o d \in Seq(Digit) /\ Len(z \o d) = Len(z) + Len(d)
  BY <1>1, <1>3, ConcatProperties
<1>6. Len(z \o d) = k
  BY <1>1, <1>2, <1>3, <1>5
<1>7. Value!Continued(0, z \o d) = n
  BY <1>1, <1>3, ContinuedConcat
<1> QED BY <1>4, <1>5, <1>6, <1>7

\* What the reader makes of a number and digits after the point.
LEMMA ReadOf ==
  ASSUME NEW whole \in Nat, NEW fraction \in Seq(Digit), NEW fill \in Nat, NEW k \in Nat,
         Len(fraction) = k - fill, fill <= k
  PROVE  /\ Value!Read(Value!Shown(whole, fraction), k)
              = Value!Continued(whole, fraction \o Value!Zeros(fill))
         /\ Value!Zeros(fill) \in Seq(Digit) /\ Len(Value!Zeros(fill)) = fill
         /\ fraction \o Value!Zeros(fill) \in Seq(Digit)
         /\ Len(fraction \o Value!Zeros(fill)) = k
<1>1. Len(fraction) <= k /\ k - Len(fraction) = fill
  OBVIOUS
<1>2. Value!Read(Value!Shown(whole, fraction), k)
        = Value!Continued(whole, fraction \o Value!Zeros(fill))
  BY <1>1 DEF Value!Read, Value!Shown
<1> DEFINE zeros == Value!Zeros(fill)
<1>3. zeros \in Seq(Digit) /\ Len(zeros) = fill
  BY ZerosAreDigits
<1> HIDE DEF zeros
<1>4. fraction \o zeros \in Seq(Digit) /\ Len(fraction \o zeros) = Len(fraction) + Len(zeros)
  BY <1>3, ConcatProperties
<1>5. Len(fraction \o zeros) = k
  BY <1>1, <1>3, <1>4
<1> QED BY <1>2, <1>3, <1>4, <1>5 DEF zeros

\* Of a number without digits after the point.
LEMMA ReadOfNone ==
  ASSUME NEW whole \in Nat, NEW k \in Nat
  PROVE  Value!Read(Value!Shown(whole, <<>>), k) = Value!Continued(whole, Value!Zeros(k))
<1>1. k - 0 = k /\ ~(0 > k)
  OBVIOUS
<1>2. Value!Read(Value!Shown(whole, <<>>), k)
        = Value!Continued(whole, <<>> \o Value!Zeros(k))
  BY <1>1 DEF Value!Read, Value!Shown
<1>3. <<>> \o Value!Zeros(k) = Value!Zeros(k)
  BY ZerosAreDigits, ConcatEmptySeq
<1> QED BY <1>2, <1>3

LEMMA PaddedToFour ==
  ASSUME NEW n \in Nat, n < 10000
  PROVE  /\ Value!Padded(n, 4) \in Seq(Digit) /\ Len(Value!Padded(n, 4)) = 4
         /\ Value!Continued(0, Value!Padded(n, 4)) = n
<1>1. IsShort(4, 10000)
  BY FourPlaces
<1>2. Len(Value!Digits[n]) <= 4
  BY <1>1 DEF IsShort
<1> DEFINE k == 4
<1>3. k \in Nat /\ Len(Value!Digits[n]) <= k
  BY <1>2
<1> HIDE DEF k
<1>4. /\ Value!Padded(n, k) \in Seq(Digit) /\ Len(Value!Padded(n, k)) = k
      /\ Value!Continued(0, Value!Padded(n, k)) = n
  BY <1>3, PaddedIsNumber
<1> QED BY <1>4 DEF k

LEMMA DivisionOf ==
  ASSUME NEW n \in Nat, NEW k \in Nat \ {0}
  PROVE  n \div k \in Nat /\ n % k \in Nat /\ n % k < k /\ n = k * (n \div k) + (n % k)
OBVIOUS

\* An amount in satoshis is read to the last millisatoshi.
LEMMA MsatReadBack ==
  ASSUME NEW n \in Nat
  PROVE  Value!Read(Value!ShowMsat(n), 3) = n
<1> DEFINE q == n \div 1000
           r == n % 1000
           fraction == IF r = 0 THEN <<>> ELSE Value!Padded(r, 3)
           fill == IF r = 0 THEN 3 ELSE 0
           zeros == Value!Zeros(fill)
<1>1. q \in Nat /\ r \in Nat /\ r < 1000 /\ n = 1000 * q + r
  BY DivisionOf
<1>2. Value!ShowMsat(n) = Value!Shown(q, fraction)
  BY DEF Value!ShowMsat
<1> HIDE DEF q, r
<1>3. Len(Value!Digits[r]) <= 3
  BY <1>1, FourPlaces DEF IsShort
<1>4. /\ fraction \in Seq(Digit) /\ Len(fraction) = 3 - fill /\ fill \in {0, 3}
      /\ Value!Continued(0, fraction \o zeros) = r
  <2>1. CASE r = 0
    <3>1. fraction = <<>> /\ Len(<<>>) = 0 /\ <<>> \in Seq(Digit)
      BY <2>1, EmptySeq
    <3>2. zeros = Value!Zeros(3)
      BY <2>1
    <3>3. Value!Zeros(3) \in Seq(Digit) /\ Value!Continued(0, Value!Zeros(3)) = 0
      BY ZerosAreDigits, ZerosBefore
    <3> HIDE DEF fraction, zeros
    <3>4. <<>> \o Value!Zeros(3) = Value!Zeros(3)
      BY <3>3, ConcatEmptySeq
    <3> QED BY <2>1, <3>1, <3>2, <3>3, <3>4 DEF fill
  <2>2. CASE r # 0
    <3>1. fraction = Value!Padded(r, 3)
      BY <2>2
    <3> HIDE DEF fraction
    <3>2. fraction \in Seq(Digit) /\ Len(fraction) = 3 /\ Value!Continued(0, fraction) = r
      <4>1. /\ Value!Padded(r, 3) \in Seq(Digit) /\ Len(Value!Padded(r, 3)) = 3
            /\ Value!Continued(0, Value!Padded(r, 3)) = r
        <5> DEFINE k == 3
        <5>1. k \in Nat /\ r \in Nat /\ Len(Value!Digits[r]) <= k
          BY <1>1, <1>3
        <5> HIDE DEF k
        <5>2. /\ Value!Padded(r, k) \in Seq(Digit) /\ Len(Value!Padded(r, k)) = k
              /\ Value!Continued(0, Value!Padded(r, k)) = r
          BY <5>1, PaddedIsNumber
        <5> QED BY <5>2 DEF k
      <4> QED BY <3>1, <4>1
    <3>3. zeros = <<>>
      <4>1. zeros = Value!Zeros(0)
        BY <2>2
      <4> QED BY <4>1, ZerosAreDigits
    <3> HIDE DEF zeros
    <3>4. fraction \o <<>> = fraction
      BY <3>2, ConcatEmptySeq
    <3> QED BY <2>2, <3>2, <3>3, <3>4 DEF fill
  <2> QED BY <2>1, <2>2
<1> HIDE DEF fraction, fill
<1>5. /\ Value!Read(Value!Shown(q, fraction), 3) = Value!Continued(q, fraction \o zeros)
      /\ fraction \o zeros \in Seq(Digit) /\ Len(fraction \o zeros) = 3
  <2>1. q \in Nat /\ fill \in Nat /\ 3 \in Nat /\ fill <= 3
    BY <1>1, <1>4
  <2> QED BY <1>4, <2>1, ReadOf
<1> HIDE DEF zeros
<1>6. Value!Continued(q, fraction \o zeros) = q * 1000 + Value!Continued(0, fraction \o zeros)
  <2> DEFINE ds == fraction \o zeros
  <2>1. q \in Nat /\ ds \in Seq(Digit) /\ Len(ds) = 3
    BY <1>1, <1>5
  <2> HIDE DEF ds
  <2>2. Value!Continued(q, ds) = q * 1000 + Value!Continued(0, ds)
    BY <2>1, ThreeAfter
  <2> QED BY <2>2 DEF ds
<1>7. q * 1000 + r = n
  BY <1>1
<1> QED BY <1>2, <1>4, <1>5, <1>6, <1>7

LEMMA RangeReadBack ==
  ASSUME NEW min \in Nat \cup {None}, NEW max \in Nat \cup {None}
  PROVE  Value!ReadRange(Value!ShowRange(min, max)) = <<min, max>>
<1>1. \A n \in Nat : Value!Read(Value!ShowMsat(n), 3) = n
  BY MsatReadBack
<1>2. CASE min = None /\ max = None
  BY <1>2 DEF Value!ReadRange, Value!ShowRange
<1>3. CASE min # None /\ max = None
  BY <1>1, <1>3 DEF Value!ReadRange, Value!ShowRange
<1>4. CASE min = None /\ max # None
  BY <1>1, <1>4 DEF Value!ReadRange, Value!ShowRange
<1>5. CASE min # None /\ max # None /\ min = max
  <2>1. Value!ShowRange(min, max) = <<"exactly", Value!ShowMsat(min)>>
    BY <1>5 DEF Value!ShowRange
  <2> QED BY <1>1, <1>5, <2>1 DEF Value!ReadRange
<1>6. CASE min # None /\ max # None /\ min # max
  <2>1. Value!ShowRange(min, max) = <<"between", Value!ShowMsat(min), Value!ShowMsat(max)>>
    BY <1>6 DEF Value!ShowRange
  <2> QED BY <1>1, <1>6, <2>1 DEF Value!ReadRange
<1> QED BY <1>2, <1>3, <1>4, <1>5, <1>6

\* The digits of an amount, with the point put in at a place.
LEMMA PointBetween ==
  ASSUME NEW digits \in Seq(Digit), NEW w \in 0..Len(digits)
  PROVE  LET before == SubSeq(digits, 1, w)
             after  == SubSeq(digits, w + 1, Len(digits)) IN
         /\ before \in Seq(Digit) /\ after \in Seq(Digit) /\ before \o after = digits
         /\ Len(after) = Len(digits) - w
<1> DEFINE n == Len(digits)
           before == SubSeq(digits, 1, w)
           after == SubSeq(digits, w + 1, n)
<1>1. n \in Nat /\ w \in Nat /\ w <= n /\ 0 <= w
  BY LenProperties
<1>2. \A i \in 1..n : digits[i] \in Digit
  BY ElementOfSeq
<1>3. /\ \A i \in 1..w : digits[i] \in Digit
      /\ \A i \in (w + 1)..n : digits[i] \in Digit
  <2>1. /\ \A i \in 1..w : i \in 1..n
        /\ \A i \in (w + 1)..n : i \in 1..n
    BY <1>1
  <2> QED BY <1>2, <2>1
<1> HIDE DEF n
<1>4. before \in Seq(Digit)
  BY <1>1, <1>3, SubSeqProperties
<1>5. after \in Seq(Digit) /\ Len(after) = IF w + 1 <= n THEN n - (w + 1) + 1 ELSE 0
  BY <1>1, <1>3, SubSeqProperties
<1>6. Len(after) = n - w
  BY <1>1, <1>5
<1>7. before \o after = digits
  <2>1. /\ 1 \in 1..(n + 1) /\ w \in (1 - 1)..n /\ n \in w..n
    BY <1>1
  <2>2. before \o after = SubSeq(digits, 1, n)
    BY <2>1, ConcatAdjacentSubSeq DEF n
  <2> QED BY <2>2, SubSeqFull DEF n
<1> QED BY <1>4, <1>5, <1>6, <1>7 DEF n

LEMMA AllZeros ==
  ASSUME NEW s \in Seq(Digit), \A i \in 1..Len(s) : s[i] = 0
  PROVE  s = Value!Zeros(Len(s))
<1>1. Len(s) \in Nat
  BY LenProperties
<1>2. /\ Value!Zeros(Len(s)) \in Seq(Digit) /\ Len(Value!Zeros(Len(s))) = Len(s)
      /\ \A i \in 1..Len(s) : Value!Zeros(Len(s))[i] = 0
  BY <1>1, ZerosAreDigits
<1> QED BY <1>1, <1>2, SeqEqual

\* An amount of a currency is read to its last digit.
LEMMA AmountReadBack ==
  ASSUME NEW n \in Nat, NEW e \in Nat
  PROVE  Value!Read(Value!ShowAmount(n, e), e) = n
<1> DEFINE d == Value!Digits[n]
           w == Len(d) - e
<1>1. d \in Seq(Digit) /\ Len(d) \in Nat /\ Value!Continued(0, d) = n /\ w \in Int
  BY NumberOfDigits DEF DigitsFine
<1>2. CASE e = 0
  <2>1. Value!ShowAmount(n, e) = Value!Shown(n, <<>>)
    BY <1>2 DEF Value!ShowAmount
  <2>2. <<>> \in Seq(Digit) /\ 0 \in Digit /\ 0 \in Nat /\ Value!Zeros(0) = <<>>
    BY EmptySeq, ZerosAreDigits DEF Digit
  <2>3. Value!Read(Value!Shown(n, <<>>), 0) = Value!Continued(n, Value!Zeros(0))
    BY <2>2, ReadOfNone
  <2>4. Value!Continued(n, <<>>) = n
    BY <2>2, ContinuedOneMore
  <2> QED BY <1>2, <2>1, <2>2, <2>3, <2>4
<1>3. CASE e # 0 /\ Len(d) <= e
  <2> DEFINE m == e - Len(d)
             f == Value!Zeros(m) \o d
  <2>1. m \in Nat /\ Value!ShowAmount(n, e) = Value!Shown(0, f)
    BY <1>1, <1>3 DEF Value!ShowAmount
  <2> HIDE DEF m
  <2>2. /\ Value!Zeros(m) \in Seq(Digit) /\ Len(Value!Zeros(m)) = m
        /\ Value!Continued(0, Value!Zeros(m)) = 0
    BY <2>1, ZerosAreDigits, ZerosBefore
  <2> HIDE DEF d
  <2>3. f \in Seq(Digit) /\ Len(f) = m + Len(d) /\ Value!Continued(0, f) = n
    <3>1. f \in Seq(Digit) /\ Len(f) = m + Len(d)
      BY <1>1, <2>2, ConcatProperties
    <3>2. 0 \in Nat
      OBVIOUS
    <3>3. Value!Continued(0, f) = Value!Continued(Value!Continued(0, Value!Zeros(m)), d)
      BY <1>1, <2>2, <3>2, ContinuedConcat
    <3> QED BY <1>1, <2>2, <3>1, <3>3
  <2> HIDE DEF f
  <2>4. Len(f) = e
    BY <1>1, <1>3, <2>3 DEF m
  <2>5. Value!Read(Value!Shown(0, f), e) = Value!Continued(0, f \o Value!Zeros(0))
    <3>1. 0 \in Nat /\ 0 <= e /\ Len(f) = e - 0
      BY <2>4
    <3> QED BY <2>3, <3>1, ReadOf
  <2>6. Value!Zeros(0) = <<>>
    BY ZerosAreDigits
  <2>7. f \o <<>> = f
    BY <2>3, ConcatEmptySeq
  <2> QED BY <2>1, <2>3, <2>5, <2>6, <2>7
<1>4. CASE e # 0 /\ ~(Len(d) <= e)
  <2> DEFINE before == SubSeq(d, 1, w)
             after == SubSeq(d, w + 1, Len(d))
             f == IF \E i \in DOMAIN after : after[i] # 0 THEN after ELSE <<>>
             whole == Value!Continued(0, before)
  <2>1. w \in 0..Len(d) /\ w = Len(d) - e
    BY <1>1, <1>4
  <2>2. Value!ShowAmount(n, e) = Value!Shown(whole, f)
    BY <1>4 DEF Value!ShowAmount, Value!Number
  <2> HIDE DEF w, d
  <2>3. /\ before \in Seq(Digit) /\ after \in Seq(Digit) /\ before \o after = d
        /\ Len(after) = Len(d) - w
    BY <1>1, <2>1, PointBetween
  <2>4. Len(after) = e
    BY <1>1, <2>1, <2>3
  <2> HIDE DEF before, after
  <2>5. whole \in Nat /\ Value!Continued(whole, after) = n
    <3>1. 0 \in Nat
      OBVIOUS
    <3>2. whole \in Nat
      BY <2>3, <3>1, ContinuedType
    <3>3. Value!Continued(0, before \o after) = Value!Continued(Value!Continued(0, before), after)
      BY <2>3, <3>1, ContinuedConcat
    <3> QED BY <1>1, <2>3, <3>2, <3>3
  <2> HIDE DEF whole
  <2>6. Value!Zeros(0) = <<>> /\ Value!Zeros(e) \in Seq(Digit)
    BY ZerosAreDigits
  <2>7. CASE \E i \in DOMAIN after : after[i] # 0
    <3>1. Value!Read(Value!Shown(whole, after), e)
            = Value!Continued(whole, after \o Value!Zeros(0))
      <4>1. 0 \in Nat /\ 0 <= e /\ Len(after) = e - 0
        BY <2>4
      <4> QED BY <2>3, <2>5, <4>1, ReadOf
    <3>2. after \o <<>> = after
      BY <2>3, ConcatEmptySeq
    <3> QED BY <2>2, <2>5, <2>6, <2>7, <3>1, <3>2
  <2>8. CASE ~\E i \in DOMAIN after : after[i] # 0
    <3>1. f = <<>>
      BY <2>8
    <3>2. Value!Read(Value!Shown(whole, <<>>), e) = Value!Continued(whole, Value!Zeros(e))
      BY <2>5, ReadOfNone
    <3>4. after = Value!Zeros(e)
      <4>1. \A i \in 1..Len(after) : after[i] = 0
        BY <2>3, <2>8, LenProperties
      <4> QED BY <2>3, <2>4, <4>1, AllZeros
    <3> QED BY <2>2, <2>5, <3>1, <3>2, <3>4
  <2> QED BY <2>7, <2>8
<1> QED BY <1>2, <1>3, <1>4

LEMMA TrimmedZeros ==
  ASSUME NEW ds \in Seq(Digit), Len(ds) = 4
  PROVE  /\ Value!TrimZeros(ds) \in Seq(Digit) /\ Len(Value!TrimZeros(ds)) \in 0..4
         /\ Value!TrimZeros(ds) \o Value!Zeros(4 - Len(Value!TrimZeros(ds))) = ds
<1> DEFINE T == {0} \cup {i \in DOMAIN ds : ds[i] # 0}
           m == Value!Max(T)
<1>1. DOMAIN ds = 1..4
  BY LenProperties
<1>2. m \in T /\ \A y \in T : m >= y
  <2>1. \E x \in T : \A y \in T : x >= y
    <3>1. T \subseteq {0, 1, 2, 3, 4} /\ 0 \in T
      BY <1>1
    <3> HIDE DEF T
    <3>2. CASE 4 \in T
      <4>1. \A y \in T : 4 >= y
        BY <3>1
      <4> QED BY <3>2, <4>1
    <3>3. CASE 4 \notin T /\ 3 \in T
      <4>1. \A y \in T : 3 >= y
        BY <3>1, <3>3
      <4> QED BY <3>3, <4>1
    <3>4. CASE 4 \notin T /\ 3 \notin T /\ 2 \in T
      <4>1. \A y \in T : 2 >= y
        BY <3>1, <3>4
      <4> QED BY <3>4, <4>1
    <3>5. CASE 4 \notin T /\ 3 \notin T /\ 2 \notin T /\ 1 \in T
      <4>1. \A y \in T : 1 >= y
        BY <3>1, <3>5
      <4> QED BY <3>5, <4>1
    <3>6. CASE 4 \notin T /\ 3 \notin T /\ 2 \notin T /\ 1 \notin T
      <4>1. \A y \in T : 0 >= y
        BY <3>1, <3>6
      <4> QED BY <3>1, <4>1
    <3> QED BY <3>2, <3>3, <3>4, <3>5, <3>6
  <2> QED BY <2>1, Zenon DEF Value!Max
<1>3. m \in 0..4 /\ \A i \in (m + 1)..4 : ds[i] = 0
  <2> HIDE DEF m
  <2>1. m \in 0..4
    BY <1>1, <1>2
  <2>2. ASSUME NEW i \in (m + 1)..4 PROVE ds[i] = 0
    <3>1. i \in 1..4 /\ ~(m >= i)
      BY <2>1
    <3>2. i \notin T
      BY <1>2, <3>1
    <3> QED BY <1>1, <3>1, <3>2
  <2> QED BY <2>1, <2>2
<1>4. Value!TrimZeros(ds) = SubSeq(ds, 1, m)
  BY DEF Value!TrimZeros
<1> HIDE DEF m
<1> DEFINE before == SubSeq(ds, 1, m)
           after == SubSeq(ds, m + 1, 4)
<1>5. /\ before \in Seq(Digit) /\ after \in Seq(Digit) /\ before \o after = ds
      /\ Len(after) = 4 - m
  BY <1>3, PointBetween
<1>6. Len(before) = m
  <2>1. \A i \in 1..m : ds[i] \in Digit
    <3>1. \A i \in 1..m : i \in 1..4
      BY <1>3
    <3> QED BY <3>1, ElementOfSeq
  <2> QED BY <1>3, <2>1, SubSeqProperties
<1>7. after = Value!Zeros(4 - m)
  <2>1. \A i \in 1..Len(after) : after[i] = 0
    <3>1. \A i \in 1..(4 - m) : after[i] = ds[m + i]
      <4>1. m + 1 \in Int /\ \A i \in (m + 1)..4 : ds[i] \in Digit
        BY <1>3 DEF Digit
      <4>2. \A i \in 1..(4 - (m + 1) + 1) : after[i] = ds[(m + 1) + i - 1]
        BY <4>1, SubSeqProperties
      <4> QED BY <1>3, <4>2
    <3>2. \A i \in 1..(4 - m) : m + i \in (m + 1)..4
      BY <1>3
    <3> QED BY <1>3, <1>5, <3>1, <3>2
  <2>2. after = Value!Zeros(Len(after))
    BY <1>5, <2>1, AllZeros
  <2> QED BY <1>5, <2>2
<1> QED BY <1>3, <1>4, <1>5, <1>6, <1>7

\* A fee in millionths is read to the last of them.
LEMMA PercentReadBack ==
  ASSUME NEW n \in Nat
  PROVE  Value!Read(Value!ShowPercent(n), 4) = n
<1> DEFINE q == n \div 10000
           r == n % 10000
           ds == Value!Padded(r, 4)
           f == Value!TrimZeros(ds)
<1>1. q \in Nat /\ r \in Nat /\ r < 10000 /\ n = 10000 * q + r
  BY DivisionOf
<1>2. Value!ShowPercent(n) = Value!Shown(q, f)
  BY DEF Value!ShowPercent
<1> HIDE DEF q, r
<1>3. ds \in Seq(Digit) /\ Len(ds) = 4 /\ Value!Continued(0, ds) = r
  BY <1>1, PaddedToFour
<1> HIDE DEF ds
<1>4. f \in Seq(Digit) /\ Len(f) \in 0..4 /\ f \o Value!Zeros(4 - Len(f)) = ds
  <2>1. ds \in Seq(Digit) /\ Len(ds) = 4
    BY <1>3
  <2>2. /\ Value!TrimZeros(ds) \in Seq(Digit) /\ Len(Value!TrimZeros(ds)) \in 0..4
        /\ Value!TrimZeros(ds) \o Value!Zeros(4 - Len(Value!TrimZeros(ds))) = ds
    BY <2>1, TrimmedZeros
  <2> QED BY <2>2
<1> HIDE DEF f
<1>5. Value!Read(Value!Shown(q, f), 4) = Value!Continued(q, ds)
  <2> DEFINE fill == 4 - Len(f)
  <2>1. 4 \in Nat /\ fill \in Nat /\ fill <= 4 /\ Len(f) = 4 - fill /\ q \in Nat
    <3> DEFINE k == Len(f)
    <3>1. k \in 0..4
      BY <1>4
    <3> HIDE DEF k
    <3>2. 4 - k \in Nat /\ 4 - k <= 4 /\ k = 4 - (4 - k)
      BY <3>1
    <3> QED BY <1>1, <3>2 DEF k
  <2>2. f \o Value!Zeros(fill) = ds
    BY <1>4
  <2> HIDE DEF fill
  <2>3. Value!Read(Value!Shown(q, f), 4) = Value!Continued(q, f \o Value!Zeros(fill))
    BY <1>4, <2>1, ReadOf
  <2> QED BY <2>2, <2>3
<1>6. Value!Continued(q, ds) = q * 10000 + Value!Continued(0, ds)
  <2>1. q \in Nat /\ ds \in Seq(Digit) /\ Len(ds) = 4
    BY <1>1, <1>3
  <2> QED BY <2>1, FourAfter
<1>7. Value!Continued(q, ds) = n
  BY <1>1, <1>3, <1>6
<1> QED BY <1>2, <1>5, <1>7

-----------------------------------------------------------------------------
(* Durations.                                                              *)

Part(count, unit) == IF count > 0 THEN << <<count, unit>> >> ELSE <<>>

Parts == Seq(Nat \X Nat)

LEMMA DurationIsRun ==
  ASSUME NEW s \in Parts
  PROVE  Value!ReadDuration(s) = Run("duration", 0, s)
<1> DEFINE D == 1..Len(s)
           Raw(h) == [x \in SUBSET D |->
                        IF x = {} THEN 0
                        ELSE h[x \ {Greatest(x)}] + s[Greatest(x)][1] * s[Greatest(x)][2]]
<1>1. Len(s) \in Nat /\ DOMAIN s = D
  BY LenProperties DEF Parts
<1>2. Value!ReadDuration(s) = (CHOOSE h : h = Raw(h))[D]
  BY <1>1 DEF Value!ReadDuration, Value!FoldLeft, Value!MapThenFoldSet, Value!Max, Greatest
<1>3. \A h : h = Raw(h) <=> Folds(h, SUBSET D, "duration", 0, s)
  BY DEF Folds, Step
<1> HIDE DEF Raw
<1>4. (CHOOSE h : h = Raw(h)) = (CHOOSE h : Folds(h, SUBSET D, "duration", 0, s))
  BY <1>3
<1> QED BY <1>2, <1>4 DEF Run

\* A part counts its units, also where it is left out.
LEMMA OnePart ==
  ASSUME NEW base \in Nat, NEW count \in Nat, NEW unit \in Nat
  PROVE  /\ Part(count, unit) \in Parts
         /\ Run("duration", base, Part(count, unit)) = base + count * unit
<1> DEFINE p == <<count, unit>>
<1>1. p \in Nat \X Nat /\ p[1] = count /\ p[2] = unit
  OBVIOUS
<1>2. Step("duration", base, p) = base + count * unit
  BY <1>1 DEF Step
<1> HIDE DEF p
<1>3. CASE count > 0
  <2>1. <<>> \in Parts /\ <<p>> = Append(<<>>, p) /\ <<p>> \in Parts
    BY <1>1 DEF Parts
  <2>2. Run("duration", base, Append(<<>>, p)) = Step("duration", Run("duration", base, <<>>), p)
    BY <1>1, <2>1, RunOfOneMore DEF Parts
  <2>3. Part(count, unit) = <<p>>
    BY <1>3 DEF Part, p
  <2> QED BY <1>2, <2>1, <2>2, <2>3, RunOfNone
<1>4. CASE count = 0
  <2>1. Part(count, unit) = <<>> /\ <<>> \in Parts
    BY <1>4 DEF Part, Parts
  <2>2. base + count * unit = base
    BY <1>4
  <2> QED BY <2>1, <2>2, RunOfNone
<1> QED BY <1>3, <1>4

LEMMA OnePartMore ==
  ASSUME NEW s \in Parts, NEW total \in Nat, Run("duration", 0, s) = total,
         NEW count \in Nat, NEW unit \in Nat
  PROVE  /\ s \o Part(count, unit) \in Parts
         /\ Run("duration", 0, s \o Part(count, unit)) = total + count * unit
<1> DEFINE p == Part(count, unit)
<1>1. p \in Parts /\ Run("duration", total, p) = total + count * unit
  BY OnePart
<1> HIDE DEF p
<1>2. s \o p \in Parts /\ Run("duration", 0, s \o p) = Run("duration", Run("duration", 0, s), p)
  BY <1>1, ConcatProperties, RunOfConcat DEF Parts
<1>3. s \o p \in Parts /\ Run("duration", 0, s \o p) = total + count * unit
  BY <1>1, <1>2
<1> QED BY <1>3 DEF p

LEMMA DaysAndSeconds ==
  ASSUME NEW n \in Nat
  PROVE  /\ n \div 86400 \in Nat /\ (n % 86400) \div 3600 \in Nat
         /\ (n % 3600) \div 60 \in Nat /\ n % 60 \in Nat
         /\ (n \div 86400) * 86400 + ((n % 86400) \div 3600) * 3600
              + ((n % 3600) \div 60) * 60 + (n % 60) * 1 = n
<1> DEFINE a == n % 86400
           b == n % 3600
<1>1. /\ n \div 86400 \in Nat /\ a \in Nat /\ n = 86400 * (n \div 86400) + a
      /\ n \div 3600 \in Nat /\ b \in 0..3599 /\ n = 3600 * (n \div 3600) + b
      /\ n % 60 \in 0..59 /\ n \div 60 \in Nat /\ n = 60 * (n \div 60) + (n % 60)
  OBVIOUS
<1> HIDE DEF a, b
<1>2. a \div 3600 \in Nat /\ a % 3600 \in 0..3599 /\ a = 3600 * (a \div 3600) + (a % 3600)
  BY <1>1
<1>3. b \div 60 \in Nat /\ b % 60 \in 0..59 /\ b = 60 * (b \div 60) + (b % 60)
  BY <1>1
<1>4. a % 3600 = b
  <2> DEFINE e == a % 3600
             q == n \div 86400
             c == a \div 3600
             g == n \div 3600
  <2>1. /\ q \in Nat /\ c \in Nat /\ g \in Nat /\ e \in 0..3599 /\ b \in 0..3599
        /\ n = 86400 * q + a /\ a = 3600 * c + e /\ n = 3600 * g + b /\ a \in Nat
    BY <1>1, <1>2
  <2> HIDE DEF e, q, c, g
  <2> DEFINE z == 24 * q + c - g
  <2>2. 3600 * z = b - e /\ z \in Int
    BY <2>1
  <2> HIDE DEF z
  <2>3. z = 0 \/ z >= 1 \/ z <= 0 - 1
    BY <2>2
  <2>4. z = 0
    <3> SUFFICES ASSUME z >= 1 \/ z <= 0 - 1 PROVE FALSE
      BY <2>3
    <3>1. b - e \in Int /\ b - e < 3600 /\ b - e > 0 - 3600
      BY <2>1
    <3>2. 3600 * z >= 3600 \/ 3600 * z <= 0 - 3600
      BY <2>2
    <3> QED BY <2>2, <3>1, <3>2
  <2>5. e = b
    BY <2>1, <2>2, <2>4
  <2> QED BY <2>5 DEF e
<1>5. b % 60 = n % 60
  BY <1>1, <1>3
<1>6. /\ (n \div 86400) * 86400 + (a \div 3600) * 3600 + (b \div 60) * 60 + (n % 60) * 1 = n
  BY <1>1, <1>2, <1>3, <1>4, <1>5
<1> QED BY <1>1, <1>2, <1>3, <1>6 DEF a, b

\* A duration is read to the second, also one of no time.
LEMMA DurationReadBack ==
  ASSUME NEW n \in Nat
  PROVE  Value!ReadDuration(Value!ShowDuration(n)) = n
<1> DEFINE d == n \div 86400
           h == (n % 86400) \div 3600
           m == (n % 3600) \div 60
           s == n % 60
           upToHours == Part(d, 86400) \o Part(h, 3600)
           parts == upToHours \o Part(m, 60)
           last == IF parts = <<>> THEN << <<s, 1>> >> ELSE Part(s, 1)
<1>1. /\ d \in Nat /\ h \in Nat /\ m \in Nat /\ s \in Nat
      /\ d * 86400 + h * 3600 + m * 60 + s * 1 = n
  BY DaysAndSeconds
<1>2. Value!ShowDuration(n) = parts \o last
  BY DEF Value!ShowDuration, Part
<1> HIDE DEF d, h, m, s
<1>3. Part(d, 86400) \in Parts /\ Run("duration", 0, Part(d, 86400)) = d * 86400
  BY <1>1, OnePart
<1>4. upToHours \in Parts /\ Run("duration", 0, upToHours) = d * 86400 + h * 3600
  <2> DEFINE total == d * 86400
             hour == 3600
             days == Part(d, 86400)
  <2>1. /\ total \in Nat /\ hour \in Nat /\ h \in Nat
        /\ days \in Parts /\ Run("duration", 0, days) = total
    BY <1>1, <1>3
  <2> HIDE DEF total, hour, days
  <2>2. /\ days \o Part(h, hour) \in Parts
        /\ Run("duration", 0, days \o Part(h, hour)) = total + h * hour
    BY <2>1, OnePartMore
  <2> QED BY <2>2 DEF total, hour, days
<1>5. parts \in Parts /\ Run("duration", 0, parts) = d * 86400 + h * 3600 + m * 60
  <2> HIDE DEF upToHours
  <2>1. d * 86400 + h * 3600 \in Nat
    BY <1>1
  <2> QED BY <1>1, <1>4, <2>1, OnePartMore
<1> HIDE DEF parts
<1>6. CASE s > 0 \/ parts # <<>>
  <2>1. last = Part(s, 1)
    BY <1>6 DEF Part
  <2>2. d * 86400 + h * 3600 + m * 60 \in Nat
    BY <1>1
  <2>3. /\ parts \o Part(s, 1) \in Parts
        /\ Run("duration", 0, parts \o Part(s, 1)) = d * 86400 + h * 3600 + m * 60 + s * 1
    BY <1>1, <1>5, <2>2, OnePartMore
  <2> QED BY <1>1, <1>2, <2>1, <2>3, DurationIsRun
<1>7. CASE s = 0 /\ parts = <<>>
  <2> DEFINE p == <<s, 1>>
  <2>1. p \in Nat \X Nat /\ p[1] = 0 /\ p[2] = 1
    BY <1>7
  <2>2. last = <<p>>
    BY <1>7
  <2> HIDE DEF p
  <2>3. <<p>> \in Parts /\ parts \o last = Append(parts, p) /\ Append(parts, p) \in Parts
    <3>1. parts \o last = <<p>> /\ Append(parts, p) = <<p>>
      BY <1>7, <2>1, <2>2 DEF Parts
    <3> QED BY <2>1, <3>1 DEF Parts
  <2>4. Run("duration", 0, Append(parts, p)) = Step("duration", Run("duration", 0, parts), p)
    BY <1>5, <2>1, RunOfOneMore DEF Parts
  <2>5. Step("duration", 0, p) = 0
    BY <2>1 DEF Step
  <2>6. n = 0 /\ Run("duration", 0, parts) = 0
    <3>1. d * 86400 + h * 3600 + m * 60 = 0
      BY <1>5, <1>7, RunOfNone
    <3> QED BY <1>1, <1>5, <1>7, <3>1
  <2> QED BY <1>2, <2>3, <2>4, <2>5, <2>6, DurationIsRun
<1> QED BY <1>1, <1>6, <1>7

LEMMA WithinAWord ==
  ASSUME NEW n \in Nat, NEW w \in Nat \ {0}, n < w
  PROVE  n % w = n
OBVIOUS

\* Blocks are read for ten minutes each, as long as those fit in a word.
LEMMA BlocksReadBack ==
  ASSUME NEW n \in Nat, 600 * n < Word
  PROVE  Value!ReadDuration(Value!ShowBlocks(n).about) = 600 * Value!ShowBlocks(n).blocks
<1>1. 60 * 10 * n = 600 * n /\ 600 * n \in Nat /\ Word \in Nat \ {0}
  BY ConstantsAssumption
<1>2. (60 * 10 * n) % Word = 600 * n
  BY <1>1, WithinAWord
<1>3. Value!ShowBlocks(n).blocks = n /\ Value!ShowBlocks(n).about = Value!ShowDuration(600 * n)
  BY <1>2 DEF Value!ShowBlocks
<1> QED BY <1>1, <1>3, DurationReadBack

-----------------------------------------------------------------------------
(* Sequences made one from another, and of sequences one after another.    *)

\* A sequence is its first element and the rest.
LEMMA FirstOne ==
  ASSUME NEW S, NEW seq \in Seq(S), Len(seq) # 0
  PROVE  \E e \in S, t \in Seq(S) : /\ seq = <<e>> \o t /\ Len(t) = Len(seq) - 1
                                    /\ Len(t) \in Nat
<1> DEFINE n == Len(seq)
           t == SubSeq(seq, 2, n)
<1>1. n \in Nat \ {0}
  BY LenProperties
<1>2. 1 \in 1..n /\ n \in 1..n /\ seq[1] \in S
  BY <1>1, ElementOfSeq
<1>3. \A i \in 2..n : seq[i] \in S
  BY <1>1, ElementOfSeq
<1>4. t \in Seq(S) /\ Len(t) = IF 2 <= n THEN n - 2 + 1 ELSE 0
  BY <1>1, <1>3, SubSeqProperties
<1>5. Len(t) = n - 1 /\ Len(t) \in Nat
  <2> HIDE DEF n, t
  <2> QED BY <1>1, <1>4
<1>6. SubSeq(seq, 1, n) = <<seq[1]>> \o SubSeq(seq, 1 + 1, n) /\ SubSeq(seq, 1, n) = seq
  BY <1>2, SubSeqRecursiveFirst, SubSeqFull
<1>7. seq = <<seq[1]>> \o t
  BY <1>6
<1> QED BY <1>2, <1>4, <1>5, <1>7

IsMap(f, S, T) == f \in [S -> T]

Mapped(f, list) == [i \in DOMAIN list |-> f[list[i]]]

LEMMA MappedType ==
  ASSUME NEW S, NEW T, NEW f, IsMap(f, S, T), NEW list \in Seq(S)
  PROVE  /\ Mapped(f, list) \in Seq(T) /\ Len(Mapped(f, list)) = Len(list)
         /\ \A i \in 1..Len(list) : Mapped(f, list)[i] = f[list[i]]
<1>1. Len(list) \in Nat /\ DOMAIN list = 1..Len(list)
  BY LenProperties
<1>2. \A i \in 1..Len(list) : f[list[i]] \in T
  BY ElementOfSeq DEF IsMap
<1>3. Mapped(f, list) = [i \in 1..Len(list) |-> f[list[i]]]
  BY <1>1 DEF Mapped
<1>4. [i \in 1..Len(list) |-> f[list[i]]] \in Seq(T)
  BY <1>1, <1>2
<1>5. Len([i \in 1..Len(list) |-> f[list[i]]]) = Len(list)
  BY <1>1
<1> QED BY <1>3, <1>4, <1>5

LEMMA MappedConcat ==
  ASSUME NEW S, NEW T, NEW f, IsMap(f, S, T), NEW s \in Seq(S), NEW t \in Seq(S)
  PROVE  Mapped(f, s \o t) = Mapped(f, s) \o Mapped(f, t)
<1> DEFINE l == Mapped(f, s \o t)
           r == Mapped(f, s) \o Mapped(f, t)
<1>1. /\ s \o t \in Seq(S) /\ Len(s \o t) = Len(s) + Len(t)
      /\ \A i \in 1..Len(s) + Len(t) :
           (s \o t)[i] = IF i <= Len(s) THEN s[i] ELSE t[i - Len(s)]
  BY ConcatProperties
<1>2. /\ Mapped(f, s) \in Seq(T) /\ Len(Mapped(f, s)) = Len(s)
      /\ \A i \in 1..Len(s) : Mapped(f, s)[i] = f[s[i]]
  BY MappedType
<1>3. /\ Mapped(f, t) \in Seq(T) /\ Len(Mapped(f, t)) = Len(t)
      /\ \A i \in 1..Len(t) : Mapped(f, t)[i] = f[t[i]]
  BY MappedType
<1>4. /\ l \in Seq(T) /\ Len(l) = Len(s) + Len(t)
      /\ \A i \in 1..Len(s) + Len(t) : l[i] = f[(s \o t)[i]]
  <2> DEFINE u == s \o t
  <2>1. u \in Seq(S) /\ Len(u) = Len(s) + Len(t)
    BY <1>1
  <2> HIDE DEF u
  <2>2. /\ Mapped(f, u) \in Seq(T) /\ Len(Mapped(f, u)) = Len(u)
        /\ \A i \in 1..Len(u) : Mapped(f, u)[i] = f[u[i]]
    BY <2>1, MappedType
  <2> QED BY <2>1, <2>2 DEF u
<1>5. /\ r \in Seq(T) /\ Len(r) = Len(s) + Len(t)
      /\ \A i \in 1..Len(s) + Len(t) :
           r[i] = IF i <= Len(s) THEN Mapped(f, s)[i] ELSE Mapped(f, t)[i - Len(s)]
  <2> DEFINE x == Mapped(f, s)
             y == Mapped(f, t)
  <2>1. x \in Seq(T) /\ y \in Seq(T) /\ Len(x) = Len(s) /\ Len(y) = Len(t)
    BY <1>2, <1>3
  <2> HIDE DEF x, y
  <2>2. /\ x \o y \in Seq(T) /\ Len(x \o y) = Len(x) + Len(y)
        /\ \A i \in 1..Len(x) + Len(y) :
             (x \o y)[i] = IF i <= Len(x) THEN x[i] ELSE y[i - Len(x)]
    BY <2>1, ConcatProperties
  <2> QED BY <2>1, <2>2 DEF x, y
<1>6. Len(s) \in Nat /\ Len(t) \in Nat
  BY LenProperties
<1> HIDE DEF l, r
<1>7. ASSUME NEW i \in 1..Len(s) + Len(t) PROVE l[i] = r[i]
  <2>1. CASE i <= Len(s)
    <3>1. i \in 1..Len(s)
      BY <1>6, <2>1
    <3>2. l[i] = f[(s \o t)[i]] /\ (s \o t)[i] = s[i]
      BY <1>1, <1>4, <2>1
    <3>3. r[i] = Mapped(f, s)[i] /\ Mapped(f, s)[i] = f[s[i]]
      BY <1>2, <1>5, <2>1, <3>1
    <3> QED BY <3>2, <3>3
  <2>2. CASE ~(i <= Len(s))
    <3>1. i - Len(s) \in 1..Len(t)
      BY <1>6, <2>2
    <3>2. l[i] = f[(s \o t)[i]] /\ (s \o t)[i] = t[i - Len(s)]
      BY <1>1, <1>4, <2>2
    <3>3. r[i] = Mapped(f, t)[i - Len(s)] /\ Mapped(f, t)[i - Len(s)] = f[t[i - Len(s)]]
      BY <1>3, <1>5, <2>2, <3>1
    <3> QED BY <3>2, <3>3
  <2> QED BY <2>1, <2>2
<1>8. l = r
  BY <1>4, <1>5, <1>7, SeqEqual
<1> QED BY <1>8 DEF l, r

LEMMA MappedOne ==
  ASSUME NEW S, NEW T, NEW f, IsMap(f, S, T), NEW e \in S
  PROVE  Mapped(f, <<e>>) = <<f[e]>> /\ Mapped(f, <<>>) = <<>>
<1>1. Mapped(f, <<e>>) = <<f[e]>>
  BY DEF Mapped
<1>2. Mapped(f, <<>>) = <<>>
  BY DEF Mapped
<1> QED BY <1>1, <1>2

Flat(list) == Run("join", <<>>, list)

LEMMA FlatOfNone == Flat(<<>>) = <<>>
BY RunOfNone DEF Flat

LEMMA FlatOneMore ==
  ASSUME NEW S, NEW list \in Seq(Seq(S)), NEW s \in Seq(S)
  PROVE  Flat(Append(list, s)) = Flat(list) \o s
<1>1. Flat(Append(list, s)) = Step("join", Flat(list), s)
  BY RunOfOneMore DEF Flat
<1> QED BY <1>1 DEF Step

LEMMA FlatType ==
  ASSUME NEW S, NEW list \in Seq(Seq(S))
  PROVE  Flat(list) \in Seq(S)
<1> DEFINE Bad == {n \in Nat : \E u \in Seq(Seq(S)) : Len(u) = n /\ Flat(u) \notin Seq(S)}
<1> SUFFICES ASSUME Flat(list) \notin Seq(S) PROVE FALSE
  OBVIOUS
<1>1. Len(list) \in Bad
  BY LenProperties
<1>2. PICK n \in Bad : \A j \in Bad : n <= j
  <2>1. Bad \subseteq Nat /\ Bad # {}
    BY <1>1
  <2> QED BY <2>1, LeastNumber
<1>3. PICK u \in Seq(Seq(S)) : Len(u) = n /\ Flat(u) \notin Seq(S)
  BY <1>2
<1>4. n \in Nat
  BY <1>2
<1>5. CASE n = 0
  <2>1. u = <<>> /\ <<>> \in Seq(S)
    BY <1>3, <1>5, EmptySeq
  <2> QED BY <1>3, <2>1, FlatOfNone
<1>6. CASE n # 0
  <2>1. PICK v \in Seq(Seq(S)), e \in Seq(S) :
          u = Append(v, e) /\ Len(v) = n - 1 /\ Len(v) \in Nat
    BY <1>3, <1>6, LastOne
  <2>2. Len(v) \notin Bad
    BY <1>2, <1>4, <2>1
  <2>3. Flat(v) \in Seq(S)
    BY <2>1, <2>2
  <2>4. Flat(u) = Flat(v) \o e
    BY <2>1, FlatOneMore
  <2> QED BY <1>3, <2>3, <2>4, ConcatProperties
<1> QED BY <1>5, <1>6

LEMMA FlatConcat ==
  ASSUME NEW S, NEW s \in Seq(Seq(S)), NEW t \in Seq(Seq(S))
  PROVE  Flat(s \o t) = Flat(s) \o Flat(t)
<1> DEFINE Q == Seq(S)
           Fine(u) == Flat(s \o u) = Flat(s) \o Flat(u)
           Bad == {n \in Nat : \E u \in Seq(Q) : Len(u) = n /\ ~Fine(u)}
<1> SUFFICES ASSUME ~Fine(t) PROVE FALSE
  OBVIOUS
<1>1. s \in Seq(Q) /\ t \in Seq(Q)
  OBVIOUS
<1>2. \A u \in Seq(Q) : Flat(u) \in Q
  BY FlatType
<1>3. ASSUME NEW u \in Seq(Q), NEW e \in Q
      PROVE  Flat(Append(u, e)) = Flat(u) \o e
  BY FlatOneMore
<1>4. \A x, y, z \in Q : (x \o y) \o z = x \o (y \o z)
  <2> HIDE DEF Fine, Bad
  <2>1. \A x, y, z \in Seq(S) : (x \o y) \o z = x \o (y \o z)
    BY ConcatAssociative, SMTT(30)
  <2> QED BY <2>1
<1> HIDE DEF Q
<1>5. Len(t) \in Bad
  BY <1>1, LenProperties
<1>6. PICK n \in Bad : \A j \in Bad : n <= j
  <2>1. Bad \subseteq Nat /\ Bad # {}
    BY <1>5
  <2> QED BY <2>1, LeastNumber
<1>7. PICK u \in Seq(Q) : Len(u) = n /\ ~Fine(u)
  BY <1>6
<1>8. n \in Nat
  BY <1>6
<1>9. CASE n = 0
  <2>1. u = <<>>
    BY <1>7, <1>9, EmptySeq
  <2>2. s \o <<>> = s
    BY <1>1, ConcatEmptySeq
  <2>3. Flat(s) \o <<>> = Flat(s)
    BY <1>1, <1>2, ConcatEmptySeq
  <2> QED BY <1>7, <2>1, <2>2, <2>3, FlatOfNone
<1>10. CASE n # 0
  <2>1. PICK v \in Seq(Q), e \in Q : u = Append(v, e) /\ Len(v) = n - 1 /\ Len(v) \in Nat
    BY <1>7, <1>10, LastOne
  <2>2. Len(v) \notin Bad
    BY <1>6, <1>8, <2>1
  <2>3. Fine(v)
    BY <2>1, <2>2
  <2>4. s \o v \in Seq(Q)
    BY <1>1, ConcatProperties
  <2>5. s \o u = Append(s \o v, e)
    <3> HIDE DEF Fine, Bad
    <3>1. s \o Append(v, e) = Append(s \o v, e)
      BY <1>1, ConcatOneMore
    <3> QED BY <2>1, <3>1
  <2>6. Flat(s \o u) = Flat(s \o v) \o e /\ Flat(u) = Flat(v) \o e
    BY <1>3, <2>1, <2>4, <2>5
  <2>7. (Flat(s) \o Flat(v)) \o e = Flat(s) \o (Flat(v) \o e)
    <3>1. Flat(s) \in Q /\ Flat(v) \in Q
      BY <1>1, <1>2
    <3> HIDE DEF Fine, Bad
    <3> QED BY <1>4, <3>1
  <2> QED BY <1>7, <2>3, <2>6, <2>7
<1> QED BY <1>9, <1>10

LEMMA FlatCons ==
  ASSUME NEW S, NEW s \in Seq(S), NEW t \in Seq(Seq(S))
  PROVE  Flat(<<s>>) = s /\ Flat(<<s>> \o t) = s \o Flat(t)
<1>1. <<>> \in Seq(Seq(S)) /\ <<s>> \in Seq(Seq(S)) /\ Append(<<>>, s) = <<s>>
  OBVIOUS
<1>2. Flat(<<>>) = <<>> /\ Flat(Append(<<>>, s)) = Flat(<<>>) \o s
  BY <1>1, FlatOfNone, FlatOneMore
<1>3. <<>> \o s = s
  BY ConcatEmptySeq
<1>4. Flat(<<s>>) = s
  BY <1>1, <1>2, <1>3
<1>5. Flat(<<s>> \o t) = Flat(<<s>>) \o Flat(t)
  BY <1>1, FlatConcat
<1> QED BY <1>4, <1>5

\* The function that FlattenSeq defines.
Flattens(f, list) ==
  f = [i \in 1..Len(list) |-> IF i = 1 THEN list[i] ELSE f[i - 1] \o list[i]]

LEMMA FlattenIsFlat ==
  ASSUME NEW S, NEW list \in Seq(Seq(S)), Len(list) # 0, NEW f, Flattens(f, list)
  PROVE  f[Len(list)] = Flat(list)
<1>1. PICK h : OneByOne(h, Len(list), "join", <<>>, list) /\ Flat(list) = h[1..Len(list)]
  BY RunOneByOne DEF Flat
<1> DEFINE N == Len(list)
           Bad == {i \in Nat : i \in 1..N /\ f[i] # h[1..i]}
<1>2. N \in Nat \ {0}
  BY LenProperties
<1> HIDE DEF N
<1>3. \A i \in 1..N : h[1..i] = h[1..(i - 1)] \o list[i]
  BY <1>1 DEF OneByOne, Step, N
<1>4. h[1..0] = <<>>
  BY <1>1 DEF OneByOne
<1>5. \A i \in 1..N : f[i] = IF i = 1 THEN list[i] ELSE f[i - 1] \o list[i]
  BY DEF Flattens, N
<1>6. \A i \in 1..N : <<>> \o list[i] = list[i]
  BY ElementOfSeq, ConcatEmptySeq DEF N
<1>7. SUFFICES ASSUME f[N] # h[1..N] PROVE FALSE
  BY <1>1 DEF N
<1>8. N \in Bad
  BY <1>2, <1>7
<1>9. PICK i \in Bad : \A j \in Bad : i <= j
  <2>1. Bad \subseteq Nat /\ Bad # {}
    BY <1>8
  <2> QED BY <2>1, LeastNumber
<1>10. i \in Nat /\ i \in 1..N /\ f[i] # h[1..i]
  BY <1>9
<1>11. CASE i = 1
  <2>1. i - 1 = 0
    BY <1>11
  <2>2. h[1..i] = h[1..(i - 1)] \o list[i] /\ f[i] = list[i] /\ <<>> \o list[i] = list[i]
    BY <1>3, <1>5, <1>6, <1>10, <1>11
  <2> QED BY <1>4, <1>10, <2>1, <2>2
<1>12. CASE i # 1
  <2>1. i - 1 \in 1..N /\ i - 1 \in Nat /\ ~(i <= i - 1)
    BY <1>2, <1>10, <1>12
  <2>2. f[i - 1] = h[1..(i - 1)]
    BY <1>9, <2>1
  <2> QED BY <1>3, <1>5, <1>10, <1>12, <2>2
<1> QED BY <1>11, <1>12

LEMMA FlattenExists ==
  ASSUME NEW S, NEW list \in Seq(Seq(S))
  PROVE  \E f : Flattens(f, list)
<1>1. PICK h : OneByOne(h, Len(list), "join", <<>>, list)
  BY RunOneByOne
<1> DEFINE f == [i \in 1..Len(list) |-> h[1..i]]
           g == [i \in 1..Len(list) |-> IF i = 1 THEN list[i] ELSE f[i - 1] \o list[i]]
<1>2. Len(list) \in Nat
  BY LenProperties
<1>3. ASSUME NEW i \in 1..Len(list) PROVE f[i] = g[i]
  <2>1. h[1..i] = h[1..(i - 1)] \o list[i] /\ h[1..0] = <<>>
    BY <1>1 DEF OneByOne, Step
  <2>2. CASE i = 1
    <3>1. <<>> \o list[i] = list[i] /\ i - 1 = 0
      BY <2>2, ElementOfSeq, ConcatEmptySeq
    <3> QED BY <2>1, <2>2, <3>1
  <2>3. CASE i # 1
    <3>1. i - 1 \in 1..Len(list)
      BY <1>2, <2>3
    <3> QED BY <2>1, <2>3, <3>1
  <2> QED BY <2>2, <2>3
<1>4. f = g
  BY <1>3
<1> QED BY <1>4 DEF Flattens

LEMMA FlattenOf ==
  ASSUME NEW S, NEW list \in Seq(Seq(S))
  PROVE  Value!FlattenSeq(list) = Flat(list) /\ Cashu!FlattenSeq(list) = Flat(list)
<1> DEFINE f == CHOOSE h : Flattens(h, list)
<1>1. Flattens(f, list)
  BY FlattenExists
<1>2. CASE Len(list) = 0
  <2>1. list = <<>>
    BY <1>2, EmptySeq
  <2> QED BY <1>2, <2>1, FlatOfNone DEF Value!FlattenSeq, Cashu!FlattenSeq
<1>3. CASE Len(list) # 0
  <2>1. Value!FlattenSeq(list) = f[Len(list)] /\ Cashu!FlattenSeq(list) = f[Len(list)]
    BY <1>3 DEF Value!FlattenSeq, Cashu!FlattenSeq, Flattens
  <2> HIDE DEF f
  <2>2. f[Len(list)] = Flat(list)
    BY <1>1, <1>3, FlattenIsFlat
  <2> QED BY <2>1, <2>2
<1> QED BY <1>2, <1>3

\* A sequence whose elements are each put in a sequence of its own.
Single(S) == [e \in S |-> <<e>>]

LEMMA FlatOfSingles ==
  ASSUME NEW S, NEW list \in Seq(S)
  PROVE  Flat(Mapped(Single(S), list)) = list
<1> DEFINE Q == Seq(S)
           f == Single(S)
           Fine(u) == Flat(Mapped(f, u)) = u
           Bad == {n \in Nat : \E u \in Seq(S) : Len(u) = n /\ ~Fine(u)}
<1> SUFFICES ASSUME ~Fine(list) PROVE FALSE
  OBVIOUS
<1>1. IsMap(f, S, Q) /\ \A e \in S : f[e] = <<e>> /\ <<e>> \in Q
  BY DEF Single, IsMap
<1>2. ASSUME NEW x \in Q, NEW y \in Seq(Q)
      PROVE  Flat(<<x>> \o y) = x \o Flat(y)
  BY FlatCons
<1> HIDE DEF Q, f
<1>3. Len(list) \in Bad
  BY LenProperties
<1>4. PICK n \in Bad : \A j \in Bad : n <= j
  <2>1. Bad \subseteq Nat /\ Bad # {}
    BY <1>3
  <2> QED BY <2>1, LeastNumber
<1>5. PICK u \in Seq(S) : Len(u) = n /\ ~Fine(u)
  BY <1>4
<1>6. n \in Nat
  BY <1>4
<1>7. CASE n = 0
  <2>1. u = <<>> /\ Mapped(f, <<>>) = <<>>
    BY <1>5, <1>7, EmptySeq DEF Mapped
  <2> QED BY <1>5, <2>1, FlatOfNone
<1>8. CASE n # 0
  <2>1. PICK e \in S, v \in Seq(S) : u = <<e>> \o v /\ Len(v) = n - 1 /\ Len(v) \in Nat
    <3>1. Len(u) = n /\ Len(u) # 0
      BY <1>5, <1>8
    <3> HIDE DEF Fine, Bad
    <3> QED BY <3>1, FirstOne
  <2>2. Len(v) \notin Bad
    BY <1>4, <1>6, <2>1
  <2>3. Fine(v)
    BY <2>1, <2>2
  <2> DEFINE w == <<e>>
  <2>4. w \in Seq(S) /\ IsMap(f, S, Q)
    BY <1>1
  <2> HIDE DEF w
  <2>5. Mapped(f, w \o v) = Mapped(f, w) \o Mapped(f, v)
    <3> HIDE DEF Fine, Bad
    <3> QED BY <2>4, MappedConcat
  <2>6. Mapped(f, w) = << <<e>> >> /\ Mapped(f, v) \in Seq(Q) /\ <<e>> \in Q
    <3>1. Mapped(f, v) \in Seq(Q)
      BY <2>4, MappedType
    <3>2. Mapped(f, <<e>>) = <<f[e]>>
      BY <2>4, MappedOne
    <3> QED BY <1>1, <3>1, <3>2 DEF w
  <2> USE DEF w
  <2>7. Flat(Mapped(f, u)) = <<e>> \o Flat(Mapped(f, v))
    BY <1>2, <2>1, <2>5, <2>6
  <2> QED BY <1>5, <2>1, <2>3, <2>7
<1> QED BY <1>7, <1>8

\* A sequence after another, and the one before it.
LEMMA BothParts ==
  ASSUME NEW S, NEW s \in Seq(S), NEW t \in Seq(S)
  PROVE  /\ SubSeq(s \o t, 1, Len(s)) = s
         /\ SubSeq(s \o t, Len(s) + 1, Len(s \o t)) = t
<1> DEFINE u == s \o t
           n == Len(s)
           m == Len(t)
           a == SubSeq(u, 1, n)
           b == SubSeq(u, n + 1, n + m)
<1>1. /\ u \in Seq(S) /\ Len(u) = n + m
      /\ \A i \in 1..(n + m) : u[i] = IF i <= n THEN s[i] ELSE t[i - n]
  BY ConcatProperties
<1>2. n \in Nat /\ m \in Nat /\ \A i \in 1..(n + m) : u[i] \in S
  BY <1>1, LenProperties, ElementOfSeq
<1> HIDE DEF u, n, m
<1>3. n \in Int /\ n + 1 \in Int /\ n + m \in Int /\ 1 \in Int
  BY <1>2
<1>4. \A i \in 1..n : u[i] \in S
  BY <1>2
<1>5. a \in Seq(S) /\ Len(a) = (IF 1 <= n THEN n - 1 + 1 ELSE 0)
      /\ \A i \in 1..(n - 1 + 1) : a[i] = u[1 + i - 1]
  BY <1>3, <1>4, SubSeqProperties
<1>6. \A i \in (n + 1)..(n + m) : u[i] \in S
  BY <1>2
<1>7. b \in Seq(S) /\ Len(b) = (IF n + 1 <= n + m THEN (n + m) - (n + 1) + 1 ELSE 0)
      /\ \A i \in 1..((n + m) - (n + 1) + 1) : b[i] = u[(n + 1) + i - 1]
  BY <1>3, <1>6, SubSeqProperties
<1> HIDE DEF a, b
<1>8. Len(a) = n /\ Len(b) = m
  BY <1>2, <1>5, <1>7
<1>9. \A i \in 1..n : a[i] = s[i]
  <2> SUFFICES ASSUME NEW i \in 1..n PROVE a[i] = s[i]
    OBVIOUS
  <2>1. i \in 1..(n - 1 + 1) /\ 1 + i - 1 = i /\ i \in 1..(n + m) /\ i <= n
    BY <1>2
  <2> QED BY <1>1, <1>5, <2>1
<1>10. \A i \in 1..m : b[i] = t[i]
  <2> SUFFICES ASSUME NEW i \in 1..m PROVE b[i] = t[i]
    OBVIOUS
  <2>1. /\ i \in 1..((n + m) - (n + 1) + 1) /\ (n + 1) + i - 1 = n + i /\ n + i \in 1..(n + m)
        /\ ~(n + i <= n) /\ (n + i) - n = i
    BY <1>2
  <2>2. b[i] = u[n + i]
    BY <1>7, <2>1
  <2>3. u[n + i] = t[(n + i) - n]
    BY <1>1, <2>1
  <2> QED BY <2>1, <2>2, <2>3
<1>11. a = s
  <2>1. Len(s) = n
    BY DEF n
  <2> QED BY <1>5, <1>8, <1>9, <2>1, SeqEqual
<1>12. b = t
  <2>1. Len(t) = m
    BY DEF m
  <2> QED BY <1>7, <1>8, <1>10, <2>1, SeqEqual
<1> QED BY <1>1, <1>11, <1>12 DEF a, b, u, n

-----------------------------------------------------------------------------
(* Events: lines, and what comes of them through a stream.                 *)

Char   == {"x", "CR", "LF"}
Letter == {"x"}
Plain  == Seq(Letter)

\* A CR that is not on its own is before a LF.
LEMMA NoBareCR ==
  ASSUME NEW text \in Seq(Char), ~Value!HasBareCR(text), NEW i \in 1..Len(text), text[i] = "CR"
  PROVE  i # Len(text) /\ i + 1 \in 1..Len(text) /\ text[i + 1] = "LF"
<1>1. Len(text) \in Nat /\ DOMAIN text = 1..Len(text)
  BY LenProperties
<1>2. i # Len(text) /\ text[i + 1] = "LF"
  BY <1>1 DEF Value!HasBareCR
<1>3. Len(text) \in Nat /\ i # Len(text)
  BY <1>1, <1>2
<1>4. i + 1 \in 1..Len(text)
  <2> DEFINE n == Len(text)
  <2>1. n \in Nat /\ i \in 1..n /\ i # n
    BY <1>3
  <2> HIDE DEF n
  <2>2. i + 1 \in 1..n
    BY <2>1
  <2> QED BY <2>2 DEF n
<1> QED BY <1>2, <1>4

LEMMA PartIsPlain ==
  ASSUME NEW text \in Seq(Char), NEW n \in Int, \A i \in 1..n : text[i] = "x"
  PROVE  SubSeq(text, 1, n) \in Plain
<1>1. \A i \in 1..n : text[i] \in Letter
  BY DEF Letter
<1> QED BY <1>1, SubSeqProperties DEF Plain

LEMMA LastLineIsPlain ==
  ASSUME NEW text \in Seq(Char), ~Value!HasBareCR(text), ~Value!Contains(text, "LF")
  PROVE  text \in Plain
<1>1. \A i \in 1..Len(text) : text[i] # "LF"
  BY DEF Value!Contains
<1>2. ASSUME NEW i \in 1..Len(text) PROVE text[i] = "x"
  <2>1. text[i] \in {"x", "CR", "LF"}
    BY ElementOfSeq DEF Char
  <2>2. text[i] # "CR"
    BY <1>1, NoBareCR
  <2> QED BY <1>1, <2>1, <2>2
<1>3. SubSeq(text, 1, Len(text)) \in Plain
  BY <1>2, LenProperties, PartIsPlain
<1> QED BY <1>3, SubSeqFull

LEMMA LineFeedIn ==
  ASSUME NEW text \in Seq(Char), Value!Contains(text, "LF")
  PROVE  /\ LineFeed(text) \in 1..Len(text) /\ text[LineFeed(text)] = "LF"
         /\ \A i \in 1..Len(text) : text[i] = "LF" => LineFeed(text) <= i
<1> DEFINE at == {i \in DOMAIN text : text[i] = "LF"}
<1>1. Len(text) \in Nat /\ DOMAIN text = 1..Len(text)
  BY LenProperties
<1>2. at # {} /\ at \subseteq 1..Len(text)
  BY <1>1 DEF Value!Contains
<1>3. LineFeed(text) \in at /\ \A i \in at : LineFeed(text) <= i
  BY <1>1, <1>2, LeastIn DEF LineFeed
<1> QED BY <1>1, <1>3

LEMMA FirstLineIsPlain ==
  ASSUME NEW text \in Seq(Char), ~Value!HasBareCR(text), Value!Contains(text, "LF")
  PROVE  SubSeq(text, 1, LineEnd(text)) \in Plain
<1> DEFINE lf == LineFeed(text)
           end == LineEnd(text)
<1>1. /\ lf \in 1..Len(text) /\ text[lf] = "LF"
      /\ \A i \in 1..Len(text) : text[i] = "LF" => lf <= i
  BY LineFeedIn
<1>2. end = IF lf > 1 /\ text[lf - 1] = "CR" THEN lf - 2 ELSE lf - 1
  BY DEF LineEnd
<1>3. Len(text) \in Nat
  BY LenProperties
<1> HIDE DEF lf, end
<1>4. end \in Int /\ end <= lf - 1
  BY <1>1, <1>2, <1>3
<1>5. ASSUME NEW i \in 1..end PROVE text[i] = "x"
  <2>1. i \in 1..Len(text) /\ ~(lf <= i)
    BY <1>1, <1>3, <1>4
  <2>2. text[i] \in {"x", "CR", "LF"} /\ text[i] # "LF"
    BY <1>1, <2>1, ElementOfSeq DEF Char
  <2>3. text[i] # "CR"
    <3> SUFFICES ASSUME text[i] = "CR" PROVE FALSE
      OBVIOUS
    <3>1. i + 1 \in 1..Len(text) /\ text[i + 1] = "LF"
      BY <2>1, NoBareCR
    <3>2. lf <= i + 1
      BY <1>1, <3>1
    <3>3. lf - 1 = i /\ lf > 1
      BY <1>1, <1>3, <2>1, <3>2
    <3>4. end = lf - 2
      BY <1>2, <3>3
    <3> QED BY <1>1, <1>3, <3>3, <3>4
  <2> QED BY <2>2, <2>3
<1>6. SubSeq(text, 1, end) \in Plain
  BY <1>4, <1>5, PartIsPlain
<1> QED BY <1>6 DEF end

LEMMA RestHasNoBareCR ==
  ASSUME NEW text \in Seq(Char), ~Value!HasBareCR(text), Value!Contains(text, "LF")
  PROVE  LET rest == SubSeq(text, LineFeed(text) + 1, Len(text)) IN
         rest \in Seq(Char) /\ Len(rest) < Len(text) /\ ~Value!HasBareCR(rest)
<1> DEFINE lf == LineFeed(text)
           n == Len(text)
           rest == SubSeq(text, lf + 1, n)
<1>1. lf \in 1..n /\ n \in Nat
  BY LineFeedIn, LenProperties
<1>2. \A i \in 1..n : text[i] \in Char
  BY ElementOfSeq
<1> HIDE DEF lf
<1>3. \A i \in (lf + 1)..n : text[i] \in Char
  BY <1>1, <1>2
<1>4. /\ rest \in Seq(Char) /\ Len(rest) = (IF lf + 1 <= n THEN n - (lf + 1) + 1 ELSE 0)
      /\ \A i \in 1..(n - (lf + 1) + 1) : rest[i] = text[(lf + 1) + i - 1]
  BY <1>1, <1>3, SubSeqProperties
<1>5. Len(rest) = n - lf /\ Len(rest) < n
  <2> HIDE DEF rest, n
  <2> QED BY <1>1, <1>4
<1>6. DOMAIN rest = 1..(n - lf)
  BY <1>4, <1>5, LenProperties
<1>7. ASSUME NEW i \in 1..(n - lf)
      PROVE  rest[i] = text[lf + i] /\ lf + i \in 1..n
  <2>1. i \in 1..(n - (lf + 1) + 1) /\ (lf + 1) + i - 1 = lf + i /\ lf + i \in 1..n
    BY <1>1
  <2> QED BY <1>4, <2>1
<1> HIDE DEF rest
<1>8. ASSUME NEW i \in 1..(n - lf), rest[i] = "CR"
      PROVE  i # Len(rest) /\ rest[i + 1] = "LF"
  <2>1. lf + i \in 1..n /\ text[lf + i] = "CR"
    BY <1>7, <1>8
  <2>2. lf + i # n /\ (lf + i) + 1 \in 1..n /\ text[(lf + i) + 1] = "LF"
    BY <2>1, NoBareCR
  <2>3. i # n - lf /\ i + 1 \in 1..(n - lf) /\ lf + (i + 1) = (lf + i) + 1
    <3> HIDE DEF n
    <3> QED BY <1>1, <2>2
  <2>4. rest[i + 1] = text[lf + (i + 1)]
    BY <1>7, <2>3
  <2> QED BY <1>5, <2>2, <2>3, <2>4
<1>9. ~Value!HasBareCR(rest)
  BY <1>6, <1>8 DEF Value!HasBareCR
<1> QED BY <1>4, <1>5, <1>9 DEF rest, lf

\* Without a CR on its own, no line has one.
LEMMA LinesArePlain ==
  ASSUME NEW text \in Seq(Char), ~Value!HasBareCR(text)
  PROVE  Value!Lines[text] \in Seq(Plain)
<1> DEFINE Fine(u) == Value!Lines[u] \in Seq(Plain)
           Bad == {n \in Nat : \E u \in Seq(Char) :
                                 Len(u) = n /\ ~Value!HasBareCR(u) /\ ~Fine(u)}
<1> SUFFICES ASSUME ~Fine(text) PROVE FALSE
  OBVIOUS
<1>1. Len(text) \in Bad
  BY LenProperties
<1>2. PICK n \in Bad : \A j \in Bad : n <= j
  <2>1. Bad \subseteq Nat /\ Bad # {}
    BY <1>1
  <2> QED BY <2>1, LeastNumber
<1>3. PICK u \in Seq(Char) : Len(u) = n /\ ~Value!HasBareCR(u) /\ ~Fine(u)
  BY <1>2
<1> DEFINE rest == SubSeq(u, LineFeed(u) + 1, Len(u))
           first == SubSeq(u, 1, LineEnd(u))
<1>4. n \in Nat
  BY <1>2
<1>5. Value!Lines[u] = IF u = <<>> THEN <<>>
                       ELSE IF ~Value!Contains(u, "LF") THEN <<u>>
                       ELSE <<first>> \o Value!Lines[rest]
  BY LinesOf DEF Char
<1>6. CASE u = <<>>
  <2>1. <<>> \in Seq(Plain)
    BY EmptySeq
  <2> QED BY <1>3, <1>5, <1>6, <2>1
<1>7. CASE u # <<>> /\ ~Value!Contains(u, "LF")
  <2>1. u \in Plain
    BY <1>3, <1>7, LastLineIsPlain
  <2>2. <<u>> \in Seq(Plain)
    BY <2>1
  <2> QED BY <1>3, <1>5, <1>7, <2>2
<1>8. CASE u # <<>> /\ Value!Contains(u, "LF")
  <2>1. rest \in Seq(Char) /\ Len(rest) < Len(u) /\ ~Value!HasBareCR(rest)
    BY <1>3, <1>8, RestHasNoBareCR
  <2>2. first \in Plain
    BY <1>3, <1>8, FirstLineIsPlain
  <2> HIDE DEF rest, first
  <2>3. Len(rest) \in Nat /\ Len(rest) < n
    BY <1>3, <2>1, LenProperties
  <2>4. Len(rest) \notin Bad
    BY <1>2, <1>4, <2>3
  <2>5. Value!Lines[rest] \in Seq(Plain)
    BY <2>1, <2>3, <2>4
  <2>6. <<first>> \in Seq(Plain)
    BY <2>2
  <2>7. <<first>> \o Value!Lines[rest] \in Seq(Plain)
    BY <2>5, <2>6, ConcatProperties
  <2> QED BY <1>3, <1>5, <1>8, <2>7
<1> QED BY <1>6, <1>7, <1>8

StreamChar == {"x", "CR", "LF", "data: "}
Field      == {"x", "data: "}

\* A line as it is sent, and as it arrives.
Sent     == [l \in Plain |-> <<"data: ">> \o l \o <<"LF">>]
Received == [l \in Plain |-> <<"data: ">> \o l]

LEMMA Wider ==
  ASSUME NEW S, NEW T, S \subseteq T, NEW s \in Seq(S)
  PROVE  s \in Seq(T)
BY SeqMonotonic

LEMMA Characters ==
  /\ Letter \subseteq Field /\ Field \subseteq StreamChar
  /\ <<"data: ">> \in Seq(Field) /\ Len(<<"data: ">>) = 1 /\ Head(<<"data: ">>) = "data: "
  /\ <<"LF">> \in Seq(StreamChar) /\ Len(<<"LF">>) = 1 /\ <<"LF">>[1] = "LF"
BY DEF Letter, Field, StreamChar

LEMMA SentAndReceived ==
  ASSUME NEW l \in Plain
  PROVE  /\ Received[l] \in Seq(Field) /\ Len(Received[l]) = Len(l) + 1
         /\ Sent[l] = Received[l] \o <<"LF">> /\ Sent[l] \in Seq(StreamChar)
<1> DEFINE name == <<"data: ">>
           lf == <<"LF">>
           r == name \o l
<1>1. /\ Letter \subseteq Field /\ Field \subseteq StreamChar
      /\ name \in Seq(Field) /\ Len(name) = 1 /\ lf \in Seq(StreamChar)
  BY Characters
<1>2. l \in Seq(Letter) /\ Len(l) \in Nat
  BY LenProperties DEF Plain
<1>3. Received[l] = r /\ Sent[l] = r \o lf
  BY DEF Received, Sent
<1> HIDE DEF name, lf
<1>4. l \in Seq(Field)
  BY <1>1, <1>2, Wider
<1>5. r \in Seq(Field) /\ Len(r) = Len(name) + Len(l)
  BY <1>1, <1>4, ConcatProperties
<1>6. Len(r) = Len(l) + 1
  BY <1>1, <1>2, <1>5
<1> HIDE DEF r
<1>7. r \in Seq(StreamChar)
  BY <1>1, <1>5, Wider
<1>8. r \o lf \in Seq(StreamChar)
  BY <1>1, <1>7, ConcatProperties
<1> QED BY <1>3, <1>5, <1>6, <1>8 DEF lf

\* The first line of a stream.
LEMMA FirstOfStream ==
  ASSUME NEW u \in Seq(StreamChar), NEW n \in Nat, n + 1 <= Len(u), u[n + 1] = "LF",
         \A i \in 1..n : u[i] \notin {"CR", "LF"}
  PROVE  Value!StreamLines[u] =
           <<SubSeq(u, 1, n)>> \o Value!StreamLines[SubSeq(u, (n + 1) + 1, Len(u))]
<1> DEFINE at == {i \in DOMAIN u : u[i] \in {"CR", "LF"}}
<1>1. Len(u) \in Nat /\ DOMAIN u = 1..Len(u)
  BY LenProperties
<1>2. n + 1 \in 1..Len(u)
  BY <1>1
<1>3. at # {} /\ at \subseteq 1..Len(u) /\ n + 1 \in at
  BY <1>1, <1>2
<1>4. \A i \in at : i \notin 1..n
  OBVIOUS
<1>5. StreamEnd(u) \in at /\ \A i \in at : StreamEnd(u) <= i
  <2> HIDE DEF at
  <2>1. Value!Min(at) \in at /\ \A y \in at : Value!Min(at) <= y
    BY <1>1, <1>3, LeastIn
  <2> QED BY <2>1 DEF StreamEnd, at
<1> HIDE DEF at
<1>6. StreamEnd(u) = n + 1
  <2> DEFINE e == StreamEnd(u)
             k == Len(u)
  <2>1. e \in 1..k /\ e \notin 1..n /\ e <= n + 1 /\ k \in Nat
    BY <1>1, <1>3, <1>4, <1>5
  <2> HIDE DEF e, k
  <2>2. e = n + 1
    BY <2>1
  <2> QED BY <2>2 DEF e
<1>7. StreamSkip(u) = 1
  BY <1>6 DEF StreamSkip
<1>8. Value!StreamLines[u] =
        IF at = {} THEN <<>>
        ELSE <<SubSeq(u, 1, StreamEnd(u) - 1)>>
               \o Value!StreamLines[SubSeq(u, StreamEnd(u) + StreamSkip(u), Len(u))]
  BY StreamOf DEF StreamChar, at
<1>9. n + 1 - 1 = n
  OBVIOUS
<1> QED BY <1>3, <1>6, <1>7, <1>8, <1>9

LEMMA StreamOfLine ==
  ASSUME NEW d \in Seq(Field), NEW s \in Seq(StreamChar)
  PROVE  Value!StreamLines[(d \o <<"LF">>) \o s] = <<d>> \o Value!StreamLines[s]
<1> DEFINE lf == <<"LF">>
           n == Len(d)
           b == d \o lf
           t == lf \o s
           u == d \o t
<1>1. lf \in Seq(StreamChar) /\ Len(lf) = 1 /\ lf[1] = "LF" /\ d \in Seq(StreamChar)
  BY Characters, Wider
<1> HIDE DEF lf
<1>2. t \in Seq(StreamChar) /\ Len(t) = Len(lf) + Len(s)
      /\ \A i \in 1..(Len(lf) + Len(s)) : t[i] = IF i <= Len(lf) THEN lf[i] ELSE s[i - Len(lf)]
  BY <1>1, ConcatProperties
<1>3. b \in Seq(StreamChar) /\ Len(b) = n + Len(lf) /\ b \o s = u
  <2>1. b \in Seq(StreamChar) /\ Len(b) = n + Len(lf)
    BY <1>1, ConcatProperties
  <2>2. (d \o lf) \o s = d \o (lf \o s)
    BY <1>1, ConcatAssociative
  <2> QED BY <2>1, <2>2
<1>4. n \in Nat /\ Len(s) \in Nat
  BY LenProperties
<1>5. t[1] = "LF" /\ Len(t) = 1 + Len(s) /\ Len(b) = n + 1
  <2>1. 1 \in 1..(1 + Len(s)) /\ 1 <= 1
    BY <1>4
  <2>2. t[1] = lf[1]
    BY <1>1, <1>2, <2>1
  <2> QED BY <1>1, <1>2, <1>3, <2>2
<1> HIDE DEF t, b
<1>6. u \in Seq(StreamChar) /\ Len(u) = n + Len(t)
      /\ \A i \in 1..(n + Len(t)) : u[i] = IF i <= n THEN d[i] ELSE t[i - n]
  <2>1. d \in Seq(StreamChar) /\ t \in Seq(StreamChar)
    BY <1>1, <1>2
  <2>2. d \o t \in Seq(StreamChar) /\ Len(d \o t) = Len(d) + Len(t)
    BY <2>1, ConcatProperties
  <2>3. \A i \in 1..(Len(d) + Len(t)) :
          (d \o t)[i] = IF i <= Len(d) THEN d[i] ELSE t[i - Len(d)]
    BY <2>1, ConcatProperties
  <2> QED BY <2>2, <2>3
<1> HIDE DEF n
<1>7. n + 1 <= Len(u) /\ n + 1 \in 1..(n + Len(t)) /\ ~(n + 1 <= n) /\ (n + 1) - n = 1
  <2> HIDE DEF u
  <2> QED BY <1>4, <1>5, <1>6
<1>8. u[n + 1] = "LF"
  BY <1>5, <1>6, <1>7
<1>9. \A i \in 1..n : u[i] \notin {"CR", "LF"}
  <2> SUFFICES ASSUME NEW i \in 1..n PROVE u[i] \notin {"CR", "LF"}
    OBVIOUS
  <2>1. i \in 1..(n + Len(t)) /\ i <= n
    <3> HIDE DEF u
    <3>1. Len(t) \in Nat
      BY <1>4, <1>5
    <3> QED BY <1>4, <3>1
  <2>2. u[i] = d[i]
    BY <1>6, <2>1
  <2>3. d[i] \in Field
    BY ElementOfSeq DEF n
  <2> QED BY <2>2, <2>3 DEF Field
<1> HIDE DEF u
<1>10. Value!StreamLines[u] =
         <<SubSeq(u, 1, n)>> \o Value!StreamLines[SubSeq(u, (n + 1) + 1, Len(u))]
  BY <1>4, <1>6, <1>7, <1>8, <1>9, FirstOfStream
<1>11. SubSeq(u, 1, n) = d
  BY <1>1, <1>2, BothParts DEF u, n
<1>12. SubSeq(b \o s, Len(b) + 1, Len(b \o s)) = s
  BY <1>3, BothParts
<1> QED BY <1>3, <1>5, <1>10, <1>11, <1>12 DEF b, lf

LEMMA StreamOfNone == Value!StreamLines[<<>>] = <<>>
<1>1. <<>> \in Seq({"x", "CR", "LF", "data: "}) /\ {i \in DOMAIN <<>> : <<>>[i] \in {"CR", "LF"}} = {}
  OBVIOUS
<1> QED BY <1>1, StreamOf

\* The lines that are sent arrive.
LEMMA StreamOfLines ==
  ASSUME NEW lines \in Seq(Plain)
  PROVE  /\ Flat(Mapped(Sent, lines)) \in Seq(StreamChar)
         /\ Value!StreamLines[Flat(Mapped(Sent, lines))] = Mapped(Received, lines)
<1> DEFINE Q == Seq(StreamChar)
           Fine(u) == /\ Flat(Mapped(Sent, u)) \in Q
                      /\ Value!StreamLines[Flat(Mapped(Sent, u))] = Mapped(Received, u)
           Bad == {n \in Nat : \E u \in Seq(Plain) : Len(u) = n /\ ~Fine(u)}
<1> SUFFICES ASSUME ~Fine(lines) PROVE FALSE
  OBVIOUS
<1>1. IsMap(Sent, Plain, Q)
  <2>1. \A l \in Plain : Sent[l] \in Q
    BY SentAndReceived
  <2>2. Sent = [l \in Plain |-> Sent[l]]
    BY DEF Sent
  <2> QED BY <2>1, <2>2 DEF IsMap
<1>2. \E R : IsMap(Received, Plain, R)
  <2>1. Received \in [Plain -> Range(Received)]
    BY DEF Received, Range
  <2> QED BY <2>1 DEF IsMap
<1>3. \A s \in Seq(Q) : Flat(s) \in Q
  BY FlatType
<1>4. ASSUME NEW x \in Q, NEW y \in Seq(Q)
      PROVE  Flat(<<x>> \o y) = x \o Flat(y)
  BY FlatCons
<1>5. ASSUME NEW l \in Plain, NEW s \in Q
      PROVE  /\ Value!StreamLines[Sent[l] \o s] = <<Received[l]>> \o Value!StreamLines[s]
             /\ Sent[l] \o s \in Q /\ Sent[l] \in Q
  <2>1. Received[l] \in Seq(Field) /\ Sent[l] = Received[l] \o <<"LF">> /\ Sent[l] \in Q
    BY SentAndReceived
  <2>2. Value!StreamLines[(Received[l] \o <<"LF">>) \o s]
          = <<Received[l]>> \o Value!StreamLines[s]
    BY <2>1, StreamOfLine
  <2> QED BY <2>1, <2>2, ConcatProperties
<1>6. <<>> \in Q
  BY EmptySeq
<1> HIDE DEF Q
<1>7. Len(lines) \in Bad
  BY LenProperties
<1>8. PICK n \in Bad : \A j \in Bad : n <= j
  <2>1. Bad \subseteq Nat /\ Bad # {}
    BY <1>7
  <2> QED BY <2>1, LeastNumber
<1>9. PICK u \in Seq(Plain) : Len(u) = n /\ ~Fine(u)
  BY <1>8
<1>10. n \in Nat
  BY <1>8
<1>11. CASE n = 0
  <2>1. u = <<>> /\ Mapped(Sent, <<>>) = <<>> /\ Mapped(Received, <<>>) = <<>>
    BY <1>9, <1>11, EmptySeq DEF Mapped
  <2> QED BY <1>6, <1>9, <2>1, FlatOfNone, StreamOfNone
<1>12. CASE n # 0
  <2>1. PICK l \in Plain, v \in Seq(Plain) : u = <<l>> \o v /\ Len(v) = n - 1 /\ Len(v) \in Nat
    <3>1. Len(u) = n /\ Len(u) # 0
      BY <1>9, <1>12
    <3> HIDE DEF Fine, Bad
    <3> QED BY <3>1, FirstOne
  <2>2. Len(v) \notin Bad
    BY <1>8, <1>10, <2>1
  <2>3. Fine(v)
    BY <2>1, <2>2
  <2> DEFINE w == <<l>>
             rest == Mapped(Sent, v)
             s == Flat(rest)
  <2>4. w \in Seq(Plain)
    OBVIOUS
  <2>5. PICK R : IsMap(Received, Plain, R)
    BY <1>2
  <2>6. rest \in Seq(Q) /\ Mapped(Sent, w) = <<Sent[l]>> /\ Mapped(Received, w) = <<Received[l]>>
    BY <1>1, <2>5, MappedType, MappedOne
  <2> HIDE DEF w
  <2>7. Mapped(Sent, w \o v) = Mapped(Sent, w) \o rest
    BY <1>1, <2>1, <2>4, MappedConcat
  <2>8. Mapped(Received, w \o v) = Mapped(Received, w) \o Mapped(Received, v)
    BY <2>1, <2>4, <2>5, MappedConcat
  <2> HIDE DEF rest
  <2>9. s \in Q
    BY <1>3, <2>6
  <2>10. Sent[l] \in Q
    BY <1>5, <2>9
  <2>11. Flat(<<Sent[l]>> \o rest) = Sent[l] \o s
    BY <1>4, <2>6, <2>10
  <2>12. u = w \o v
    BY <2>1 DEF w
  <2>13. Flat(Mapped(Sent, u)) = Sent[l] \o s
    BY <2>6, <2>7, <2>11, <2>12
  <2>14. Value!StreamLines[s] = Mapped(Received, v)
    BY <2>3 DEF rest
  <2>15. Value!StreamLines[Sent[l] \o s] = <<Received[l]>> \o Mapped(Received, v)
    BY <1>5, <2>9, <2>14
  <2>16. Sent[l] \o s \in Q
    BY <1>5, <2>9
  <2> QED BY <1>9, <2>6, <2>8, <2>12, <2>13, <2>15, <2>16
<1> QED BY <1>11, <1>12

LEMMA NameIsTaken ==
  ASSUME NEW l \in Plain
  PROVE  /\ Received[l] # <<>> /\ Head(Received[l]) = "data: " /\ Tail(Received[l]) = l
<1> DEFINE name == <<"data: ">>
           r == name \o l
<1>1. r = Received[l] /\ r \in Seq(Field) /\ Len(r) = Len(l) + 1 /\ Len(l) \in Nat
  BY SentAndReceived, LenProperties DEF Received, Plain
<1>2. name \in Seq(Field) /\ Len(name) = 1 /\ l \in Seq(Field) /\ name[1] = "data: "
  BY Characters, Wider DEF Plain
<1>3. Len(name) = 1
  BY <1>2
<1>4. Len(l) \in Nat
  BY <1>1
<1> HIDE DEF name
<1>5. 1 \in 1..(Len(name) + Len(l)) /\ 1 <= Len(name) /\ Len(name) + 1 = 2
  <2> DEFINE k == Len(name)
             m == Len(l)
  <2>1. k = 1 /\ m \in Nat
    BY <1>3, <1>4
  <2> HIDE DEF k, m
  <2>2. 1 \in 1..(k + m) /\ 1 <= k /\ k + 1 = 2
    BY <2>1
  <2> QED BY <2>2 DEF k, m
<1>6. r[1] = name[1]
  <2>1. \A i \in 1..(Len(name) + Len(l)) : r[i] = IF i <= Len(name) THEN name[i] ELSE l[i - Len(name)]
    BY <1>2, ConcatProperties
  <2> QED BY <1>5, <2>1
<1>7. SubSeq(r, 2, Len(r)) = l
  <2>1. SubSeq(name \o l, Len(name) + 1, Len(name \o l)) = l
    BY <1>2, BothParts
  <2> QED BY <1>5, <2>1
<1> HIDE DEF r
<1>8. r # <<>>
  <2>1. Len(r) # 0
    BY <1>1
  <2> QED BY <2>1, EmptySeq
<1>9. Tail(r) = SubSeq(r, 2, Len(r)) /\ Head(r) = r[1]
  BY <1>1, <1>8, TailIsSubSeq
<1>10. r # <<>> /\ Head(r) = "data: " /\ Tail(r) = l
  BY <1>2, <1>6, <1>7, <1>8, <1>9
<1> QED BY <1>1, <1>10

\* An event is read line by line, as long as no CR is on its own.
LEMMA EventReadBack ==
  ASSUME NEW text \in Seq(Char), ~Value!HasBareCR(text)
  PROVE  Value!ReadEvent(Value!ShowEvent(text)) = Value!Lines[text]
<1> DEFINE lines == Value!Lines[text]
           sent == Mapped(Sent, lines)
           received == Mapped(Received, lines)
           Data(l) == IF l # <<>> /\ Head(l) = "data: " THEN <<Tail(l)>> ELSE <<>>
           data == [i \in DOMAIN received |-> Data(received[i])]
           single == Mapped(Single(Plain), lines)
<1>1. lines \in Seq(Plain)
  BY LinesArePlain
<1> HIDE DEF lines
<1>2. DOMAIN lines = 1..Len(lines) /\ \A i \in DOMAIN lines : lines[i] \in Plain
  BY <1>1, LenProperties, ElementOfSeq
<1>3. Value!ShowEvent(text) = Value!FlattenSeq(sent)
  <2>1. sent = [i \in DOMAIN lines |-> <<"data: ">> \o lines[i] \o <<"LF">>]
    BY <1>2 DEF Mapped, Sent
  <2> QED BY <2>1 DEF Value!ShowEvent, lines
<1>4. sent \in Seq(Seq(StreamChar))
  <2> DEFINE Q == Seq(StreamChar)
  <2>1. \A l \in Plain : Sent[l] \in Q
    BY SentAndReceived
  <2>2. Sent = [l \in Plain |-> Sent[l]]
    BY DEF Sent
  <2>3. IsMap(Sent, Plain, Q)
    BY <2>1, <2>2 DEF IsMap
  <2> HIDE DEF Q
  <2>4. sent \in Seq(Q)
    BY <1>1, <2>3, MappedType
  <2> QED BY <2>4 DEF Q
<1>5. Value!ShowEvent(text) = Flat(sent)
  <2> HIDE DEF sent
  <2> QED BY <1>3, <1>4, FlattenOf
<1>6. Value!StreamLines[Value!ShowEvent(text)] = received
  BY <1>1, <1>5, StreamOfLines
<1>7. data = single
  <2>1. DOMAIN received = DOMAIN lines /\ DOMAIN single = DOMAIN lines
    BY DEF Mapped
  <2>2. ASSUME NEW i \in DOMAIN lines PROVE Data(received[i]) = single[i]
    <3>1. received[i] = Received[lines[i]] /\ single[i] = Single(Plain)[lines[i]]
      BY DEF Mapped
    <3>2. lines[i] \in Plain
      BY <1>2
    <3>3. /\ Received[lines[i]] # <<>> /\ Head(Received[lines[i]]) = "data: "
          /\ Tail(Received[lines[i]]) = lines[i]
      BY <3>2, NameIsTaken
    <3>4. Data(received[i]) = <<lines[i]>>
      BY <3>1, <3>3
    <3>5. single[i] = <<lines[i]>>
      BY <3>1, <3>2 DEF Single
    <3> QED BY <3>4, <3>5
  <2>3. single = [i \in DOMAIN lines |-> single[i]]
    BY DEF Mapped
  <2> QED BY <2>1, <2>2, <2>3
<1>8. Value!ReadEvent(Value!ShowEvent(text)) = Value!FlattenSeq(data)
  BY <1>6 DEF Value!ReadEvent
<1>9. Flat(single) = lines
  BY <1>1, FlatOfSingles
<1>10. single \in Seq(Seq(Plain))
  <2> DEFINE Q == Seq(Plain)
             f == Single(Plain)
  <2>1. IsMap(f, Plain, Q)
    BY DEF IsMap, Single
  <2> HIDE DEF Q, f
  <2>2. Mapped(f, lines) \in Seq(Q)
    BY <1>1, <2>1, MappedType
  <2> QED BY <2>2 DEF Q, f
<1>11. Value!FlattenSeq(single) = Flat(single)
  <2> HIDE DEF single
  <2> QED BY <1>10, FlattenOf
<1> QED BY <1>7, <1>8, <1>9, <1>11 DEF lines

-----------------------------------------------------------------------------
(* Values.                                                                 *)

FmtInv == called = "fmt" => input \in Value!Item /\ output \in {None, Value!Show(input)}

LEMMA FmtInvariant == Spec => []FmtInv
<1>1. Init => FmtInv
  BY DEF Init, Call, FmtInv
<1>2. FmtInv /\ [Next]_vars => FmtInv'
  <2> SUFFICES ASSUME FmtInv, [Next]_vars PROVE FmtInv'
    OBVIOUS
  <2>1. CASE Fmt
    BY <2>1 DEF Fmt, Return, FmtInv
  <2>2. CASE Decode \/ ParseUri \/ ParseRequest \/ TryFromParts
    <3>1. called' # "fmt"
      BY <2>2 DEF Decode, ParseUri, ParseRequest, TryFromParts, Return
    <3> QED BY <3>1 DEF FmtInv
  <2>3. CASE UNCHANGED vars
    BY <2>3 DEF vars, FmtInv
  <2> QED BY <2>1, <2>2, <2>3 DEF Next
<1> QED BY <1>1, <1>2, PTL DEF Spec

LEMMA ItemIsReadBack ==
  ASSUME NEW item \in Value!Item
  PROVE  Value!IsReadBack(item, Value!Show(item))
<1>1. /\ Amounts \subseteq Nat /\ Exponents \subseteq Nat /\ Bounds \subseteq Nat
      /\ Ppm \subseteq Nat /\ Seconds \subseteq Nat /\ Blocks \subseteq Nat
      /\ Texts \subseteq Seq(Char)
  <2>1. \A n \in 0..Word - 1 : n \in Nat
    OBVIOUS
  <2> QED BY <2>1, ConstantsAssumption DEF Char
<1>2. CASE item \in [kind : {"msat"}, of : Amounts]
  <2>1. item.kind = "msat" /\ item.of \in Nat
    BY <1>1, <1>2
  <2>2. Value!Read(Value!ShowMsat(item.of), 3) = item.of
    BY <2>1, MsatReadBack
  <2> QED BY <2>1, <2>2 DEF Value!IsReadBack, Value!Show
<1>3. CASE item \in [kind : {"range"}, min : Bounds \cup {None}, max : Bounds \cup {None}]
  <2>1. item.kind = "range" /\ item.min \in Nat \cup {None} /\ item.max \in Nat \cup {None}
    BY <1>1, <1>3
  <2>2. Value!ReadRange(Value!ShowRange(item.min, item.max)) = <<item.min, item.max>>
    BY <2>1, RangeReadBack
  <2> QED BY <2>1, <2>2 DEF Value!IsReadBack, Value!Show
<1>4. CASE item \in [kind : {"amount"}, of : Amounts, exponent : Exponents]
  <2>1. item.kind = "amount" /\ item.of \in Nat /\ item.exponent \in Nat
    BY <1>1, <1>4
  <2>2. Value!Read(Value!ShowAmount(item.of, item.exponent), item.exponent) = item.of
    BY <2>1, AmountReadBack
  <2> QED BY <2>1, <2>2 DEF Value!IsReadBack, Value!Show
<1>5. CASE item \in [kind : {"percent"}, of : Ppm]
  <2>1. item.kind = "percent" /\ item.of \in Nat
    BY <1>1, <1>5
  <2>2. Value!Read(Value!ShowPercent(item.of), 4) = item.of
    BY <2>1, PercentReadBack
  <2> QED BY <2>1, <2>2 DEF Value!IsReadBack, Value!Show
<1>6. CASE item \in [kind : {"duration"}, of : Seconds]
  <2>1. item.kind = "duration" /\ item.of \in Nat
    BY <1>1, <1>6
  <2>2. Value!ReadDuration(Value!ShowDuration(item.of)) = item.of
    BY <2>1, DurationReadBack
  <2> QED BY <2>1, <2>2 DEF Value!IsReadBack, Value!Show
<1>7. CASE item \in [kind : {"blocks"}, of : Blocks]
  <2>1. item.kind = "blocks" /\ item.of \in Nat
    BY <1>1, <1>7
  <2>2. 600 * item.of < Word =>
          Value!ReadDuration(Value!ShowBlocks(item.of).about)
            = 600 * Value!ShowBlocks(item.of).blocks
    BY <2>1, BlocksReadBack
  <2> QED BY <2>1, <2>2 DEF Value!IsReadBack, Value!Show
<1>8. CASE item \in [kind : {"event"}, of : Texts]
  <2>1. item.kind = "event" /\ item.of \in Seq(Char)
    BY <1>1, <1>8
  <2>2. ~Value!HasBareCR(item.of) =>
          Value!ReadEvent(Value!ShowEvent(item.of)) = Value!Lines[item.of]
    BY <2>1, EventReadBack
  <2> QED BY <2>1, <2>2 DEF Value!IsReadBack, Value!Show
<1> QED BY <1>2, <1>3, <1>4, <1>5, <1>6, <1>7, <1>8 DEF Value!Item

\* Whatever the number, the range, the duration or the text, and however many digits or
\* lines it takes to show it, a reader takes what is shown for what it is; but for blocks
\* whose seconds are no word, and for events with a CR of its own (types.rs:30-80,
\* bolt12.rs:44-64, invoice_details.rs:79-88 and 156, duration.rs:3-26,
\* server/src/main.rs:415).
THEOREM ValuesReadBack == Spec => []ReadsBack
<1>1. FmtInv => ReadsBack
  BY ItemIsReadBack DEF FmtInv, ReadsBack, Returned
<1> QED BY <1>1, FmtInvariant, PTL

-----------------------------------------------------------------------------
(* Entries of Cashu requests, and parts of their tags.                     *)

Byte  == Cashu!Byte
Bytes == Seq(Byte)

LEMMA BytesAreNumbers ==
  /\ Cashu!Bytes = Bytes /\ Byte \subseteq Nat /\ Base \in Nat
  /\ \A b \in Byte : b \in Nat /\ b < Base
  /\ \A n \in Nat : n < Base => n \in Byte
BY ConstantsAssumption DEF Byte, Bytes, Cashu!Byte, Cashu!Bytes

LEMMA WholeEntry ==
  ASSUME NEW x \in Bytes, x # <<>>, ~Cashu!IsCut(x)
  PROVE  /\ Len(x) \in Nat /\ Cashu!LengthOf(x) \in Nat /\ 3 + Cashu!LengthOf(x) <= Len(x)
         /\ x[1] \in Byte /\ x[2] \in Byte /\ x[3] \in Byte
         /\ SubSeq(x, 3 + Cashu!LengthOf(x) + 1, Len(x)) \in Bytes
         /\ Len(SubSeq(x, 3 + Cashu!LengthOf(x) + 1, Len(x))) < Len(x)
<1> DEFINE n == Len(x)
           l == Cashu!LengthOf(x)
<1>1. n \in Nat /\ ~(n < 3) /\ ~(n < 3 + l)
  BY LenProperties DEF Cashu!IsCut, Bytes
<1>2. 1 \in 1..n /\ 2 \in 1..n /\ 3 \in 1..n
  <2> HIDE DEF n, l
  <2> QED BY <1>1
<1>3. x[1] \in Byte /\ x[2] \in Byte /\ x[3] \in Byte
  BY <1>2, ElementOfSeq DEF Bytes
<1>4. l \in Nat
  <2>1. l = x[2] * Base + x[3]
    BY DEF Cashu!LengthOf
  <2>2. x[2] \in Nat /\ x[3] \in Nat /\ Base \in Nat
    BY <1>3, BytesAreNumbers
  <2>3. \A a, b, c \in Nat : a * c + b \in Nat
    OBVIOUS
  <2> HIDE DEF l
  <2> QED BY <2>1, <2>2, <2>3
<1>5. 3 + l <= n /\ 3 + l + 1 \in Nat /\ 3 + l + 1 >= 2 /\ n # 0
  <2> HIDE DEF n, l
  <2> QED BY <1>1, <1>4
<1>6. SubSeq(x, 3 + l + 1, Len(x)) \in Bytes /\ Len(SubSeq(x, 3 + l + 1, Len(x))) < Len(x)
  <2> HIDE DEF l
  <2> QED BY <1>5, LeftOf DEF Bytes
<1> QED BY <1>1, <1>3, <1>4, <1>5, <1>6

LEMMA EntriesOf ==
  ASSUME NEW x \in Bytes
  PROVE  Cashu!Entries[x] =
           IF x = <<>> THEN <<>>
           ELSE IF Cashu!IsCut(x) THEN Cashu!Cut(x)
           ELSE <<FirstEntry(x)>>
                  \o Cashu!Entries[SubSeq(x, 3 + Cashu!LengthOf(x) + 1, Len(x))]
<1> DEFINE r == [of |-> "entries"]
           Raw(f) == [y \in Bytes |->
             IF y = <<>> THEN <<>> ELSE IF Cashu!IsCut(y) THEN Cashu!Cut(y)
             ELSE <<FirstEntry(y)>> \o f[SubSeq(y, 3 + Cashu!LengthOf(y) + 1, Len(y))]]
<1>1. \A f : Defines(f, r) <=> f = Raw(f)
  <2>1. \A f : [y \in Over(r) |-> IF Ends(r, y) THEN End(r, y) ELSE Joined(r, y, f[Rest(r, y)])]
             = Raw(f)
    BY BytesAreNumbers DEF Over, Ends, End, Rest, Joined
  <2> QED BY <2>1 DEF Defines
<1>2. Shrinks(r)
  <2> SUFFICES ASSUME NEW y \in Bytes
               PROVE  /\ Len(y) \in Nat
                      /\ y # <<>> /\ ~Cashu!IsCut(y) =>
                           LET z == SubSeq(y, 3 + Cashu!LengthOf(y) + 1, Len(y)) IN
                           z \in Bytes /\ Len(z) < Len(y)
    BY BytesAreNumbers DEF Shrinks, Over, Ends, Rest, Size
  <2> QED BY WholeEntry, LenProperties DEF Bytes
<1>3. \E f : f = Raw(f)
  BY <1>1, <1>2, RecursionExists
<1>4. Cashu!Entries = CHOOSE f : f = Raw(f)
  BY BytesAreNumbers DEF Cashu!Entries, FirstEntry
<1> HIDE DEF Raw
<1>5. Cashu!Entries = Raw(Cashu!Entries)
  BY <1>3, <1>4
<1> QED BY <1>5 DEF Raw

LEMMA WholePart ==
  ASSUME NEW x \in Bytes, x # <<>>
  PROVE  /\ Len(x) \in Nat /\ 1 \in 1..Len(x) /\ x[1] \in Byte /\ x[1] \in Nat
         /\ SubSeq(x, 2 + x[1], Len(x)) \in Bytes
         /\ Len(SubSeq(x, 2 + x[1], Len(x))) < Len(x)
<1>1. Len(x) \in Nat \ {0}
  BY EmptySeq DEF Bytes
<1>2. 1 \in 1..Len(x)
  BY <1>1
<1>3. x[1] \in Byte /\ x[1] \in Nat
  BY <1>2, ElementOfSeq, BytesAreNumbers DEF Bytes
<1>4. 2 + x[1] \in Nat /\ 2 + x[1] >= 2
  BY <1>3
<1> QED BY <1>1, <1>2, <1>3, <1>4, LeftOf DEF Bytes

LEMMA PartsOf ==
  ASSUME NEW x \in Bytes
  PROVE  Cashu!Parts[x] =
           IF x = <<>> THEN <<>>
           ELSE IF Len(x) < 1 + x[1] THEN << <<Base>> >>
           ELSE <<SubSeq(x, 2, 1 + x[1])>> \o Cashu!Parts[SubSeq(x, 2 + x[1], Len(x))]
<1> DEFINE r == [of |-> "parts"]
           Raw(f) == [y \in Bytes |->
             IF y = <<>> THEN <<>> ELSE IF Len(y) < 1 + y[1] THEN << <<Base>> >>
             ELSE <<SubSeq(y, 2, 1 + y[1])>> \o f[SubSeq(y, 2 + y[1], Len(y))]]
<1>1. \A f : Defines(f, r) <=> f = Raw(f)
  <2>1. \A f : [y \in Over(r) |-> IF Ends(r, y) THEN End(r, y) ELSE Joined(r, y, f[Rest(r, y)])]
             = Raw(f)
    BY BytesAreNumbers DEF Over, Ends, End, Rest, Joined
  <2> QED BY <2>1 DEF Defines
<1>2. Shrinks(r)
  <2> SUFFICES ASSUME NEW y \in Bytes
               PROVE  /\ Len(y) \in Nat
                      /\ y # <<>> =>
                           LET z == SubSeq(y, 2 + y[1], Len(y)) IN
                           z \in Bytes /\ Len(z) < Len(y)
    BY BytesAreNumbers DEF Shrinks, Over, Ends, Rest, Size
  <2> QED BY WholePart, LenProperties DEF Bytes
<1>3. \E f : f = Raw(f)
  BY <1>1, <1>2, RecursionExists
<1>4. Cashu!Parts = CHOOSE f : f = Raw(f)
  BY BytesAreNumbers DEF Cashu!Parts
<1> HIDE DEF Raw
<1>5. Cashu!Parts = Raw(Cashu!Parts)
  BY <1>3, <1>4
<1> QED BY <1>5 DEF Raw

\* A number of two bytes, and the bytes of a number.
LEMMA LargerTimes ==
  ASSUME NEW a \in Nat, NEW q \in Nat, NEW k \in Nat, a >= q
  PROVE  k * a >= k * q
<1>1. PICK d \in Nat : a = q + d
  <2>1. a - q \in Nat /\ a = q + (a - q)
    OBVIOUS
  <2> QED BY <2>1
<1>2. k * a = k * q + k * d /\ k * d >= 0
  BY <1>1
<1> QED BY <1>2

LEMMA HighAndLow ==
  ASSUME NEW a \in Byte, NEW b \in Byte
  PROVE  /\ a * Base + b \in Nat /\ a * Base + b < Base * Base
         /\ (a * Base + b) \div Base = a /\ (a * Base + b) % Base = b
<1>1. a \in Nat /\ b \in Nat /\ Base \in Nat \ {0} /\ a < Base /\ b < Base
  BY BytesAreNumbers, ConstantsAssumption
<1> DEFINE n == a * Base + b
           q == n \div Base
           m == n % Base
<1>2. n \in Nat /\ n = Base * a + b
  BY <1>1
<1> HIDE DEF n
<1>3. q \in Nat /\ m \in Nat /\ m < Base /\ n = Base * q + m
  BY <1>1, <1>2, DivisionOf
<1> HIDE DEF q, m
<1>4. ~(a >= q + 1)
  <2> SUFFICES ASSUME a >= q + 1 PROVE FALSE
    OBVIOUS
  <2>1. Base * a >= Base * (q + 1) /\ Base * (q + 1) = Base * q + Base
    BY <1>1, <1>3, LargerTimes
  <2> QED BY <1>1, <1>2, <1>3, <2>1
<1>5. ~(q >= a + 1)
  <2> SUFFICES ASSUME q >= a + 1 PROVE FALSE
    OBVIOUS
  <2>1. Base * q >= Base * (a + 1) /\ Base * (a + 1) = Base * a + Base
    BY <1>1, <1>3, LargerTimes
  <2> QED BY <1>1, <1>2, <1>3, <2>1
<1>6. a = q
  BY <1>1, <1>3, <1>4, <1>5
<1>7. b = m
  BY <1>1, <1>2, <1>3, <1>6
<1>8. n < Base * Base
  <2>1. Base * Base >= Base * (a + 1) /\ Base * (a + 1) = Base * a + Base
    BY <1>1, LargerTimes
  <2> QED BY <1>1, <1>2, <2>1
<1> QED BY <1>2, <1>6, <1>7, <1>8 DEF n, q, m

LEMMA TwoBytes ==
  ASSUME NEW n \in Nat, n < Base * Base
  PROVE  /\ n \div Base \in Byte /\ n % Base \in Byte
         /\ (n \div Base) * Base + (n % Base) = n
<1>1. Base \in Nat \ {0}
  BY ConstantsAssumption
<1> DEFINE q == n \div Base
           m == n % Base
<1>2. q \in Nat /\ m \in Nat /\ m < Base /\ n = Base * q + m
  BY <1>1, DivisionOf
<1> HIDE DEF q, m
<1>3. q < Base
  <2> SUFFICES ASSUME q >= Base PROVE FALSE
    BY <1>1, <1>2
  <2>1. Base * q >= Base * Base
    BY <1>1, <1>2, LargerTimes
  <2> QED BY <1>1, <1>2, <2>1
<1>4. q * Base + m = n
  BY <1>1, <1>2
<1> QED BY <1>2, <1>3, <1>4, BytesAreNumbers DEF q, m

EntryType == [kind : Byte, value : Cashu!Short(Base * Base)]
AnyEntry  == EntryType \cup {Cashu!Truncated}

\* Entries as they are written.
WriteEntry    == [e \in EntryType |-> Cashu!Entry(e.kind, e.value)]
Written(list) == Flat(Mapped(WriteEntry, list))

LEMMA ShortBytes ==
  ASSUME NEW v
  PROVE  /\ v \in Cashu!Short(Base * Base) <=> v \in Bytes /\ Len(v) < Base * Base
         /\ v \in Cashu!Short(Base * Base) => Len(v) \in Nat
BY BytesAreNumbers, LenProperties DEF Cashu!Short, Bytes

LEMMA HeadOfEntry ==
  ASSUME NEW kind \in Byte, NEW value \in Cashu!Short(Base * Base)
  PROVE  LET n == Len(value)
             head == <<kind, n \div Base, n % Base>> IN
         /\ Cashu!Entry(kind, value) \in Bytes
         /\ head \in Bytes /\ Len(head) = 3 /\ n \in Nat /\ value \in Bytes
         /\ Cashu!Entry(kind, value) = head \o value /\ head \o value \in Bytes
         /\ head[1] = kind /\ head[2] * Base + head[3] = n
<1> DEFINE n == Len(value)
           head == <<kind, n \div Base, n % Base>>
<1>1. n \in Nat /\ n < Base * Base /\ value \in Bytes
  BY ShortBytes
<1>2. n \div Base \in Byte /\ n % Base \in Byte /\ (n \div Base) * Base + (n % Base) = n
  BY <1>1, TwoBytes
<1>3. Cashu!Entry(kind, value) = head \o value
  BY DEF Cashu!Entry
<1> HIDE DEF n
<1>4. head \in Bytes /\ Len(head) = 3
  BY <1>2 DEF Bytes
<1>5. head[1] = kind /\ head[2] * Base + head[3] = n
  BY <1>2
<1> HIDE DEF head
<1>6. head \o value \in Bytes
  BY <1>1, <1>4, ConcatProperties DEF Bytes
<1> QED BY <1>1, <1>3, <1>4, <1>5, <1>6 DEF n, head

LEMMA WriteEntryIsMap == IsMap(WriteEntry, EntryType, Bytes)
<1>1. \A e \in EntryType : WriteEntry[e] \in Bytes
  <2> SUFFICES ASSUME NEW e \in EntryType PROVE WriteEntry[e] \in Bytes
    OBVIOUS
  <2>1. e.kind \in Byte /\ e.value \in Cashu!Short(Base * Base)
    BY DEF EntryType
  <2>2. Cashu!Entry(e.kind, e.value) \in Bytes
    BY <2>1, HeadOfEntry
  <2> QED BY <2>2 DEF WriteEntry
<1>2. WriteEntry = [e \in EntryType |-> WriteEntry[e]]
  BY DEF WriteEntry
<1> QED BY <1>1, <1>2 DEF IsMap

\* The first entry of bytes is how they begin.
LEMMA FirstEntryIsWritten ==
  ASSUME NEW x \in Bytes, x # <<>>, ~Cashu!IsCut(x)
  PROVE  /\ FirstEntry(x) \in EntryType
         /\ WriteEntry[FirstEntry(x)] \o SubSeq(x, 3 + Cashu!LengthOf(x) + 1, Len(x)) = x
<1> DEFINE n == Len(x)
           l == Cashu!LengthOf(x)
           head == SubSeq(x, 1, 3)
           v == SubSeq(x, 3 + 1, 3 + l)
           rest == SubSeq(x, 3 + l + 1, n)
<1>1. /\ n \in Nat /\ l \in Nat /\ 3 + l <= n
      /\ x[1] \in Byte /\ x[2] \in Byte /\ x[3] \in Byte /\ rest \in Bytes
  BY WholeEntry
<1>2. l = x[2] * Base + x[3]
  BY DEF Cashu!LengthOf
<1>3. l < Base * Base /\ l \div Base = x[2] /\ l % Base = x[3]
  BY <1>1, <1>2, HighAndLow
<1>4. \A i \in 1..n : x[i] \in Byte
  BY ElementOfSeq DEF Bytes
<1> HIDE DEF n, l
<1>5. \A i \in 4..(3 + l) : x[i] \in Byte
  BY <1>1, <1>4
<1>6. v \in Bytes /\ Len(v) = l
  <2>1. v \in Bytes /\ Len(v) = IF 4 <= 3 + l THEN 3 + l - 4 + 1 ELSE 0
    BY <1>1, <1>5, SubSeqProperties DEF Bytes
  <2> HIDE DEF v
  <2> QED BY <1>1, <2>1
<1>7. head = <<x[1], x[2], x[3]>>
  <2> DEFINE t == <<x[1], x[2], x[3]>>
  <2>1. \A i \in 1..3 : x[i] \in Byte
    BY <1>1
  <2>2. /\ head \in Bytes /\ Len(head) = 3
        /\ \A i \in 1..(3 - 1 + 1) : head[i] = x[1 + i - 1]
    BY <2>1, SubSeqProperties DEF Bytes
  <2>3. t \in Bytes /\ Len(t) = 3
    BY <1>1 DEF Bytes
  <2>4. head[1] = t[1] /\ head[2] = t[2] /\ head[3] = t[3]
    <3> HIDE DEF head
    <3>1. head[1] = x[1] /\ head[2] = x[2] /\ head[3] = x[3]
      BY <2>2
    <3> QED BY <3>1
  <2> HIDE DEF head, t
  <2>5. \A i \in 1..Len(head) : head[i] = t[i]
    BY <2>2, <2>4
  <2>6. head = t
    BY <2>2, <2>3, <2>5, SeqEqual DEF Bytes
  <2> QED BY <2>6 DEF t
<1>8. head \o SubSeq(x, 3 + 1, n) = x
  <2>1. 1 \in 1..n + 1 /\ 3 \in (1 - 1)..n /\ n \in 3..n
    BY <1>1
  <2>2. SubSeq(x, 1, 3) \o SubSeq(x, 3 + 1, n) = SubSeq(x, 1, n)
    BY <2>1, ConcatAdjacentSubSeq DEF Bytes, n
  <2>3. SubSeq(x, 1, n) = x
    BY SubSeqFull DEF Bytes, n
  <2> QED BY <2>2, <2>3
<1>9. v \o rest = SubSeq(x, 3 + 1, n)
  <2>1. 3 + 1 \in 1..n + 1 /\ 3 + l \in ((3 + 1) - 1)..n /\ n \in (3 + l)..n
    BY <1>1
  <2> QED BY <2>1, ConcatAdjacentSubSeq DEF Bytes, n
<1>10. head \in Bytes
  BY <1>1, <1>7 DEF Bytes
<1>11. FirstEntry(x) = [kind |-> x[1], value |-> v] /\ FirstEntry(x) \in EntryType
  <2>1. v \in Cashu!Short(Base * Base)
    BY <1>3, <1>6, ShortBytes
  <2>2. FirstEntry(x) = [kind |-> x[1], value |-> v]
    BY DEF FirstEntry, l
  <2> HIDE DEF v
  <2> QED BY <1>1, <2>1, <2>2 DEF EntryType
<1> HIDE DEF v, rest
<1>12. WriteEntry[FirstEntry(x)] = head \o v
  <2>1. WriteEntry[FirstEntry(x)] = Cashu!Entry(x[1], v)
    BY <1>11 DEF WriteEntry
  <2>2. Cashu!Entry(x[1], v) = <<x[1], l \div Base, l % Base>> \o v
    BY <1>6 DEF Cashu!Entry
  <2> QED BY <1>3, <1>7, <2>1, <2>2
<1> HIDE DEF head
<1>13. (head \o v) \o rest = head \o (v \o rest)
  BY <1>1, <1>6, <1>10, ConcatAssociative DEF Bytes
<1> QED BY <1>8, <1>9, <1>11, <1>12, <1>13 DEF rest, n, l

\* What is written of one more in front.
GoesFirst(f, S, T, e, list) ==
  /\ <<e>> \o list \in Seq(S)
  /\ Flat(Mapped(f, <<e>> \o list)) = f[e] \o Flat(Mapped(f, list))
  /\ Flat(Mapped(f, list)) \in Seq(T) /\ f[e] \in Seq(T)

LEMMA FlatOfOneMore ==
  ASSUME NEW S, NEW T, NEW f, IsMap(f, S, Seq(T)), NEW e \in S, NEW list \in Seq(S)
  PROVE  GoesFirst(f, S, T, e, list)
<1> DEFINE Q == Seq(T)
           one == <<e>>
           rest == Mapped(f, list)
<1>1. IsMap(f, S, Q) /\ f[e] \in Q
  BY DEF IsMap
<1>2. one \in Seq(S)
  OBVIOUS
<1>3. ASSUME NEW x \in Q, NEW y \in Seq(Q)
      PROVE  Flat(<<x>> \o y) = x \o Flat(y) /\ Flat(y) \in Q
  BY FlatCons, FlatType
<1> HIDE DEF Q
<1>4. Mapped(f, one) = <<f[e]>>
  BY <1>1, MappedOne
<1> HIDE DEF one
<1>5. one \o list \in Seq(S)
  BY <1>2, ConcatProperties
<1>6. Mapped(f, one \o list) = Mapped(f, one) \o rest
  BY <1>1, <1>2, MappedConcat
<1>7. rest \in Seq(Q)
  BY <1>1, MappedType
<1> HIDE DEF rest
<1>8. Flat(<<f[e]>> \o rest) = f[e] \o Flat(rest) /\ Flat(rest) \in Q
  BY <1>1, <1>3, <1>7
<1> QED BY <1>1, <1>4, <1>5, <1>6, <1>8 DEF one, rest, Q, GoesFirst

LEMMA WrittenOneMore ==
  ASSUME NEW e \in EntryType, NEW list \in Seq(EntryType)
  PROVE  /\ <<e>> \o list \in Seq(EntryType)
         /\ Written(<<e>> \o list) = WriteEntry[e] \o Written(list)
         /\ Written(list) \in Bytes /\ WriteEntry[e] \in Bytes
<1>1. IsMap(WriteEntry, EntryType, Seq(Byte))
  BY WriteEntryIsMap DEF Bytes
<1>2. GoesFirst(WriteEntry, EntryType, Byte, e, list)
  BY <1>1, FlatOfOneMore
<1> QED BY <1>2 DEF GoesFirst, Written, Bytes

LEMMA EntriesType ==
  ASSUME NEW x \in Bytes
  PROVE  Cashu!Entries[x] \in Seq(AnyEntry)
<1> DEFINE Fine(u) == Cashu!Entries[u] \in Seq(AnyEntry)
           Bad == {n \in Nat : \E u \in Bytes : Len(u) = n /\ ~Fine(u)}
<1> SUFFICES ASSUME ~Fine(x) PROVE FALSE
  OBVIOUS
<1>1. Len(x) \in Bad
  BY LenProperties DEF Bytes
<1>2. PICK n \in Bad : \A j \in Bad : n <= j
  <2>1. Bad \subseteq Nat /\ Bad # {}
    BY <1>1
  <2> QED BY <2>1, LeastNumber
<1>3. PICK u \in Bytes : Len(u) = n /\ ~Fine(u)
  BY <1>2
<1> DEFINE rest == SubSeq(u, 3 + Cashu!LengthOf(u) + 1, Len(u))
           one == <<FirstEntry(u)>>
<1>4. n \in Nat
  BY <1>2
<1>5. Cashu!Entries[u] = IF u = <<>> THEN <<>> ELSE IF Cashu!IsCut(u) THEN Cashu!Cut(u)
                         ELSE one \o Cashu!Entries[rest]
  BY EntriesOf
<1>6. CASE u = <<>>
  BY <1>3, <1>5, <1>6, EmptySeq
<1>7. CASE u # <<>> /\ Cashu!IsCut(u)
  <2>1. Cashu!Cut(u) = <<Cashu!Truncated>> /\ Cashu!Truncated \in AnyEntry
    BY DEF Cashu!Cut, AnyEntry
  <2>2. <<Cashu!Truncated>> \in Seq(AnyEntry)
    BY <2>1
  <2> QED BY <1>3, <1>5, <1>7, <2>1, <2>2
<1>8. CASE u # <<>> /\ ~Cashu!IsCut(u)
  <2>1. rest \in Bytes /\ Len(rest) < n
    BY <1>3, <1>8, WholeEntry
  <2>2. FirstEntry(u) \in AnyEntry
    BY <1>8, FirstEntryIsWritten DEF AnyEntry
  <2>3. one \in Seq(AnyEntry)
    BY <2>2
  <2> HIDE DEF rest, one
  <2>4. Len(rest) \in Nat
    BY <2>1, LenProperties DEF Bytes
  <2>5. Len(rest) \notin Bad
    BY <1>2, <1>4, <2>1, <2>4
  <2>6. Cashu!Entries[rest] \in Seq(AnyEntry)
    BY <2>1, <2>4, <2>5
  <2>7. one \o Cashu!Entries[rest] \in Seq(AnyEntry)
    BY <2>3, <2>6, ConcatProperties
  <2> QED BY <1>3, <1>5, <1>8, <2>7
<1> QED BY <1>6, <1>7, <1>8

\* Bytes whose entries end with a whole one are those entries, and nothing else.
LEMMA NothingIsLost ==
  ASSUME NEW x \in Bytes, Cashu!Truncated \notin Range(Cashu!Entries[x])
  PROVE  Cashu!Entries[x] \in Seq(EntryType) /\ Written(Cashu!Entries[x]) = x
<1> DEFINE Fine(u) == Cashu!Entries[u] \in Seq(EntryType) /\ Written(Cashu!Entries[u]) = u
           Bad == {n \in Nat : \E u \in Bytes :
                     Len(u) = n /\ Cashu!Truncated \notin Range(Cashu!Entries[u]) /\ ~Fine(u)}
<1> SUFFICES ASSUME ~Fine(x) PROVE FALSE
  OBVIOUS
<1>1. Len(x) \in Bad
  BY LenProperties DEF Bytes
<1>2. PICK n \in Bad : \A j \in Bad : n <= j
  <2>1. Bad \subseteq Nat /\ Bad # {}
    BY <1>1
  <2> QED BY <2>1, LeastNumber
<1>3. PICK u \in Bytes :
        Len(u) = n /\ Cashu!Truncated \notin Range(Cashu!Entries[u]) /\ ~Fine(u)
  BY <1>2
<1> DEFINE rest == SubSeq(u, 3 + Cashu!LengthOf(u) + 1, Len(u))
           first == FirstEntry(u)
           one == <<first>>
<1>4. n \in Nat
  BY <1>2
<1>5. Cashu!Entries[u] = IF u = <<>> THEN <<>> ELSE IF Cashu!IsCut(u) THEN Cashu!Cut(u)
                         ELSE one \o Cashu!Entries[rest]
  BY EntriesOf
<1>6. CASE u = <<>>
  <2>1. Written(<<>>) = <<>>
    <3>1. Mapped(WriteEntry, <<>>) = <<>>
      BY DEF Mapped
    <3> QED BY <3>1, FlatOfNone DEF Written
  <2> QED BY <1>3, <1>5, <1>6, <2>1, EmptySeq
<1>7. CASE u # <<>> /\ Cashu!IsCut(u)
  <2>1. Cashu!Entries[u] = <<Cashu!Truncated>>
    BY <1>5, <1>7 DEF Cashu!Cut
  <2>2. Cashu!Truncated \in Range(<<Cashu!Truncated>>)
    BY DEF Range
  <2> QED BY <1>3, <2>1, <2>2
<1>8. CASE u # <<>> /\ ~Cashu!IsCut(u)
  <2>1. rest \in Bytes /\ Len(rest) < n
    BY <1>3, <1>8, WholeEntry
  <2>2. first \in EntryType /\ WriteEntry[first] \o rest = u
    BY <1>8, FirstEntryIsWritten
  <2> HIDE DEF rest, first
  <2>3. one \in Seq(AnyEntry)
    BY <2>2 DEF AnyEntry
  <2>4. Cashu!Entries[rest] \in Seq(AnyEntry)
    BY <2>1, EntriesType
  <2>5. Range(one \o Cashu!Entries[rest]) = Range(one) \cup Range(Cashu!Entries[rest])
    <3> HIDE DEF one
    <3> QED BY <2>3, <2>4, RangeConcatenation
  <2>6. Cashu!Truncated \notin Range(Cashu!Entries[rest])
    BY <1>3, <1>5, <1>8, <2>5
  <2>7. Len(rest) \in Nat
    BY <2>1, LenProperties DEF Bytes
  <2>8. Len(rest) \notin Bad
    BY <1>2, <1>4, <2>1, <2>7
  <2>9. Fine(rest)
    BY <2>1, <2>6, <2>7, <2>8
  <2>10. /\ one \o Cashu!Entries[rest] \in Seq(EntryType)
         /\ Written(one \o Cashu!Entries[rest])
              = WriteEntry[first] \o Written(Cashu!Entries[rest])
    <3> DEFINE es == Cashu!Entries[rest]
    <3>1. es \in Seq(EntryType)
      BY <2>9
    <3> HIDE DEF es, Fine, Bad
    <3>2. <<first>> \o es \in Seq(EntryType)
      BY <2>2, <3>1, WrittenOneMore
    <3>3. Written(<<first>> \o es) = WriteEntry[first] \o Written(es)
      BY <2>2, <3>1, WrittenOneMore
    <3> QED BY <3>2, <3>3 DEF es
  <2> QED BY <1>3, <1>5, <1>8, <2>2, <2>9, <2>10
<1> QED BY <1>6, <1>7, <1>8

LEMMA RewrittenIsWhole ==
  ASSUME NEW x \in Bytes, Cashu!Truncated \notin Range(Cashu!Entries[x])
  PROVE  Cashu!Rewritten(x) = x
<1> DEFINE es == Cashu!Entries[x]
           written == Mapped(WriteEntry, es)
<1>1. es \in Seq(EntryType) /\ Flat(written) = x
  BY NothingIsLost DEF Written
<1> HIDE DEF es
<1>2. DOMAIN es = 1..Len(es) /\ \A i \in DOMAIN es : es[i] \in EntryType
  BY <1>1, LenProperties, ElementOfSeq
<1>3. [i \in DOMAIN es |-> Cashu!Entry(es[i].kind, es[i].value)] = written
  BY <1>2 DEF Mapped, WriteEntry
<1>4. Cashu!Rewritten(x) = Cashu!FlattenSeq(written)
  BY <1>3 DEF Cashu!Rewritten, Cashu!Flat, es
<1>5. written \in Seq(Bytes)
  BY <1>1, WriteEntryIsMap, MappedType
<1> HIDE DEF written
<1>6. Cashu!FlattenSeq(written) = Flat(written)
  BY <1>5, FlattenOf DEF Bytes
<1> QED BY <1>1, <1>4, <1>6

\* Bytes that are accepted are whole, and so is every transport and option in them.
LEMMA AcceptedIsWhole ==
  ASSUME NEW x \in Bytes, Cashu!ParseNut26(x) # Cashu!Refused
  PROVE  Cashu!IsWhole(x)
<1> DEFINE es == Cashu!Entries[x]
<1>1. \A e \in Cashu!Range(es) : Cashu!FieldFits(e)
  BY DEF Cashu!ParseNut26
<1>2. Cashu!Range(es) = Range(es)
  BY DEF Cashu!Range, Range
<1>3. Cashu!Truncated \notin Range(es)
  <2>1. ~Cashu!FieldFits(Cashu!Truncated)
    <3>1. Cashu!Truncated.kind = None /\ None \notin Nat
      BY NoneAssumption DEF Cashu!Truncated
    <3> QED BY <3>1 DEF Cashu!FieldFits
  <2> QED BY <1>1, <1>2, <2>1
<1>4. es \in Seq(EntryType) /\ Cashu!Rewritten(x) = x
  BY <1>3, NothingIsLost, RewrittenIsWhole
<1> HIDE DEF es
<1>5. ASSUME NEW e \in Range(es), e.kind \in {7, 8}
      PROVE  Cashu!Rewritten(e.value) = e.value
  <2>1. e \in EntryType
    BY <1>4, RangeOfSeq
  <2>2. e.value \in Bytes
    BY <2>1, ShortBytes DEF EntryType
  <2>3. Cashu!FieldFits(e)
    BY <1>1, <1>2
  <2>4. Cashu!OptionFits(Cashu!Entries[e.value])
    <3>1. CASE e.kind = 7
      <4>1. Cashu!TransportFits(e.value)
        BY <2>3, <3>1 DEF Cashu!FieldFits
      <4> QED BY <4>1 DEF Cashu!TransportFits
    <3>2. CASE e.kind = 8
      BY <2>3, <3>2 DEF Cashu!FieldFits
    <3> QED BY <1>5, <3>1, <3>2
  <2>5. Cashu!Truncated \notin Range(Cashu!Entries[e.value])
    BY <2>4 DEF Cashu!OptionFits, Cashu!Range, Range
  <2> QED BY <2>2, <2>5, RewrittenIsWhole
<1> QED BY <1>2, <1>4, <1>5 DEF Cashu!IsWhole, es

\* What a reader finds behind what it reads first.
Follows(u, S, head, v, s) ==
  /\ u \in Seq(S) /\ Len(u) = Len(head) + Len(v) + Len(s)
  /\ \A i \in 1..Len(head) : u[i] = head[i]
  /\ SubSeq(u, Len(head) + 1, Len(head) + Len(v)) = v
  /\ SubSeq(u, Len(head) + Len(v) + 1, Len(u)) = s

LEMMA Behind ==
  ASSUME NEW S, NEW head \in Seq(S), NEW v \in Seq(S), NEW s \in Seq(S)
  PROVE  Follows((head \o v) \o s, S, head, v, s)
<1> DEFINE a == head \o v
           u == a \o s
           h == Len(head)
           n == Len(v)
           m == Len(s)
<1>1. h \in Nat /\ n \in Nat /\ m \in Nat
  BY LenProperties
<1>2. /\ a \in Seq(S) /\ Len(a) = h + n
      /\ \A i \in 1..(h + n) : a[i] = IF i <= h THEN head[i] ELSE v[i - h]
  BY ConcatProperties
<1>3. SubSeq(a, h + 1, h + n) = v
  <2>1. SubSeq(a, h + 1, Len(a)) = v
    BY BothParts
  <2> QED BY <1>2, <2>1
<1> HIDE DEF a
<1>4. /\ u \in Seq(S) /\ Len(u) = Len(a) + m
      /\ \A i \in 1..(Len(a) + m) : u[i] = IF i <= Len(a) THEN a[i] ELSE s[i - Len(a)]
  <2>1. a \in Seq(S)
    BY <1>2
  <2>2. a \o s \in Seq(S) /\ Len(a \o s) = Len(a) + Len(s)
    BY <2>1, ConcatProperties
  <2>3. \A i \in 1..(Len(a) + Len(s)) :
          (a \o s)[i] = IF i <= Len(a) THEN a[i] ELSE s[i - Len(a)]
    BY <2>1, ConcatProperties
  <2> QED BY <2>2, <2>3
<1>5. SubSeq(u, (h + n) + 1, Len(u)) = s
  <2>1. SubSeq(a \o s, Len(a) + 1, Len(a \o s)) = s
    BY <1>2, BothParts
  <2> QED BY <1>2, <2>1
<1>6. \A i \in 1..h : u[i] = head[i]
  <2> SUFFICES ASSUME NEW i \in 1..h PROVE u[i] = head[i]
    OBVIOUS
  <2> HIDE DEF u, h, n, m
  <2>1. i \in 1..((h + n) + m) /\ i <= h + n /\ i <= h /\ i \in 1..(h + n)
    BY <1>1
  <2>2. u[i] = a[i]
    BY <1>2, <1>4, <2>1
  <2>3. a[i] = head[i]
    BY <1>2, <2>1
  <2> QED BY <2>2, <2>3
<1>7. SubSeq(u, h + 1, h + n) = v
  <2>1. CASE n = 0
    <3>1. v = <<>>
      BY <2>1, EmptySeq
    <3>2. h + 1 \in Int /\ h + n \in Int /\ h + n < h + 1
      <4> HIDE DEF h, n
      <4> QED BY <1>1, <2>1
    <3>3. SubSeq(u, h + 1, h + n) = <<>>
      BY <3>2, SubSeqEmpty
    <3> QED BY <3>1, <3>3
  <2>2. CASE n # 0
    <3>1. h + 1 \in 1..Len(a) /\ h + n \in 1..Len(a)
      <4> HIDE DEF h, n
      <4> QED BY <1>1, <1>2, <2>2
    <3>2. SubSeq(u, h + 1, h + n) = SubSeq(a, h + 1, h + n)
      BY <1>2, <3>1, SubSeqOfConcat1
    <3> QED BY <1>3, <3>2
  <2> QED BY <2>1, <2>2
<1>8. Len(u) = h + n + m
  <2> HIDE DEF u, h, n, m
  <2> QED BY <1>2, <1>4
<1> QED BY <1>4, <1>5, <1>6, <1>7, <1>8 DEF a, Follows

\* An entry that was written is read, and then what is behind it.
LEMMA EntryIsRead ==
  ASSUME NEW e \in EntryType, NEW s \in Bytes
  PROVE  Cashu!Entries[WriteEntry[e] \o s] = <<e>> \o Cashu!Entries[s]
<1> DEFINE v == e.value
           n == Len(v)
           head == <<e.kind, n \div Base, n % Base>>
           u == (head \o v) \o s
<1>1. e.kind \in Byte /\ v \in Cashu!Short(Base * Base) /\ e = [kind |-> e.kind, value |-> v]
  BY DEF EntryType
<1>2. /\ head \in Bytes /\ Len(head) = 3 /\ n \in Nat /\ v \in Bytes
      /\ Cashu!Entry(e.kind, v) = head \o v
      /\ head[1] = e.kind /\ head[2] * Base + head[3] = n
  <2> HIDE DEF v
  <2> QED BY <1>1, HeadOfEntry
<1>3. WriteEntry[e] \o s = u
  BY <1>2 DEF WriteEntry
<1> HIDE DEF head, v
<1> HIDE DEF n
<1>4. /\ u \in Bytes /\ Len(u) = 3 + n + Len(s) /\ \A i \in 1..3 : u[i] = head[i]
      /\ SubSeq(u, 3 + 1, 3 + n) = v /\ SubSeq(u, 3 + n + 1, Len(u)) = s
  <2>1. head \in Seq(Byte) /\ v \in Seq(Byte) /\ s \in Seq(Byte)
    BY <1>2 DEF Bytes
  <2>2. Follows(u, Byte, head, v, s)
    BY <2>1, Behind
  <2>3. Len(head) = 3 /\ Len(v) = n
    BY <1>2 DEF n
  <2> HIDE DEF u
  <2> QED BY <2>2, <2>3 DEF Follows, Bytes
<1>5. Len(s) \in Nat
  BY LenProperties DEF Bytes
<1> HIDE DEF u
<1>6. u[1] = e.kind /\ u[2] * Base + u[3] = n
  BY <1>2, <1>4
<1>7. Cashu!LengthOf(u) = n
  BY <1>6 DEF Cashu!LengthOf
<1>8. u # <<>> /\ ~Cashu!IsCut(u)
  <2>1. ~(Len(u) < 3) /\ ~(Len(u) < 3 + n) /\ Len(u) # 0
    BY <1>2, <1>4, <1>5
  <2> QED BY <1>7, <2>1 DEF Cashu!IsCut
<1>9. FirstEntry(u) = e
  <2>1. 3 + 1 = 4
    OBVIOUS
  <2>2. FirstEntry(u) = [kind |-> u[1], value |-> SubSeq(u, 4, 3 + n)]
    BY <1>7 DEF FirstEntry
  <2> QED BY <1>1, <1>4, <1>6, <2>1, <2>2
<1> QED BY <1>3, <1>4, <1>7, <1>8, <1>9, EntriesOf

LEMMA EntriesOfNone == Cashu!Entries[<<>>] = <<>> /\ Cashu!Parts[<<>>] = <<>>
BY EmptySeq, EntriesOf, PartsOf DEF Bytes

\* Entries that were written are read.
LEMMA EntriesAreRead ==
  ASSUME NEW list \in Seq(EntryType)
  PROVE  Cashu!Entries[Written(list)] = list /\ Written(list) \in Bytes
<1> DEFINE Fine(u) == Cashu!Entries[Written(u)] = u
           Bad == {n \in Nat : \E u \in Seq(EntryType) : Len(u) = n /\ ~Fine(u)}
<1> SUFFICES ASSUME ~Fine(list) PROVE FALSE
  <2>1. Written(list) \in Bytes
    BY WriteEntryIsMap, MappedType, FlatType DEF Written, Bytes
  <2> QED BY <2>1
<1>1. Len(list) \in Bad
  BY LenProperties
<1>2. PICK n \in Bad : \A j \in Bad : n <= j
  <2>1. Bad \subseteq Nat /\ Bad # {}
    BY <1>1
  <2> QED BY <2>1, LeastNumber
<1>3. PICK u \in Seq(EntryType) : Len(u) = n /\ ~Fine(u)
  BY <1>2
<1>4. n \in Nat
  BY <1>2
<1>5. CASE n = 0
  <2>1. u = <<>> /\ Mapped(WriteEntry, <<>>) = <<>>
    BY <1>3, <1>5, EmptySeq DEF Mapped
  <2>2. Written(<<>>) = <<>>
    BY <2>1, FlatOfNone DEF Written
  <2> QED BY <1>3, <2>1, <2>2, EntriesOfNone
<1>6. CASE n # 0
  <2>1. PICK e \in EntryType, v \in Seq(EntryType) :
          u = <<e>> \o v /\ Len(v) = n - 1 /\ Len(v) \in Nat
    <3>1. Len(u) = n /\ Len(u) # 0
      BY <1>3, <1>6
    <3> HIDE DEF Fine, Bad
    <3> QED BY <3>1, FirstOne
  <2>2. Len(v) \notin Bad
    BY <1>2, <1>4, <2>1
  <2>3. Fine(v)
    BY <2>1, <2>2
  <2>4. Written(u) = WriteEntry[e] \o Written(v) /\ Written(v) \in Bytes
    <3> HIDE DEF Fine, Bad
    <3>1. Written(<<e>> \o v) = WriteEntry[e] \o Written(v) /\ Written(v) \in Bytes
      BY WrittenOneMore
    <3> QED BY <2>1, <3>1
  <2>5. Cashu!Entries[WriteEntry[e] \o Written(v)] = <<e>> \o Cashu!Entries[Written(v)]
    BY <2>4, EntryIsRead
  <2> QED BY <1>3, <2>1, <2>3, <2>4, <2>5
<1> QED BY <1>5, <1>6

\* The parts of a tag.
PartType  == Cashu!Text(Base)
WritePart == [p \in PartType |-> Cashu!Part(p)]

LEMMA PartBytes ==
  ASSUME NEW p \in PartType
  PROVE  /\ p \in Bytes /\ Len(p) \in Nat /\ Len(p) < Base /\ Cashu!IsText(p)
         /\ <<Len(p)>> \in Bytes /\ WritePart[p] = <<Len(p)>> \o p /\ WritePart[p] \in Bytes
<1> DEFINE n == Len(p)
           head == <<n>>
<1>1. p \in Bytes /\ n < Base /\ Cashu!IsText(p)
  BY BytesAreNumbers DEF PartType, Cashu!Text, Cashu!Short
<1>2. n \in Nat
  BY <1>1, LenProperties DEF Bytes
<1>3. WritePart[p] = head \o p
  BY DEF WritePart, Cashu!Part
<1> HIDE DEF n
<1>4. head \in Bytes
  BY <1>1, <1>2, BytesAreNumbers DEF Bytes
<1> HIDE DEF head
<1>5. head \o p \in Bytes
  BY <1>1, <1>4, ConcatProperties DEF Bytes
<1> QED BY <1>1, <1>2, <1>3, <1>4, <1>5 DEF head, n

LEMMA PartIsRead ==
  ASSUME NEW p \in PartType, NEW s \in Bytes
  PROVE  Cashu!Parts[WritePart[p] \o s] = <<p>> \o Cashu!Parts[s]
<1> DEFINE n == Len(p)
           head == <<n>>
           u == (head \o p) \o s
<1>1. p \in Bytes /\ n \in Nat /\ head \in Bytes /\ WritePart[p] = head \o p
  BY PartBytes
<1>2. Len(head) = 1 /\ head[1] = n
  OBVIOUS
<1> HIDE DEF head
<1> HIDE DEF n
<1>3. /\ u \in Bytes /\ Len(u) = 1 + n + Len(s) /\ \A i \in 1..1 : u[i] = head[i]
      /\ SubSeq(u, 1 + 1, 1 + n) = p /\ SubSeq(u, 1 + n + 1, Len(u)) = s
  <2>1. head \in Seq(Byte) /\ p \in Seq(Byte) /\ s \in Seq(Byte)
    BY <1>1 DEF Bytes
  <2>2. Follows(u, Byte, head, p, s)
    BY <2>1, Behind
  <2>3. Len(head) = 1 /\ Len(p) = n
    BY <1>2 DEF n
  <2> HIDE DEF u
  <2> QED BY <2>2, <2>3 DEF Follows, Bytes
<1>4. Len(s) \in Nat
  BY LenProperties DEF Bytes
<1> HIDE DEF u
<1>5. u[1] = n
  BY <1>2, <1>3
<1>6. u # <<>> /\ ~(Len(u) < 1 + n)
  <2>1. ~(Len(u) < 1 + n) /\ Len(u) # 0
    BY <1>1, <1>3, <1>4
  <2> QED BY <2>1
<1>7. 1 + 1 = 2 /\ 2 + n = 1 + n + 1
  BY <1>1
<1>8. Cashu!Parts[u] = <<SubSeq(u, 2, 1 + n)>> \o Cashu!Parts[SubSeq(u, 2 + n, Len(u))]
  BY <1>3, <1>5, <1>6, PartsOf
<1> QED BY <1>1, <1>3, <1>7, <1>8 DEF u

LEMMA WritePartIsMap == IsMap(WritePart, PartType, Seq(Byte))
<1>1. \A p \in PartType : WritePart[p] \in Seq(Byte)
  BY PartBytes DEF Bytes
<1>2. WritePart = [p \in PartType |-> WritePart[p]]
  BY DEF WritePart
<1> QED BY <1>1, <1>2 DEF IsMap

WrittenParts(list) == Flat(Mapped(WritePart, list))

LEMMA WrittenPartsOneMore ==
  ASSUME NEW p \in PartType, NEW list \in Seq(PartType)
  PROVE  /\ <<p>> \o list \in Seq(PartType)
         /\ WrittenParts(<<p>> \o list) = WritePart[p] \o WrittenParts(list)
         /\ WrittenParts(list) \in Bytes
<1>1. GoesFirst(WritePart, PartType, Byte, p, list)
  BY WritePartIsMap, FlatOfOneMore
<1> QED BY <1>1 DEF GoesFirst, WrittenParts, Bytes

LEMMA PartsAreRead ==
  ASSUME NEW list \in Seq(PartType)
  PROVE  Cashu!Parts[WrittenParts(list)] = list /\ WrittenParts(list) \in Bytes
<1> DEFINE Fine(u) == Cashu!Parts[WrittenParts(u)] = u
           Bad == {n \in Nat : \E u \in Seq(PartType) : Len(u) = n /\ ~Fine(u)}
<1> SUFFICES ASSUME ~Fine(list) PROVE FALSE
  <2>1. WrittenParts(list) \in Bytes
    BY WritePartIsMap, MappedType, FlatType DEF WrittenParts, Bytes
  <2> QED BY <2>1
<1>1. Len(list) \in Bad
  BY LenProperties
<1>2. PICK n \in Bad : \A j \in Bad : n <= j
  <2>1. Bad \subseteq Nat /\ Bad # {}
    BY <1>1
  <2> QED BY <2>1, LeastNumber
<1>3. PICK u \in Seq(PartType) : Len(u) = n /\ ~Fine(u)
  BY <1>2
<1>4. n \in Nat
  BY <1>2
<1>5. CASE n = 0
  <2>1. u = <<>> /\ Mapped(WritePart, <<>>) = <<>>
    BY <1>3, <1>5, EmptySeq DEF Mapped
  <2>2. WrittenParts(<<>>) = <<>>
    BY <2>1, FlatOfNone DEF WrittenParts
  <2> QED BY <1>3, <2>1, <2>2, EntriesOfNone
<1>6. CASE n # 0
  <2>1. PICK p \in PartType, v \in Seq(PartType) :
          u = <<p>> \o v /\ Len(v) = n - 1 /\ Len(v) \in Nat
    <3>1. Len(u) = n /\ Len(u) # 0
      BY <1>3, <1>6
    <3> HIDE DEF Fine, Bad
    <3> QED BY <3>1, FirstOne
  <2>2. Len(v) \notin Bad
    BY <1>2, <1>4, <2>1
  <2>3. Fine(v)
    BY <2>1, <2>2
  <2>4. WrittenParts(u) = WritePart[p] \o WrittenParts(v) /\ WrittenParts(v) \in Bytes
    <3> HIDE DEF Fine, Bad
    <3>1. WrittenParts(<<p>> \o v) = WritePart[p] \o WrittenParts(v) /\ WrittenParts(v) \in Bytes
      BY WrittenPartsOneMore
    <3> QED BY <2>1, <3>1
  <2>5. Cashu!Parts[WritePart[p] \o WrittenParts(v)] = <<p>> \o Cashu!Parts[WrittenParts(v)]
    BY <2>4, PartIsRead
  <2> QED BY <1>3, <2>1, <2>3, <2>4, <2>5
<1> QED BY <1>5, <1>6

\* Lists of values, each an entry of the same kind.
ShortType   == Cashu!Short(Base * Base)
Wrap(kind)  == [v \in ShortType |-> [kind |-> kind, value |-> v]]
Piece(kind, values) == Mapped(Wrap(kind), values)

LEMMA PieceType ==
  ASSUME NEW kind \in Byte, NEW values \in Seq(ShortType)
  PROVE  /\ IsMap(Wrap(kind), ShortType, EntryType)
         /\ Piece(kind, values) \in Seq(EntryType) /\ Len(Piece(kind, values)) = Len(values)
         /\ \A i \in 1..Len(values) : /\ values[i] \in ShortType
                                      /\ Piece(kind, values)[i] = [kind |-> kind, value |-> values[i]]
<1>1. IsMap(Wrap(kind), ShortType, EntryType)
  BY DEF IsMap, Wrap, EntryType, ShortType
<1>2. /\ Piece(kind, values) \in Seq(EntryType) /\ Len(Piece(kind, values)) = Len(values)
      /\ \A i \in 1..Len(values) : Piece(kind, values)[i] = Wrap(kind)[values[i]]
  BY <1>1, MappedType DEF Piece
<1>3. \A i \in 1..Len(values) : values[i] \in ShortType
  BY ElementOfSeq
<1>4. \A i \in 1..Len(values) : Wrap(kind)[values[i]] = [kind |-> kind, value |-> values[i]]
  BY <1>3 DEF Wrap
<1> QED BY <1>1, <1>2, <1>3, <1>4

\* Writing each element of a list as an entry of a kind.
LEMMA ListIsWritten ==
  ASSUME NEW kind \in Byte, NEW S, NEW f, IsMap(f, S, ShortType), NEW list \in Seq(S)
  PROVE  /\ Mapped(f, list) \in Seq(ShortType)
         /\ Cashu!FlattenSeq([i \in DOMAIN list |-> Cashu!Entry(kind, f[list[i]])])
              = Written(Piece(kind, Mapped(f, list)))
<1> DEFINE vs == Mapped(f, list)
           es == Piece(kind, vs)
           ws == Mapped(WriteEntry, es)
<1>1. vs \in Seq(ShortType) /\ Len(vs) = Len(list) /\ \A i \in 1..Len(list) : vs[i] = f[list[i]]
  BY MappedType
<1> HIDE DEF vs
<1>2. /\ es \in Seq(EntryType) /\ Len(es) = Len(vs)
      /\ \A i \in 1..Len(vs) : vs[i] \in ShortType /\ es[i] = [kind |-> kind, value |-> vs[i]]
  BY <1>1, PieceType
<1> HIDE DEF es
<1>3. ws \in Seq(Bytes) /\ Len(ws) = Len(es) /\ \A i \in 1..Len(es) : ws[i] = WriteEntry[es[i]]
  BY <1>2, WriteEntryIsMap, MappedType
<1> HIDE DEF ws
<1>4. DOMAIN ws = 1..Len(list) /\ DOMAIN list = 1..Len(list) /\ ws = [i \in DOMAIN ws |-> ws[i]]
  <2>1. DOMAIN ws = 1..Len(ws) /\ DOMAIN list = 1..Len(list) /\ ws \in [1..Len(ws) -> Bytes]
    BY <1>3, LenProperties
  <2> QED BY <1>1, <1>2, <1>3, <2>1
<1>5. ASSUME NEW i \in 1..Len(list) PROVE ws[i] = Cashu!Entry(kind, f[list[i]])
  <2>1. es[i] = [kind |-> kind, value |-> f[list[i]]] /\ es[i] \in EntryType
    <3>1. i \in 1..Len(es)
      BY <1>1, <1>2
    <3>2. es[i] \in EntryType
      BY <1>2, <3>1, ElementOfSeq
    <3> QED BY <1>1, <1>2, <3>2
  <2>2. ws[i] = WriteEntry[es[i]]
    BY <1>1, <1>2, <1>3
  <2> QED BY <2>1, <2>2 DEF WriteEntry
<1>6. [i \in DOMAIN list |-> Cashu!Entry(kind, f[list[i]])] = ws
  BY <1>4, <1>5
<1>7. Cashu!FlattenSeq(ws) = Flat(ws)
  BY <1>3, FlattenOf DEF Bytes
<1> QED BY <1>1, <1>6, <1>7 DEF vs, es, ws, Written

LEMMA OneIsWritten ==
  ASSUME NEW kind \in Byte, NEW v \in ShortType
  PROVE  /\ <<v>> \in Seq(ShortType) /\ <<>> \in Seq(ShortType)
         /\ Written(Piece(kind, <<v>>)) = Cashu!Entry(kind, v)
         /\ Written(Piece(kind, <<>>)) = <<>>
<1> DEFINE e == [kind |-> kind, value |-> v]
<1>1. IsMap(Wrap(kind), ShortType, EntryType)
  BY PieceType, EmptySeq
<1>2. Piece(kind, <<v>>) = <<e>> /\ Piece(kind, <<>>) = <<>>
  <2>1. Mapped(Wrap(kind), <<v>>) = <<Wrap(kind)[v]>> /\ Mapped(Wrap(kind), <<>>) = <<>>
    BY <1>1, MappedOne
  <2>2. Wrap(kind)[v] = e
    BY DEF Wrap
  <2> QED BY <2>1, <2>2 DEF Piece
<1>3. e \in EntryType /\ WriteEntry[e] = Cashu!Entry(kind, v)
  <2>1. e \in EntryType
    BY DEF EntryType, ShortType
  <2>2. e.kind = kind /\ e.value = v
    OBVIOUS
  <2> HIDE DEF e
  <2> QED BY <2>1, <2>2 DEF WriteEntry
<1> HIDE DEF e
<1>4. /\ Mapped(WriteEntry, <<e>>) = <<WriteEntry[e]>> /\ Mapped(WriteEntry, <<>>) = <<>>
      /\ WriteEntry[e] \in Bytes
  BY <1>3, WriteEntryIsMap, MappedOne DEF IsMap
<1>5. Flat(<<WriteEntry[e]>>) = WriteEntry[e]
  <2> DEFINE w == WriteEntry[e]
  <2>1. w \in Seq(Byte) /\ <<>> \in Seq(Seq(Byte))
    BY <1>4 DEF Bytes
  <2> HIDE DEF w
  <2>2. Flat(<<w>>) = w
    BY <2>1, FlatCons
  <2> QED BY <2>2 DEF w
<1> QED BY <1>2, <1>3, <1>4, <1>5, FlatOfNone DEF Written

LEMMA WrittenConcat ==
  ASSUME NEW s \in Seq(EntryType), NEW t \in Seq(EntryType)
  PROVE  Written(s \o t) = Written(s) \o Written(t) /\ s \o t \in Seq(EntryType)
<1>1. Mapped(WriteEntry, s \o t) = Mapped(WriteEntry, s) \o Mapped(WriteEntry, t)
  BY WriteEntryIsMap, MappedConcat
<1>2. Mapped(WriteEntry, s) \in Seq(Bytes) /\ Mapped(WriteEntry, t) \in Seq(Bytes)
  BY WriteEntryIsMap, MappedType
<1>3. Flat(Mapped(WriteEntry, s) \o Mapped(WriteEntry, t))
        = Flat(Mapped(WriteEntry, s)) \o Flat(Mapped(WriteEntry, t))
  BY <1>2, FlatConcat DEF Bytes
<1>4. s \o t \in Seq(EntryType)
  BY ConcatProperties
<1> QED BY <1>1, <1>3, <1>4 DEF Written

\* The values of a kind.
ValueOf(kind) == [e \in EntryType |-> IF e.kind = kind THEN <<e.value>> ELSE <<>>]

LEMMA ValuesOf ==
  ASSUME NEW kind, NEW es \in Seq(EntryType)
  PROVE  /\ IsMap(ValueOf(kind), EntryType, Seq(ShortType))
         /\ Cashu!Values(es, kind) = Flat(Mapped(ValueOf(kind), es))
         /\ Cashu!Values(es, kind) \in Seq(ShortType)
<1> DEFINE Of(e) == IF e.kind = kind THEN <<e.value>> ELSE <<>>
           vs == Mapped(ValueOf(kind), es)
<1>1. IsMap(ValueOf(kind), EntryType, Seq(ShortType))
  <2>1. ASSUME NEW e \in EntryType PROVE ValueOf(kind)[e] \in Seq(ShortType)
    <3>1. e.value \in ShortType
      BY DEF EntryType, ShortType
    <3>2. <<e.value>> \in Seq(ShortType) /\ <<>> \in Seq(ShortType)
      BY <3>1
    <3> QED BY <3>2 DEF ValueOf
  <2>2. ValueOf(kind) = [e \in EntryType |-> ValueOf(kind)[e]]
    BY DEF ValueOf
  <2> QED BY <2>1, <2>2 DEF IsMap
<1>2. vs \in Seq(Seq(ShortType))
  BY <1>1, MappedType
<1>3. DOMAIN es = 1..Len(es) /\ \A i \in DOMAIN es : es[i] \in EntryType
  BY LenProperties, ElementOfSeq
<1>4. [i \in DOMAIN es |-> Of(es[i])] = vs
  BY <1>3 DEF Mapped, ValueOf
<1>5. Cashu!Values(es, kind) = Cashu!FlattenSeq(vs)
  BY <1>4 DEF Cashu!Values
<1> HIDE DEF vs
<1>6. Cashu!FlattenSeq(vs) = Flat(vs) /\ Flat(vs) \in Seq(ShortType)
  BY <1>2, FlattenOf, FlatType
<1> QED BY <1>1, <1>5, <1>6 DEF vs

LEMMA ValuesConcat ==
  ASSUME NEW kind, NEW s \in Seq(EntryType), NEW t \in Seq(EntryType)
  PROVE  Cashu!Values(s \o t, kind) = Cashu!Values(s, kind) \o Cashu!Values(t, kind)
<1> DEFINE f == ValueOf(kind)
           Q == Seq(ShortType)
<1>1. IsMap(f, EntryType, Q)
  BY ValuesOf
<1>2. s \o t \in Seq(EntryType)
  BY ConcatProperties
<1>3. /\ Cashu!Values(s \o t, kind) = Flat(Mapped(f, s \o t))
      /\ Cashu!Values(s, kind) = Flat(Mapped(f, s)) /\ Cashu!Values(t, kind) = Flat(Mapped(f, t))
  BY <1>2, ValuesOf
<1>4. \A x, y \in Seq(Q) : Flat(x \o y) = Flat(x) \o Flat(y)
  BY FlatConcat
<1> HIDE DEF f, Q
<1>5. Mapped(f, s \o t) = Mapped(f, s) \o Mapped(f, t)
  BY <1>1, MappedConcat
<1>6. Mapped(f, s) \in Seq(Q) /\ Mapped(f, t) \in Seq(Q)
  BY <1>1, MappedType
<1> QED BY <1>3, <1>4, <1>5, <1>6

LEMMA FlatOfEmpties ==
  ASSUME NEW S, NEW list \in Seq(Seq(S)), \A i \in 1..Len(list) : list[i] = <<>>
  PROVE  Flat(list) = <<>>
<1>1. PICK h : OneByOne(h, Len(list), "join", <<>>, list) /\ Flat(list) = h[1..Len(list)]
  BY RunOneByOne DEF Flat
<1> DEFINE N == Len(list)
           Bad == {i \in Nat : i <= N /\ h[1..i] # <<>>}
<1>2. N \in Nat
  BY LenProperties
<1>3. h[1..0] = <<>> /\ \A i \in 1..N : h[1..i] = h[1..(i - 1)] \o list[i]
  BY <1>1 DEF OneByOne, Step
<1>4. \A i \in 1..N : list[i] = <<>>
  OBVIOUS
<1> HIDE DEF N
<1>5. SUFFICES ASSUME h[1..N] # <<>> PROVE FALSE
  BY <1>1 DEF N
<1>6. N \in Bad
  BY <1>2, <1>5
<1>7. PICK i \in Bad : \A j \in Bad : i <= j
  <2>1. Bad \subseteq Nat /\ Bad # {}
    BY <1>6
  <2> QED BY <2>1, LeastNumber
<1>8. i \in Nat /\ i <= N /\ h[1..i] # <<>>
  BY <1>7
<1>9. i # 0
  BY <1>3, <1>8
<1>10. i \in 1..N /\ i - 1 \in Nat /\ i - 1 <= N /\ ~(i <= i - 1)
  BY <1>2, <1>8, <1>9
<1>11. h[1..(i - 1)] = <<>>
  BY <1>7, <1>10
<1>12. <<>> \o <<>> = <<>>
  BY EmptySeq, ConcatEmptySeq
<1> QED BY <1>3, <1>4, <1>8, <1>10, <1>11, <1>12

LEMMA ValuesOfPiece ==
  ASSUME NEW kind \in Byte, NEW k, NEW values \in Seq(ShortType)
  PROVE  Cashu!Values(Piece(kind, values), k) = IF k = kind THEN values ELSE <<>>
<1> DEFINE es == Piece(kind, values)
           f == ValueOf(k)
           Q == Seq(ShortType)
           n == Len(values)
<1>1. /\ es \in Seq(EntryType) /\ Len(es) = n
      /\ \A i \in 1..n : values[i] \in ShortType /\ es[i] = [kind |-> kind, value |-> values[i]]
  BY PieceType
<1>2. \A i \in 1..n : es[i] \in EntryType
  BY <1>1, ElementOfSeq
<1> HIDE DEF es
<1>3. IsMap(f, EntryType, Q) /\ Cashu!Values(es, k) = Flat(Mapped(f, es))
  BY <1>1, ValuesOf
<1>4. \A i \in 1..n : f[es[i]] = IF kind = k THEN <<values[i]>> ELSE <<>>
  <2> SUFFICES ASSUME NEW i \in 1..n
               PROVE  f[es[i]] = IF kind = k THEN <<values[i]>> ELSE <<>>
    OBVIOUS
  <2>1. es[i] \in EntryType /\ es[i].kind = kind /\ es[i].value = values[i]
    <3>1. es[i] = [kind |-> kind, value |-> values[i]]
      BY <1>1, Zenon
    <3>2. es[i] \in EntryType
      BY <1>2, Zenon
    <3> HIDE DEF f
    <3> QED BY <3>1, <3>2
  <2>2. f[es[i]] = IF es[i].kind = k THEN <<es[i].value>> ELSE <<>>
    BY <2>1 DEF ValueOf
  <2> QED BY <2>1, <2>2
<1> HIDE DEF f
<1>5. /\ Mapped(f, es) \in Seq(Q) /\ Len(Mapped(f, es)) = n
      /\ \A i \in 1..n : Mapped(f, es)[i] = f[es[i]]
  <2> HIDE DEF Q
  <2> QED BY <1>1, <1>3, MappedType
<1>6. CASE k = kind
  <2> DEFINE g == Single(ShortType)
  <2>1. IsMap(g, ShortType, Q)
    BY DEF Single, IsMap
  <2>2. \A i \in 1..n : g[values[i]] = <<values[i]>>
    BY <1>1 DEF Single
  <2>3. Flat(Mapped(g, values)) = values
    BY FlatOfSingles
  <2> HIDE DEF g, Q
  <2>4. /\ Mapped(g, values) \in Seq(Q) /\ Len(Mapped(g, values)) = n
        /\ \A i \in 1..n : Mapped(g, values)[i] = g[values[i]]
    BY <2>1, MappedType
  <2>5. \A i \in 1..n : Mapped(f, es)[i] = Mapped(g, values)[i]
    BY <1>4, <1>5, <1>6, <2>2, <2>4
  <2>6. Mapped(f, es) = Mapped(g, values)
    BY <1>5, <2>4, <2>5, SeqEqual
  <2> QED BY <1>3, <1>6, <2>3, <2>6 DEF es
<1>7. CASE k # kind
  <2>1. \A i \in 1..Len(Mapped(f, es)) : Mapped(f, es)[i] = <<>>
    BY <1>4, <1>5, <1>7
  <2>2. Flat(Mapped(f, es)) = <<>>
    BY <1>5, <2>1, FlatOfEmpties
  <2> QED BY <1>3, <1>7, <2>2 DEF es
<1> QED BY <1>6, <1>7

\* Bytes w that are lists of values, of the kinds from 1 to n.
Made(es, w, n, vs) ==
  /\ es \in Seq(EntryType) /\ Written(es) = w
  /\ \A k \in Nat : Cashu!Values(es, k) = IF k \in 1..n THEN vs[k] ELSE <<>>
  /\ \A e \in Range(es) : e.kind \in 1..n /\ e.value \in Range(vs[e.kind])

LEMMA RangeOfPiece ==
  ASSUME NEW kind \in Byte, NEW values \in Seq(ShortType), NEW e \in Range(Piece(kind, values))
  PROVE  e.kind = kind /\ e.value \in Range(values)
<1> DEFINE es == Piece(kind, values)
<1>1. /\ es \in Seq(EntryType) /\ Len(es) = Len(values)
      /\ \A i \in 1..Len(values) : es[i] = [kind |-> kind, value |-> values[i]]
  BY PieceType
<1> HIDE DEF es
<1>2. Range(es) = {es[i] : i \in 1..Len(es)} /\ Range(values) = {values[i] : i \in 1..Len(values)}
  BY <1>1, RangeEquality
<1>3. PICK i \in 1..Len(values) : e = es[i]
  BY <1>1, <1>2 DEF es
<1>4. e = [kind |-> kind, value |-> values[i]]
  BY <1>1, <1>3
<1> QED BY <1>2, <1>4

LEMMA MadeOneMore ==
  ASSUME NEW n \in 0..7, NEW vs, NEW es, NEW w, Made(es, w, n, vs),
         vs[n + 1] \in Seq(ShortType)
  PROVE  Made(es \o Piece(n + 1, vs[n + 1]), w \o Written(Piece(n + 1, vs[n + 1])), n + 1, vs)
<1> DEFINE j == n + 1
           l == vs[j]
           more == Piece(j, l)
<1>1. j \in Byte /\ j \in Nat /\ j \notin 1..n /\ 1..j = (1..n) \cup {j}
  BY BytesAreNumbers, ConstantsAssumption
<1>2. es \in Seq(EntryType) /\ Written(es) = w /\ l \in Seq(ShortType)
  BY DEF Made
<1>3. \A k \in Nat : Cashu!Values(es, k) = IF k \in 1..n THEN vs[k] ELSE <<>>
  BY DEF Made
<1>4. \A e \in Range(es) : e.kind \in 1..n /\ e.value \in Range(vs[e.kind])
  BY DEF Made
<1> HIDE DEF j, l
<1>5. more \in Seq(EntryType)
  BY <1>1, <1>2, PieceType
<1>6. \A e \in Range(more) : e.kind = j /\ e.value \in Range(l)
  BY <1>1, <1>2, RangeOfPiece
<1>7. \A k \in Nat : Cashu!Values(more, k) = IF k = j THEN l ELSE <<>>
  BY <1>1, <1>2, ValuesOfPiece
<1> HIDE DEF more
<1>8. es \o more \in Seq(EntryType) /\ Written(es \o more) = w \o Written(more)
  BY <1>2, <1>5, WrittenConcat
<1>9. \A e \in Range(es \o more) : e.kind \in 1..j /\ e.value \in Range(vs[e.kind])
  <2>1. Range(es \o more) = Range(es) \cup Range(more)
    BY <1>2, <1>5, RangeConcatenation
  <2> QED BY <1>1, <1>4, <1>6, <2>1 DEF l
<1>10. ASSUME NEW k \in Nat
       PROVE  Cashu!Values(es \o more, k) = IF k \in 1..j THEN vs[k] ELSE <<>>
  <2>1. Cashu!Values(es \o more, k) = Cashu!Values(es, k) \o Cashu!Values(more, k)
    BY <1>2, <1>5, ValuesConcat
  <2>2. CASE k = j
    <3>1. Cashu!Values(es, k) = <<>> /\ Cashu!Values(more, k) = l /\ k \in 1..j
      BY <1>1, <1>3, <1>7, <2>2
    <3>2. <<>> \o l = l
      BY <1>2, ConcatEmptySeq
    <3> QED BY <2>1, <2>2, <3>1, <3>2 DEF l
  <2>3. CASE k # j
    <3>1. Cashu!Values(more, k) = <<>> /\ Cashu!Values(es, k) \in Seq(ShortType)
      BY <1>2, <1>7, <2>3, ValuesOf
    <3>2. Cashu!Values(es, k) \o <<>> = Cashu!Values(es, k)
      BY <3>1, ConcatEmptySeq
    <3>3. k \in 1..j <=> k \in 1..n
      BY <1>1, <2>3
    <3> QED BY <1>3, <2>1, <3>1, <3>2, <3>3
  <2> QED BY <2>2, <2>3
<1>11. Made(es \o more, w \o Written(more), j, vs)
  BY <1>8, <1>9, <1>10 DEF Made
<1> QED BY <1>11 DEF more, l, j

LEMMA MadeOfNone == \A vs : Made(<<>>, <<>>, 0, vs)
<1>1. <<>> \in Seq(EntryType) /\ Written(<<>>) = <<>>
  <2>1. Mapped(WriteEntry, <<>>) = <<>>
    BY DEF Mapped
  <2> QED BY <2>1, FlatOfNone, EmptySeq DEF Written
<1>2. \A k \in Nat : Cashu!Values(<<>>, k) = <<>> /\ k \notin 1..0
  <2> SUFFICES ASSUME NEW k \in Nat PROVE Cashu!Values(<<>>, k) = <<>> /\ k \notin 1..0
    OBVIOUS
  <2>1. Mapped(ValueOf(k), <<>>) = <<>>
    BY DEF Mapped
  <2>2. Cashu!Values(<<>>, k) = Flat(Mapped(ValueOf(k), <<>>))
    BY <1>1, ValuesOf
  <2>3. k \notin 1..0
    OBVIOUS
  <2> QED BY <2>1, <2>2, <2>3, FlatOfNone
<1>3. Range(<<>>) = {}
  BY DEF Range
<1> QED BY <1>1, <1>2, <1>3 DEF Made

LEMMA MadeIsRead ==
  ASSUME NEW es, NEW w, NEW n, NEW vs, Made(es, w, n, vs)
  PROVE  /\ Cashu!Entries[w] = es /\ w \in Bytes
         /\ Cashu!Truncated \notin Range(es) /\ Range(es) = Cashu!Range(es)
<1>1. es \in Seq(EntryType) /\ Written(es) = w
  BY DEF Made
<1>2. Cashu!Entries[w] = es /\ w \in Bytes
  BY <1>1, EntriesAreRead
<1>3. Range(es) \subseteq EntryType
  BY <1>1, RangeOfSeq
<1>4. Cashu!Truncated \notin EntryType
  <2>1. Cashu!Truncated.kind = None /\ None \notin Byte
    BY NoneAssumption, BytesAreNumbers DEF Cashu!Truncated
  <2> QED BY <2>1 DEF EntryType
<1> QED BY <1>2, <1>3, <1>4 DEF Range, Cashu!Range

LEMMA LastValueOf ==
  ASSUME NEW es, NEW k, NEW p \in Seq(ShortType), NEW v \in ShortType,
         Cashu!Values(es, k) = p \o <<v>>
  PROVE  Cashu!LastValue(es, k) = v /\ Cashu!Values(es, k) # <<>>
<1> DEFINE one == <<v>>
           all == p \o one
<1>1. one \in Seq(ShortType) /\ Len(one) = 1 /\ one[1] = v
  OBVIOUS
<1> HIDE DEF one
<1>2. /\ all \in Seq(ShortType) /\ Len(all) = Len(p) + Len(one)
      /\ \A i \in 1..(Len(p) + Len(one)) : all[i] = IF i <= Len(p) THEN p[i] ELSE one[i - Len(p)]
  BY <1>1, ConcatProperties
<1>3. Len(p) \in Nat
  BY LenProperties
<1> HIDE DEF all
<1>4. /\ Len(p) + 1 \in 1..(Len(p) + Len(one)) /\ ~(Len(p) + 1 <= Len(p))
      /\ (Len(p) + 1) - Len(p) = 1 /\ Len(all) = Len(p) + 1 /\ Len(all) # 0
  BY <1>1, <1>2, <1>3
<1>5. all[Len(all)] = v
  BY <1>1, <1>2, <1>4
<1>6. all # <<>>
  BY <1>4
<1>7. Cashu!Values(es, k) = all
  BY DEF all, one
<1> QED BY <1>5, <1>6, <1>7 DEF Cashu!LastValue, Cashu!Last

\* A sequence that begins with an element.
LEMMA HeadAndTail ==
  ASSUME NEW S, NEW e \in S, NEW t \in Seq(S)
  PROVE  /\ <<e>> \o t \in Seq(S) /\ <<e>> \o t # <<>>
         /\ Head(<<e>> \o t) = e /\ Tail(<<e>> \o t) = t
<1> DEFINE one == <<e>>
           u == one \o t
<1>1. one \in Seq(S) /\ Len(one) = 1 /\ one[1] = e
  OBVIOUS
<1> HIDE DEF one
<1>2. /\ u \in Seq(S) /\ Len(u) = Len(one) + Len(t)
      /\ \A i \in 1..(Len(one) + Len(t)) : u[i] = IF i <= Len(one) THEN one[i] ELSE t[i - Len(one)]
  BY <1>1, ConcatProperties
<1>3. SubSeq(u, Len(one) + 1, Len(u)) = t
  BY <1>1, BothParts
<1>4. Len(t) \in Nat
  BY LenProperties
<1> HIDE DEF u
<1>5. 1 \in 1..(Len(one) + Len(t)) /\ 1 <= Len(one) /\ Len(u) # 0 /\ Len(one) + 1 = 2
  BY <1>1, <1>2, <1>4
<1>6. u[1] = e /\ u # <<>>
  BY <1>1, <1>2, <1>5
<1>7. Tail(u) = SubSeq(u, 2, Len(u)) /\ Head(u) = u[1]
  BY <1>2, <1>6, TailIsSubSeq
<1> QED BY <1>2, <1>3, <1>5, <1>6, <1>7 DEF u, one

\* Tags, and what transports and options share.
TagMap == [t \in Cashu!TagType |-> Cashu!TagBytes(t)]

LEMMA TagIsRead ==
  ASSUME NEW t \in Cashu!TagType
  PROVE  LET b == Cashu!TagBytes(t) IN
         /\ b \in ShortType /\ Cashu!TagFits(b) /\ Cashu!Tag(b) = t
<1> DEFINE b == Cashu!TagBytes(t)
           list == <<t.key>> \o t.values
<1>1. /\ t.key \in PartType /\ t.values \in Seq(PartType) /\ Len(b) < Base * Base
      /\ t = [key |-> t.key, values |-> t.values]
  BY DEF Cashu!TagType, PartType
<1>2. b = WritePart[t.key] \o WrittenParts(t.values)
  <2> DEFINE vs == t.values
             ws == Mapped(WritePart, vs)
  <2>1. DOMAIN vs = 1..Len(vs) /\ \A i \in DOMAIN vs : vs[i] \in PartType
    BY <1>1, LenProperties, ElementOfSeq
  <2>2. [i \in DOMAIN vs |-> Cashu!Part(vs[i])] = ws
    BY <2>1 DEF Mapped, WritePart
  <2>3. Cashu!Flat(t.values, Cashu!Part) = Cashu!FlattenSeq(ws)
    BY <2>2 DEF Cashu!Flat
  <2>4. ws \in Seq(Seq(Byte))
    <3> HIDE DEF vs
    <3> DEFINE Q == Seq(Byte)
    <3>1. vs \in Seq(PartType) /\ IsMap(WritePart, PartType, Q)
      BY <1>1, WritePartIsMap DEF vs
    <3> HIDE DEF Q
    <3>2. Mapped(WritePart, vs) \in Seq(Q)
      BY <3>1, MappedType
    <3> QED BY <3>2 DEF Q
  <2> HIDE DEF ws
  <2>5. Cashu!FlattenSeq(ws) = Flat(ws)
    BY <2>4, FlattenOf
  <2>6. Cashu!Part(t.key) = WritePart[t.key]
    BY <1>1 DEF WritePart
  <2>7. Flat(ws) = WrittenParts(t.values)
    BY DEF WrittenParts, ws
  <2> HIDE DEF b
  <2>8. b = Cashu!Part(t.key) \o Cashu!Flat(t.values, Cashu!Part)
    BY DEF b, Cashu!TagBytes
  <2> QED BY <2>3, <2>5, <2>6, <2>7, <2>8
<1> HIDE DEF b
<1>3. list \in Seq(PartType) /\ b = WrittenParts(list)
  BY <1>1, <1>2, WrittenPartsOneMore
<1>4. Head(list) = t.key /\ Tail(list) = t.values /\ list # <<>>
  BY <1>1, HeadAndTail
<1> HIDE DEF list
<1>5. Cashu!Parts[b] = list /\ b \in Bytes
  BY <1>3, PartsAreRead
<1>6. b \in ShortType
  BY <1>1, <1>5, ShortBytes DEF ShortType
<1>7. Cashu!Tag(b) = t
  BY <1>1, <1>4, <1>5 DEF Cashu!Tag
<1>8. Cashu!TagFits(b)
  <2>1. b # <<>>
    BY <1>4, <1>5, EntriesOfNone
  <2>2. \A p \in Range(list) : p \in PartType
    BY <1>3, RangeOfSeq
  <2>3. \A p \in Cashu!Range(list) : Cashu!IsText(p)
    BY <2>2, PartBytes DEF Range, Cashu!Range
  <2> QED BY <1>5, <2>1, <2>3 DEF Cashu!TagFits
<1> QED BY <1>6, <1>7, <1>8 DEF b

LEMMA TagsAreRead ==
  ASSUME NEW tags \in Seq(Cashu!TagType)
  PROVE  /\ Mapped(TagMap, tags) \in Seq(ShortType)
         /\ Cashu!Flat(tags, Cashu!WriteTag) = Written(Piece(3, Mapped(TagMap, tags)))
         /\ Cashu!Tags(Mapped(TagMap, tags)) = tags
         /\ \A b \in Range(Mapped(TagMap, tags)) : Cashu!TagFits(b)
<1> DEFINE T == Cashu!TagType
           bs == Mapped(TagMap, tags)
<1>1. ASSUME NEW t \in T
      PROVE  /\ TagMap[t] = Cashu!TagBytes(t) /\ TagMap[t] \in ShortType
             /\ Cashu!TagFits(TagMap[t]) /\ Cashu!Tag(TagMap[t]) = t
  BY TagIsRead DEF TagMap
<1>2. IsMap(TagMap, T, ShortType)
  <2>1. TagMap = [t \in T |-> TagMap[t]]
    BY DEF TagMap
  <2> QED BY <1>1, <2>1 DEF IsMap
<1>3. tags \in Seq(T) /\ 3 \in Byte
  BY BytesAreNumbers, ConstantsAssumption
<1> HIDE DEF T
<1>4. /\ bs \in Seq(ShortType)
      /\ Cashu!FlattenSeq([i \in DOMAIN tags |-> Cashu!Entry(3, TagMap[tags[i]])])
           = Written(Piece(3, bs))
  BY <1>2, <1>3, ListIsWritten
<1>5. DOMAIN tags = 1..Len(tags) /\ \A i \in DOMAIN tags : tags[i] \in T
  BY <1>3, LenProperties, ElementOfSeq
<1>6. [i \in DOMAIN tags |-> Cashu!WriteTag(tags[i])]
        = [i \in DOMAIN tags |-> Cashu!Entry(3, TagMap[tags[i]])]
  BY <1>1, <1>5 DEF Cashu!WriteTag
<1>7. Cashu!Flat(tags, Cashu!WriteTag) = Written(Piece(3, bs))
  BY <1>4, <1>6 DEF Cashu!Flat
<1>8. /\ Len(bs) = Len(tags) /\ DOMAIN bs = DOMAIN tags
      /\ \A i \in 1..Len(tags) : bs[i] = TagMap[tags[i]]
  <2>1. Len(bs) = Len(tags) /\ \A i \in 1..Len(tags) : bs[i] = TagMap[tags[i]]
    BY <1>2, <1>3, MappedType
  <2>2. DOMAIN bs = 1..Len(bs)
    BY <1>4, LenProperties
  <2> QED BY <1>5, <2>1, <2>2
<1> HIDE DEF bs
<1>9. Cashu!Tags(bs) = tags
  <2>1. \A i \in DOMAIN tags : Cashu!Tag(bs[i]) = tags[i]
    BY <1>1, <1>5, <1>8
  <2>2. tags = [i \in DOMAIN tags |-> tags[i]]
    BY <1>3, <1>5, LenProperties
  <2> QED BY <1>8, <2>1, <2>2 DEF Cashu!Tags
<1>10. \A b \in Range(bs) : Cashu!TagFits(b)
  <2>1. Range(bs) = {bs[i] : i \in 1..Len(bs)}
    BY <1>4, RangeEquality
  <2> QED BY <1>1, <1>5, <1>8, <2>1
<1> QED BY <1>4, <1>7, <1>9, <1>10 DEF bs

OptionRead(bytes, kind, data, tags) ==
  LET es == Cashu!Entries[bytes] IN
  /\ Cashu!OptionFits(es) /\ bytes \in Bytes
  /\ Cashu!LastValue(es, 1) = <<kind>> /\ Cashu!LastValue(es, 2) = data
  /\ Cashu!Tags(Cashu!Values(es, 3)) = tags

LEMMA OneLastValue ==
  ASSUME NEW es, NEW k, NEW v \in ShortType, Cashu!Values(es, k) = <<v>>
  PROVE  Cashu!LastValue(es, k) = v /\ Cashu!Values(es, k) # <<>>
<1>1. <<>> \in Seq(ShortType) /\ <<v>> \in Seq(ShortType)
  OBVIOUS
<1>2. <<>> \o <<v>> = <<v>>
  BY <1>1, ConcatEmptySeq
<1>3. Cashu!Values(es, k) = <<>> \o <<v>>
  BY <1>2
<1> QED BY <1>1, <1>3, LastValueOf

LEMMA OneByte ==
  ASSUME NEW b \in Byte
  PROVE  <<b>> \in ShortType /\ Len(<<b>>) = 1 /\ (b < Base - 1 => Cashu!IsText(<<b>>))
<1> DEFINE one == <<b>>
<1>1. one \in Bytes /\ Len(one) = 1 /\ one[1] = b /\ DOMAIN one = 1..1
  BY DEF Bytes
<1> HIDE DEF one
<1>2. Base \in Nat /\ 9 <= Base
  BY ConstantsAssumption
<1>3. 1 < Base * Base
  <2>1. Base * Base >= Base * 9
    BY <1>2, LargerTimes
  <2> QED BY <1>2, <2>1
<1>4. one \in ShortType
  BY <1>1, <1>3, ShortBytes DEF ShortType
<1>5. b < Base - 1 => Cashu!IsText(one)
  <2>1. \A i \in DOMAIN one : one[i] = b
    BY <1>1
  <2> QED BY <2>1 DEF Cashu!IsText
<1> QED BY <1>1, <1>4, <1>5 DEF one

LEMMA OptionIsRead ==
  ASSUME NEW kind \in Byte, NEW data \in ShortType, NEW tags \in Seq(Cashu!TagType)
  PROVE  OptionRead(Cashu!WriteOption(kind, data, tags), kind, data, tags)
<1> DEFINE bytes == Cashu!WriteOption(kind, data, tags)
           bs == Mapped(TagMap, tags)
           one == <<kind>>
           vs == << <<one>>, <<data>>, bs >>
           w1 == Written(Piece(1, vs[1]))
           w2 == Written(Piece(2, vs[2]))
           w3 == Written(Piece(3, vs[3]))
<1>1. one \in ShortType /\ Len(one) = 1
  BY OneByte
<1>2. /\ bs \in Seq(ShortType) /\ Cashu!Flat(tags, Cashu!WriteTag) = Written(Piece(3, bs))
      /\ Cashu!Tags(bs) = tags /\ \A b \in Range(bs) : Cashu!TagFits(b)
  BY TagsAreRead
<1>3. bytes = (Cashu!Entry(1, one) \o Cashu!Entry(2, data)) \o Cashu!Flat(tags, Cashu!WriteTag)
  BY DEF Cashu!WriteOption
<1> HIDE DEF bs, one, bytes
<1>4. vs[1] = <<one>> /\ vs[2] = <<data>> /\ vs[3] = bs
  OBVIOUS
<1> HIDE DEF vs
<1>5. 1 \in Byte /\ 2 \in Byte /\ 3 \in Byte
  BY BytesAreNumbers, ConstantsAssumption
<1>6. /\ vs[1] \in Seq(ShortType) /\ vs[2] \in Seq(ShortType) /\ vs[3] \in Seq(ShortType)
      /\ w1 = Cashu!Entry(1, one) /\ w2 = Cashu!Entry(2, data)
  BY <1>1, <1>2, <1>4, <1>5, OneIsWritten
<1>7. PICK es1, u1 : Made(es1, u1, 1, vs) /\ u1 = <<>> \o w1
  <2>1. Made(<<>>, <<>>, 0, vs) /\ 0 \in 0..7 /\ 0 + 1 = 1
    BY MadeOfNone
  <2>2. Made(<<>> \o Piece(0 + 1, vs[0 + 1]), <<>> \o Written(Piece(0 + 1, vs[0 + 1])), 0 + 1, vs)
    BY <1>6, <2>1, MadeOneMore
  <2> QED BY <2>1, <2>2
<1>8. PICK es2, u2 : Made(es2, u2, 2, vs) /\ u2 = u1 \o w2
  <2>1. 1 \in 0..7 /\ 1 + 1 = 2
    OBVIOUS
  <2>2. Made(es1 \o Piece(1 + 1, vs[1 + 1]), u1 \o Written(Piece(1 + 1, vs[1 + 1])), 1 + 1, vs)
    BY <1>6, <1>7, <2>1, MadeOneMore
  <2> QED BY <2>1, <2>2
<1>9. PICK es, u : Made(es, u, 3, vs) /\ u = u2 \o w3
  <2>1. 2 \in 0..7 /\ 2 + 1 = 3
    OBVIOUS
  <2>2. Made(es2 \o Piece(2 + 1, vs[2 + 1]), u2 \o Written(Piece(2 + 1, vs[2 + 1])), 2 + 1, vs)
    BY <1>6, <1>8, <2>1, MadeOneMore
  <2> QED BY <2>1, <2>2
<1>10. u = bytes
  <2>1. <<>> \o w1 = w1
    <3>1. w1 \in Seq(Byte)
      BY <1>1, <1>5, <1>6, HeadOfEntry DEF ShortType, Bytes
    <3> QED BY <3>1, ConcatEmptySeq
  <2> QED BY <1>2, <1>3, <1>4, <1>6, <1>7, <1>8, <1>9, <2>1
<1>11. /\ Cashu!Entries[bytes] = es /\ bytes \in Bytes
       /\ Cashu!Truncated \notin Cashu!Range(es)
  BY <1>9, <1>10, MadeIsRead
<1>12. /\ Cashu!Values(es, 1) = <<one>> /\ Cashu!Values(es, 2) = <<data>>
       /\ Cashu!Values(es, 3) = bs
  <2>1. \A k \in Nat : Cashu!Values(es, k) = IF k \in 1..3 THEN vs[k] ELSE <<>>
    BY <1>9 DEF Made
  <2>2. 1 \in Nat /\ 2 \in Nat /\ 3 \in Nat /\ 1 \in 1..3 /\ 2 \in 1..3 /\ 3 \in 1..3
    OBVIOUS
  <2> QED BY <1>4, <2>1, <2>2
<1>13. /\ Cashu!LastValue(es, 1) = one /\ Cashu!LastValue(es, 2) = data
       /\ Cashu!Values(es, 1) # <<>> /\ Cashu!Values(es, 2) # <<>>
  BY <1>1, <1>12, OneLastValue
<1>14. Cashu!OptionFits(es)
  <2>1. \A x \in Cashu!Range(<<one>>) : x = one
    BY DEF Cashu!Range
  <2>2. Cashu!Range(bs) = Range(bs)
    BY DEF Cashu!Range, Range
  <2> QED BY <1>1, <1>2, <1>11, <1>12, <1>13, <2>1, <2>2 DEF Cashu!OptionFits
<1> QED BY <1>2, <1>11, <1>12, <1>13, <1>14 DEF OptionRead, bytes, one

\* Transports and the NUT-10 option.
LEMMA TransportIsRead ==
  ASSUME NEW t \in Cashu!TransportType
  PROVE  LET b == Cashu!WriteOption(t.kind, t.target.of, t.tags) IN
         b \in ShortType /\ Cashu!TransportFits(b) /\ Cashu!Transport(b) = t
<1> DEFINE b == Cashu!WriteOption(t.kind, t.target.of, t.tags)
           es == Cashu!Entries[b]
<1>1. /\ t.kind \in Byte /\ t.target \in Cashu!Shown /\ t.tags \in Seq(Cashu!TagType)
      /\ t = [kind |-> t.kind, target |-> t.target, tags |-> t.tags]
      /\ t.target.text <=> t.kind = 1
      /\ t.kind = 1 => Cashu!IsText(t.target.of)
      /\ Len(b) < Base * Base
  BY DEF Cashu!TransportType, Byte
<1>2. /\ t.target.of \in ShortType /\ t.target.text \in BOOLEAN
      /\ t.target = [text |-> t.target.text, of |-> t.target.of]
  BY <1>1 DEF Cashu!Shown, ShortType
<1>3. OptionRead(b, t.kind, t.target.of, t.tags)
  BY <1>1, <1>2, OptionIsRead
<1> HIDE DEF b
<1>4. /\ Cashu!OptionFits(es) /\ b \in Bytes
      /\ Cashu!LastValue(es, 1) = <<t.kind>> /\ Cashu!LastValue(es, 2) = t.target.of
      /\ Cashu!Tags(Cashu!Values(es, 3)) = t.tags
  BY <1>3 DEF OptionRead
<1>5. b \in ShortType
  BY <1>1, <1>4, ShortBytes DEF ShortType
<1>6. <<t.kind>> = <<1>> <=> t.kind = 1
  OBVIOUS
<1> HIDE DEF es
<1>7. Cashu!LastValue(es, 1) = <<1>> <=> t.kind = 1
  BY <1>4, <1>6
<1>8. Cashu!TransportFits(b)
  BY <1>1, <1>4, <1>7 DEF Cashu!TransportFits, es
<1>9. Cashu!Transport(b) = t
  <2>1. Cashu!Display(t.target.of, Cashu!LastValue(es, 1) = <<1>>) = t.target
    <3>1. (Cashu!LastValue(es, 1) = <<1>>) = t.target.text
      BY <1>1, <1>2, <1>7
    <3> QED BY <1>2, <3>1 DEF Cashu!Display
  <2>2. Cashu!LastValue(es, 1)[1] = t.kind
    BY <1>4
  <2>3. Cashu!Transport(b)
          = [kind |-> Cashu!LastValue(es, 1)[1],
             target |-> Cashu!Display(Cashu!LastValue(es, 2), Cashu!LastValue(es, 1) = <<1>>),
             tags |-> Cashu!Tags(Cashu!Values(es, 3))]
    BY DEF Cashu!Transport, es
  <2> QED BY <1>1, <1>4, <2>1, <2>2, <2>3
<1> QED BY <1>5, <1>8, <1>9 DEF b

LEMMA Nut10IsRead ==
  ASSUME NEW o \in Cashu!Nut10Type
  PROVE  LET b == Cashu!WriteOption(o.kind, o.data.of, o.tags) IN
         b \in ShortType /\ Cashu!OptionFits(Cashu!Entries[b]) /\ Cashu!Nut10(b) = o
<1> DEFINE b == Cashu!WriteOption(o.kind, o.data.of, o.tags)
           es == Cashu!Entries[b]
<1>1. /\ o.kind \in Byte /\ o.data \in Cashu!Shown /\ o.tags \in Seq(Cashu!TagType)
      /\ o = [kind |-> o.kind, data |-> o.data, tags |-> o.tags]
      /\ o.data.text <=> Cashu!IsText(o.data.of)
      /\ Len(b) < Base * Base
  BY DEF Cashu!Nut10Type, Byte
<1>2. /\ o.data.of \in ShortType /\ o.data.text \in BOOLEAN
      /\ o.data = [text |-> o.data.text, of |-> o.data.of]
  BY <1>1 DEF Cashu!Shown, ShortType
<1>3. OptionRead(b, o.kind, o.data.of, o.tags)
  BY <1>1, <1>2, OptionIsRead
<1> HIDE DEF b
<1>4. /\ Cashu!OptionFits(es) /\ b \in Bytes
      /\ Cashu!LastValue(es, 1) = <<o.kind>> /\ Cashu!LastValue(es, 2) = o.data.of
      /\ Cashu!Tags(Cashu!Values(es, 3)) = o.tags
  BY <1>3 DEF OptionRead
<1>5. b \in ShortType
  BY <1>1, <1>4, ShortBytes DEF ShortType
<1> HIDE DEF es
<1>6. Cashu!Nut10(b) = o
  <2>1. Cashu!Display(o.data.of, Cashu!IsText(o.data.of)) = o.data
    <3>1. Cashu!IsText(o.data.of) = o.data.text
      BY <1>1, <1>2 DEF Cashu!IsText
    <3> QED BY <1>2, <3>1 DEF Cashu!Display
  <2>2. Cashu!LastValue(es, 1)[1] = o.kind
    BY <1>4
  <2>3. Cashu!Nut10(b)
          = [kind |-> Cashu!LastValue(es, 1)[1],
             data |-> Cashu!Display(Cashu!LastValue(es, 2), Cashu!IsText(Cashu!LastValue(es, 2))),
             tags |-> Cashu!Tags(Cashu!Values(es, 3))]
    BY DEF Cashu!Nut10, es
  <2> QED BY <1>1, <1>4, <2>1, <2>2, <2>3
<1> QED BY <1>4, <1>5, <1>6 DEF b, es

-----------------------------------------------------------------------------
(* The fields of a request.                                                *)

\* A field there may be.
Listed(value, bytes) == IF value = None THEN <<>> ELSE <<bytes>>

LEMMA FieldIsWritten ==
  ASSUME NEW kind \in Byte, NEW value, NEW bytes, value # None => bytes \in ShortType
  PROVE  /\ Listed(value, bytes) \in Seq(ShortType)
         /\ Written(Piece(kind, Listed(value, bytes)))
              = IF value = None THEN <<>> ELSE Cashu!Entry(kind, bytes)
         /\ \A v \in Range(Listed(value, bytes)) : value # None /\ v = bytes
<1>1. CASE value = None
  <2>1. Listed(value, bytes) = <<>> /\ Range(<<>>) = {}
    BY <1>1 DEF Listed, Range
  <2>2. <<>> \in Seq(ShortType) /\ Written(Piece(kind, <<>>)) = <<>>
    <3>1. Piece(kind, <<>>) = <<>> /\ Mapped(WriteEntry, <<>>) = <<>>
      BY DEF Piece, Mapped
    <3> QED BY <3>1, FlatOfNone, EmptySeq DEF Written
  <2> QED BY <1>1, <2>1, <2>2
<1>2. CASE value # None
  <2>1. Listed(value, bytes) = <<bytes>> /\ \A v \in Range(<<bytes>>) : v = bytes
    BY <1>2 DEF Listed, Range
  <2>2. <<bytes>> \in Seq(ShortType) /\ Written(Piece(kind, <<bytes>>)) = Cashu!Entry(kind, bytes)
    BY <1>2, OneIsWritten
  <2> QED BY <1>2, <2>1, <2>2
<1> QED BY <1>1, <1>2

LEMMA FieldIsRead ==
  ASSUME NEW es, NEW k, NEW value, NEW bytes, value # None => bytes \in ShortType,
         NEW p \in Seq(ShortType), Cashu!Values(es, k) = p \o Listed(value, bytes),
         value = None => p = <<>>
  PROVE  Cashu!LastValue(es, k) = IF value = None THEN None ELSE bytes
<1>1. CASE value = None
  <2>1. Cashu!Values(es, k) = <<>>
    BY <1>1, EmptySeq, ConcatEmptySeq DEF Listed
  <2> QED BY <1>1, <2>1 DEF Cashu!LastValue
<1>2. CASE value # None
  <2>1. Cashu!Values(es, k) = p \o <<bytes>> /\ bytes \in ShortType
    BY <1>2 DEF Listed
  <2> QED BY <1>2, <2>1, LastValueOf
<1> QED BY <1>1, <1>2

\* The values of a request, of each kind.
AmountBytes(r) == <<r.amount \div Base, r.amount % Base>>
SingleByte(r)  == IF r.single_use THEN <<1>> ELSE <<0>>
Nut10Bytes(r)  == Cashu!WriteOption(r.nut10.kind, r.nut10.data.of, r.nut10.tags)
TransportMap   == [t \in Cashu!TransportType |-> Cashu!WriteOption(t.kind, t.target.of, t.tags)]

ListsOf(r) ==
  << Listed(r.id, r.id), Listed(r.amount, AmountBytes(r)), Listed(r.unit, r.unit.of),
     Listed(r.single_use, SingleByte(r)), r.mints, Listed(r.description, r.description),
     Mapped(TransportMap, r.transports), Listed(r.nut10, Nut10Bytes(r)) >>

\* A number of so many bytes.
LEMMA NumberIsRun ==
  ASSUME NEW S, NEW bytes \in Seq(S)
  PROVE  Cashu!Number(bytes) = Run("bytes", 0, bytes)
<1> DEFINE D == 1..Len(bytes)
           Raw(h) == [s \in SUBSET D |->
                        IF s = {} THEN 0
                        ELSE h[s \ {Greatest(s)}] * Base + bytes[Greatest(s)]]
<1>1. Len(bytes) \in Nat /\ DOMAIN bytes = D
  BY LenProperties
<1>2. Cashu!Number(bytes) = (CHOOSE h : h = Raw(h))[D]
  BY <1>1 DEF Cashu!Number, Cashu!FoldLeft, Cashu!MapThenFoldSet, Cashu!Max, Greatest
<1>3. \A h : h = Raw(h) <=> Folds(h, SUBSET D, "bytes", 0, bytes)
  BY DEF Folds, Step
<1> HIDE DEF Raw
<1>4. (CHOOSE h : h = Raw(h)) = (CHOOSE h : Folds(h, SUBSET D, "bytes", 0, bytes))
  BY <1>3
<1> QED BY <1>2, <1>4 DEF Run

LEMMA FieldTypes ==
  ASSUME NEW r \in Cashu!Request
  PROVE  /\ r.id # None => r.id \in ShortType /\ Cashu!IsText(r.id)
         /\ r.amount # None => AmountBytes(r) \in ShortType /\ Len(AmountBytes(r)) = 2
                               /\ Cashu!Number(AmountBytes(r)) = r.amount
         /\ r.unit # None => r.unit.of \in ShortType /\ Cashu!Unit(r.unit.of) = r.unit
         /\ r.single_use # None => /\ SingleByte(r) \in ShortType /\ SingleByte(r) \in {<<0>>, <<1>>}
                                   /\ (SingleByte(r) = <<1>>) = r.single_use
         /\ r.description # None => r.description \in ShortType /\ Cashu!IsText(r.description)
<1>1. \A b \in Byte : <<b>> \in ShortType
  BY OneByte
<1>2. 0 \in Byte /\ 1 \in Byte /\ Base \in Nat /\ 9 <= Base
  BY BytesAreNumbers, ConstantsAssumption
<1>3. ASSUME r.id # None PROVE r.id \in ShortType /\ Cashu!IsText(r.id)
  BY <1>3 DEF Cashu!Request, Cashu!Text, ShortType
<1>4. ASSUME r.description # None PROVE r.description \in ShortType /\ Cashu!IsText(r.description)
  BY <1>4 DEF Cashu!Request, Cashu!Text, ShortType
<1>5. ASSUME r.amount # None
      PROVE  /\ AmountBytes(r) \in ShortType /\ Len(AmountBytes(r)) = 2
             /\ Cashu!Number(AmountBytes(r)) = r.amount
  <2> DEFINE n == r.amount
             a == n \div Base
             b == n % Base
             two == <<a, b>>
  <2>1. n \in Nat /\ n < Base * Base
    <3>1. n \in 0..Base * Base - 1
      BY <1>5 DEF Cashu!Request
    <3>2. Base * Base \in Nat
      BY <1>2
    <3> QED BY <3>1, <3>2
  <2>2. a \in Byte /\ b \in Byte /\ a * Base + b = n
    BY <2>1, TwoBytes
  <2> HIDE DEF n, a, b
  <2>3. two \in Bytes /\ Len(two) = 2
    BY <2>2 DEF Bytes
  <2>4. 2 < Base * Base
    <3>1. Base * Base >= Base * 9
      BY <1>2, LargerTimes
    <3> QED BY <1>2, <3>1
  <2>5. two \in ShortType
    BY <2>3, <2>4, ShortBytes DEF ShortType
  <2>6. Cashu!Number(two) = Run("bytes", 0, two)
    BY <2>3, NumberIsRun DEF Bytes
  <2>7. Run("bytes", 0, two) = n
    <3> DEFINE one == <<a>>
               none == <<>>
    <3>1. one \in Seq(Byte) /\ none \in Seq(Byte)
      BY <2>2
    <3>2. Append(one, b) = two
      <4> DEFINE t == Append(one, b)
      <4>1. one[1] = a /\ Len(one) = 1 /\ two[1] = a /\ two[2] = b /\ two \in Seq(Byte)
        BY <2>3 DEF Bytes
      <4> HIDE DEF one, two
      <4>2. /\ t \in Seq(Byte) /\ Len(t) = Len(one) + 1
            /\ \A i \in 1..Len(one) : t[i] = one[i]
            /\ t[Len(one) + 1] = b
        BY <2>2, <3>1, AppendProperties
      <4> HIDE DEF t
      <4>3. Len(t) = 2 /\ t[1] = a /\ t[2] = b
        BY <4>1, <4>2
      <4>4. \A i \in 1..Len(t) : t[i] = two[i]
        BY <4>1, <4>3
      <4>5. t = two
        BY <2>3, <4>1, <4>2, <4>3, <4>4, SeqEqual
      <4> QED BY <4>5 DEF t
    <3>3. Append(none, a) = one
      OBVIOUS
    <3>4. Run("bytes", 0, none) = 0
      BY RunOfNone
    <3> HIDE DEF one, none, two
    <3>5. Run("bytes", 0, Append(none, a)) = Step("bytes", Run("bytes", 0, none), a)
      BY <2>2, <3>1, RunOfOneMore
    <3>6. Run("bytes", 0, Append(one, b)) = Step("bytes", Run("bytes", 0, one), b)
      BY <2>2, <3>1, RunOfOneMore
    <3>7. Step("bytes", 0, a) = 0 * Base + a
      BY DEF Step
    <3>8. 0 * Base + a = a
      BY <1>2, <2>2, BytesAreNumbers
    <3>9. Step("bytes", a, b) = a * Base + b
      BY DEF Step
    <3> QED BY <2>2, <3>2, <3>3, <3>4, <3>5, <3>6, <3>7, <3>8, <3>9
  <2> QED BY <2>3, <2>5, <2>6, <2>7 DEF AmountBytes, n, a, b
<1>6. ASSUME r.unit # None PROVE r.unit.of \in ShortType /\ Cashu!Unit(r.unit.of) = r.unit
  <2> DEFINE u == r.unit
  <2>1. /\ u \in Cashu!Shown /\ (u.text <=> Cashu!IsText(u.of))
    BY <1>6 DEF Cashu!Request
  <2> HIDE DEF u
  <2>2. u.of \in ShortType /\ u.text \in BOOLEAN /\ u = [text |-> u.text, of |-> u.of]
    BY <2>1 DEF Cashu!Shown, ShortType
  <2>3. u.of = <<0>> => Cashu!IsText(u.of)
    BY <1>2, OneByte
  <2>4. (u.of = <<0>> \/ Cashu!IsText(u.of)) = u.text
    BY <2>1, <2>2, <2>3
  <2>5. Cashu!Unit(u.of) = u
    BY <2>2, <2>4 DEF Cashu!Unit, Cashu!Display
  <2> QED BY <2>2, <2>5 DEF u
<1>7. ASSUME r.single_use # None
      PROVE  /\ SingleByte(r) \in ShortType /\ SingleByte(r) \in {<<0>>, <<1>>}
             /\ (SingleByte(r) = <<1>>) = r.single_use
  <2>1. r.single_use \in BOOLEAN
    BY <1>7 DEF Cashu!Request
  <2>2. <<0>> # <<1>>
    OBVIOUS
  <2>3. CASE r.single_use = TRUE
    BY <1>1, <1>2, <2>3 DEF SingleByte
  <2>4. CASE r.single_use = FALSE
    BY <1>1, <1>2, <2>2, <2>4 DEF SingleByte
  <2> QED BY <2>1, <2>3, <2>4
<1> QED BY <1>3, <1>4, <1>5, <1>6, <1>7

LEMMA SmallKinds == /\ 0 \in Byte /\ 1 \in Byte /\ 2 \in Byte /\ 3 \in Byte /\ 4 \in Byte
                    /\ 5 \in Byte /\ 6 \in Byte /\ 7 \in Byte /\ 8 \in Byte
BY BytesAreNumbers, ConstantsAssumption

LEMMA TransportsAreRead ==
  ASSUME NEW ts \in Seq(Cashu!TransportType)
  PROVE  LET bs == Mapped(TransportMap, ts) IN
         /\ bs \in Seq(ShortType)
         /\ Cashu!Flat(ts, Cashu!WriteTransport) = Written(Piece(7, bs))
         /\ [i \in DOMAIN bs |-> Cashu!Transport(bs[i])] = ts
         /\ \A b \in Range(bs) : Cashu!TransportFits(b)
<1> DEFINE T == Cashu!TransportType
           bs == Mapped(TransportMap, ts)
<1>1. ASSUME NEW t \in T
      PROVE  /\ TransportMap[t] = Cashu!WriteOption(t.kind, t.target.of, t.tags)
             /\ TransportMap[t] \in ShortType /\ Cashu!TransportFits(TransportMap[t])
             /\ Cashu!Transport(TransportMap[t]) = t
  BY TransportIsRead DEF TransportMap
<1>2. IsMap(TransportMap, T, ShortType)
  <2>1. TransportMap = [t \in T |-> TransportMap[t]]
    BY DEF TransportMap
  <2> QED BY <1>1, <2>1 DEF IsMap
<1>3. ts \in Seq(T)
  OBVIOUS
<1> HIDE DEF T
<1>4. /\ bs \in Seq(ShortType)
      /\ Cashu!FlattenSeq([i \in DOMAIN ts |-> Cashu!Entry(7, TransportMap[ts[i]])])
           = Written(Piece(7, bs))
  BY <1>2, <1>3, SmallKinds, ListIsWritten
<1>5. DOMAIN ts = 1..Len(ts) /\ \A i \in DOMAIN ts : ts[i] \in T
  BY <1>3, LenProperties, ElementOfSeq
<1>6. [i \in DOMAIN ts |-> Cashu!WriteTransport(ts[i])]
        = [i \in DOMAIN ts |-> Cashu!Entry(7, TransportMap[ts[i]])]
  BY <1>1, <1>5 DEF Cashu!WriteTransport
<1>7. Cashu!Flat(ts, Cashu!WriteTransport) = Written(Piece(7, bs))
  BY <1>4, <1>6 DEF Cashu!Flat
<1>8. /\ Len(bs) = Len(ts) /\ DOMAIN bs = DOMAIN ts
      /\ \A i \in 1..Len(ts) : bs[i] = TransportMap[ts[i]]
  <2>1. Len(bs) = Len(ts) /\ \A i \in 1..Len(ts) : bs[i] = TransportMap[ts[i]]
    BY <1>2, <1>3, MappedType
  <2>2. DOMAIN bs = 1..Len(bs)
    BY <1>4, LenProperties
  <2> QED BY <1>5, <2>1, <2>2
<1> HIDE DEF bs
<1>9. [i \in DOMAIN bs |-> Cashu!Transport(bs[i])] = ts
  <2>1. \A i \in DOMAIN ts : Cashu!Transport(bs[i]) = ts[i]
    BY <1>1, <1>5, <1>8
  <2>2. ts = [i \in DOMAIN ts |-> ts[i]]
    BY <1>3, <1>5, LenProperties
  <2> QED BY <1>8, <2>1, <2>2
<1>10. \A b \in Range(bs) : Cashu!TransportFits(b)
  <2>1. Range(bs) = {bs[i] : i \in 1..Len(bs)}
    BY <1>4, RangeEquality
  <2> QED BY <1>1, <1>5, <1>8, <2>1
<1> QED BY <1>4, <1>7, <1>9, <1>10 DEF bs

LEMMA MintsAreRead ==
  ASSUME NEW ms \in Seq(Cashu!Text(Base * Base))
  PROVE  /\ ms \in Seq(ShortType) /\ \A m \in Range(ms) : Cashu!IsText(m)
         /\ Cashu!FlattenSeq([i \in DOMAIN ms |-> Cashu!Entry(5, ms[i])]) = Written(Piece(5, ms))
<1> DEFINE T == Cashu!Text(Base * Base)
           f == [m \in T |-> m]
<1>1. \A m \in T : m \in ShortType /\ Cashu!IsText(m)
  BY DEF Cashu!Text, ShortType
<1>2. IsMap(f, T, ShortType) /\ \A m \in T : f[m] = m
  BY <1>1 DEF IsMap
<1>3. ms \in Seq(T)
  OBVIOUS
<1> HIDE DEF T, f
<1>4. DOMAIN ms = 1..Len(ms) /\ \A i \in DOMAIN ms : ms[i] \in T
  BY <1>3, LenProperties, ElementOfSeq
<1>5. Mapped(f, ms) = ms
  <2>1. ms = [i \in DOMAIN ms |-> ms[i]]
    BY <1>3, <1>4, LenProperties
  <2> QED BY <1>2, <1>4, <2>1 DEF Mapped
<1>6. [i \in DOMAIN ms |-> Cashu!Entry(5, f[ms[i]])] = [i \in DOMAIN ms |-> Cashu!Entry(5, ms[i])]
  BY <1>2, <1>4
<1>7. /\ Mapped(f, ms) \in Seq(ShortType)
      /\ Cashu!FlattenSeq([i \in DOMAIN ms |-> Cashu!Entry(5, f[ms[i]])])
           = Written(Piece(5, Mapped(f, ms)))
  BY <1>2, <1>3, SmallKinds, ListIsWritten
<1>8. \A m \in Range(ms) : m \in T
  BY <1>3, RangeOfSeq
<1> QED BY <1>1, <1>5, <1>6, <1>7, <1>8

\* Of each kind, what a request has is written, and fits.
KindWritten(r, k, w) ==
  /\ ListsOf(r)[k] \in Seq(ShortType) /\ Written(Piece(k, ListsOf(r)[k])) = w
  /\ \A e : e.kind = k /\ e.value \in Range(ListsOf(r)[k]) => Cashu!FieldFits(e)

LEMMA ListsAre ==
  ASSUME NEW r
  PROVE  /\ ListsOf(r)[1] = Listed(r.id, r.id) /\ ListsOf(r)[2] = Listed(r.amount, AmountBytes(r))
         /\ ListsOf(r)[3] = Listed(r.unit, r.unit.of)
         /\ ListsOf(r)[4] = Listed(r.single_use, SingleByte(r))
         /\ ListsOf(r)[5] = r.mints /\ ListsOf(r)[6] = Listed(r.description, r.description)
         /\ ListsOf(r)[7] = Mapped(TransportMap, r.transports)
         /\ ListsOf(r)[8] = Listed(r.nut10, Nut10Bytes(r))
BY DEF ListsOf

\* A field there may be is written as such, if it fits.
LEMMA MaybeWritten ==
  ASSUME NEW r, NEW k \in Byte, NEW value, NEW bytes, ListsOf(r)[k] = Listed(value, bytes),
         value # None => bytes \in ShortType,
         \A e : e.kind = k /\ value # None /\ e.value = bytes => Cashu!FieldFits(e)
  PROVE  KindWritten(r, k, IF value = None THEN <<>> ELSE Cashu!Entry(k, bytes))
<1>1. /\ Listed(value, bytes) \in Seq(ShortType)
      /\ Written(Piece(k, Listed(value, bytes)))
           = IF value = None THEN <<>> ELSE Cashu!Entry(k, bytes)
      /\ \A v \in Range(Listed(value, bytes)) : value # None /\ v = bytes
  BY FieldIsWritten
<1> QED BY <1>1 DEF KindWritten

LEMMA KindsAreWritten ==
  ASSUME NEW r \in Cashu!Request
  PROVE  /\ KindWritten(r, 1, Cashu!Maybe(1, r.id, Cashu!Same))
         /\ KindWritten(r, 2, IF r.amount = None THEN <<>> ELSE Cashu!Entry(2, AmountBytes(r)))
         /\ KindWritten(r, 3, IF r.unit = None THEN <<>> ELSE Cashu!Entry(3, r.unit.of))
         /\ KindWritten(r, 4, IF r.single_use = None THEN <<>> ELSE Cashu!Entry(4, SingleByte(r)))
         /\ KindWritten(r, 5, Cashu!FlattenSeq([i \in DOMAIN r.mints |-> Cashu!Entry(5, r.mints[i])]))
         /\ KindWritten(r, 6, Cashu!Maybe(6, r.description, Cashu!Same))
         /\ KindWritten(r, 7, Cashu!Flat(r.transports, Cashu!WriteTransport))
         /\ KindWritten(r, 8, IF r.nut10 = None THEN <<>> ELSE Cashu!Entry(8, Nut10Bytes(r)))
<1>1. KindWritten(r, 1, Cashu!Maybe(1, r.id, Cashu!Same))
  <2>1. \A e : e.kind = 1 /\ r.id # None /\ e.value = r.id => Cashu!FieldFits(e)
    BY FieldTypes, NoneAssumption DEF Cashu!FieldFits
  <2>2. r.id # None => r.id \in ShortType
    BY FieldTypes
  <2>3. KindWritten(r, 1, IF r.id = None THEN <<>> ELSE Cashu!Entry(1, r.id))
    BY <2>1, <2>2, SmallKinds, ListsAre, MaybeWritten
  <2> QED BY <2>3 DEF Cashu!Maybe, Cashu!Same
<1>2. KindWritten(r, 2, IF r.amount = None THEN <<>> ELSE Cashu!Entry(2, AmountBytes(r)))
  <2>1. 2 \in 1..MaxAmountBytes
    BY ConstantsAssumption
  <2>2. \A e : e.kind = 2 /\ r.amount # None /\ e.value = AmountBytes(r) => Cashu!FieldFits(e)
    <3> DEFINE v == AmountBytes(r)
    <3>1. r.amount # None => Len(v) = 2
      BY FieldTypes
    <3> HIDE DEF v
    <3>2. ASSUME NEW e, e.kind = 2, r.amount # None, e.value = v PROVE Cashu!FieldFits(e)
      <4>1. Len(e.value) \in 1..MaxAmountBytes
        BY <2>1, <3>1, <3>2
      <4> QED BY <3>2, <4>1, NoneAssumption DEF Cashu!FieldFits
    <3> QED BY <3>2 DEF v
  <2>3. r.amount # None => AmountBytes(r) \in ShortType
    BY FieldTypes
  <2> QED BY <2>2, <2>3, SmallKinds, ListsAre, MaybeWritten
<1>3. KindWritten(r, 3, IF r.unit = None THEN <<>> ELSE Cashu!Entry(3, r.unit.of))
  <2>1. \A e : e.kind = 3 => Cashu!FieldFits(e)
    BY NoneAssumption DEF Cashu!FieldFits
  <2>2. r.unit # None => r.unit.of \in ShortType
    BY FieldTypes
  <2> QED BY <2>1, <2>2, SmallKinds, ListsAre, MaybeWritten
<1>4. KindWritten(r, 4, IF r.single_use = None THEN <<>> ELSE Cashu!Entry(4, SingleByte(r)))
  <2>1. \A e : e.kind = 4 /\ r.single_use # None /\ e.value = SingleByte(r) => Cashu!FieldFits(e)
    BY FieldTypes, NoneAssumption DEF Cashu!FieldFits
  <2>2. r.single_use # None => SingleByte(r) \in ShortType
    BY FieldTypes
  <2> QED BY <2>1, <2>2, SmallKinds, ListsAre, MaybeWritten
<1>5. KindWritten(r, 5, Cashu!FlattenSeq([i \in DOMAIN r.mints |-> Cashu!Entry(5, r.mints[i])]))
  <2>1. r.mints \in Seq(Cashu!Text(Base * Base))
    BY DEF Cashu!Request
  <2>2. /\ r.mints \in Seq(ShortType) /\ \A m \in Range(r.mints) : Cashu!IsText(m)
        /\ Cashu!FlattenSeq([i \in DOMAIN r.mints |-> Cashu!Entry(5, r.mints[i])])
             = Written(Piece(5, r.mints))
    BY <2>1, MintsAreRead
  <2>3. \A e : e.kind = 5 /\ e.value \in Range(r.mints) => Cashu!FieldFits(e)
    BY <2>2, NoneAssumption DEF Cashu!FieldFits
  <2> QED BY <2>2, <2>3, ListsAre DEF KindWritten
<1>6. KindWritten(r, 6, Cashu!Maybe(6, r.description, Cashu!Same))
  <2>1. \A e : e.kind = 6 /\ r.description # None /\ e.value = r.description => Cashu!FieldFits(e)
    BY FieldTypes, NoneAssumption DEF Cashu!FieldFits
  <2>2. r.description # None => r.description \in ShortType
    BY FieldTypes
  <2>3. KindWritten(r, 6, IF r.description = None THEN <<>> ELSE Cashu!Entry(6, r.description))
    BY <2>1, <2>2, SmallKinds, ListsAre, MaybeWritten
  <2> QED BY <2>3 DEF Cashu!Maybe, Cashu!Same
<1>7. KindWritten(r, 7, Cashu!Flat(r.transports, Cashu!WriteTransport))
  <2> DEFINE bs == Mapped(TransportMap, r.transports)
  <2>1. r.transports \in Seq(Cashu!TransportType)
    BY DEF Cashu!Request
  <2>2. /\ bs \in Seq(ShortType) /\ \A b \in Range(bs) : Cashu!TransportFits(b)
        /\ Cashu!Flat(r.transports, Cashu!WriteTransport) = Written(Piece(7, bs))
    BY <2>1, TransportsAreRead
  <2> HIDE DEF bs
  <2>3. \A e : e.kind = 7 /\ e.value \in Range(bs) => Cashu!FieldFits(e)
    BY <2>2, NoneAssumption DEF Cashu!FieldFits
  <2>4. ListsOf(r)[7] = bs
    BY ListsAre DEF bs
  <2> QED BY <2>2, <2>3, <2>4 DEF KindWritten
<1>8. KindWritten(r, 8, IF r.nut10 = None THEN <<>> ELSE Cashu!Entry(8, Nut10Bytes(r)))
  <2>1. r.nut10 # None => r.nut10 \in Cashu!Nut10Type
    BY DEF Cashu!Request
  <2>2. r.nut10 # None =>
          Nut10Bytes(r) \in ShortType /\ Cashu!OptionFits(Cashu!Entries[Nut10Bytes(r)])
    BY <2>1, Nut10IsRead DEF Nut10Bytes
  <2>3. \A e : e.kind = 8 /\ r.nut10 # None /\ e.value = Nut10Bytes(r) => Cashu!FieldFits(e)
    BY <2>2, NoneAssumption DEF Cashu!FieldFits
  <2> QED BY <2>2, <2>3, SmallKinds, ListsAre, MaybeWritten
<1> QED BY <1>1, <1>2, <1>3, <1>4, <1>5, <1>6, <1>7, <1>8

LEMMA OneMoreKind ==
  ASSUME NEW r, NEW n \in 0..7, NEW es, NEW w, Made(es, w, n, ListsOf(r)),
         NEW k, k = n + 1, NEW x, KindWritten(r, k, x)
  PROVE  \E more : Made(more, w \o x, k, ListsOf(r))
<1> DEFINE vs == ListsOf(r)
<1>1. vs[n + 1] \in Seq(ShortType) /\ Written(Piece(n + 1, vs[n + 1])) = x
  BY DEF KindWritten
<1> HIDE DEF vs
<1>2. Made(es, w, n, vs)
  BY DEF vs
<1>3. Made(es \o Piece(n + 1, vs[n + 1]), w \o Written(Piece(n + 1, vs[n + 1])), n + 1, vs)
  BY <1>1, <1>2, MadeOneMore
<1> QED BY <1>1, <1>3 DEF vs

\* A request is written as entries that fit.
LEMMA Nut26IsMade ==
  ASSUME NEW r \in Cashu!Request
  PROVE  \E es : /\ Made(es, Cashu!Nut26(r), 8, ListsOf(r))
                 /\ \A e \in Range(es) : Cashu!FieldFits(e)
<1> DEFINE x1 == Cashu!Maybe(1, r.id, Cashu!Same)
           x2 == IF r.amount = None THEN <<>> ELSE Cashu!Entry(2, AmountBytes(r))
           x3 == IF r.unit = None THEN <<>> ELSE Cashu!Entry(3, r.unit.of)
           x4 == IF r.single_use = None THEN <<>> ELSE Cashu!Entry(4, SingleByte(r))
           x5 == Cashu!FlattenSeq([i \in DOMAIN r.mints |-> Cashu!Entry(5, r.mints[i])])
           x6 == Cashu!Maybe(6, r.description, Cashu!Same)
           x7 == Cashu!Flat(r.transports, Cashu!WriteTransport)
           x8 == IF r.nut10 = None THEN <<>> ELSE Cashu!Entry(8, Nut10Bytes(r))
           w  == x1 \o x2 \o x3 \o x4 \o x5 \o x6 \o x7 \o x8
<1>1. /\ KindWritten(r, 1, x1) /\ KindWritten(r, 2, x2) /\ KindWritten(r, 3, x3)
      /\ KindWritten(r, 4, x4) /\ KindWritten(r, 5, x5) /\ KindWritten(r, 6, x6)
      /\ KindWritten(r, 7, x7) /\ KindWritten(r, 8, x8)
  BY KindsAreWritten
<1>2. Cashu!Nut26(r) = w
  BY DEF Cashu!Nut26, Cashu!Maybe, Cashu!Flat, AmountBytes, SingleByte, Nut10Bytes
<1>3. <<>> \o x1 = x1
  <2>1. x1 \in Seq(Byte)
    <3>1. r.id # None => Cashu!Entry(1, r.id) \in Seq(Byte)
      BY SmallKinds, FieldTypes, HeadOfEntry DEF ShortType, Bytes
    <3> QED BY <3>1, EmptySeq DEF Cashu!Maybe, Cashu!Same
  <2> HIDE DEF x1
  <2> QED BY <2>1, ConcatEmptySeq
<1> HIDE DEF x1, x2, x3, x4, x5, x6, x7, x8
<1>4. PICK e1 : Made(e1, x1, 1, ListsOf(r))
  <2>1. Made(<<>>, <<>>, 0, ListsOf(r)) /\ 0 \in 0..7 /\ 1 = 0 + 1
    BY MadeOfNone
  <2>2. \E more : Made(more, <<>> \o x1, 1, ListsOf(r))
    BY <1>1, <2>1, OneMoreKind
  <2> QED BY <1>3, <2>2
<1>5. PICK e2 : Made(e2, x1 \o x2, 2, ListsOf(r))
  <2>1. 1 \in 0..7 /\ 2 = 1 + 1
    OBVIOUS
  <2> QED BY <1>1, <1>4, <2>1, OneMoreKind
<1>6. PICK e3 : Made(e3, x1 \o x2 \o x3, 3, ListsOf(r))
  <2>1. 2 \in 0..7 /\ 3 = 2 + 1
    OBVIOUS
  <2> QED BY <1>1, <1>5, <2>1, OneMoreKind
<1>7. PICK e4 : Made(e4, x1 \o x2 \o x3 \o x4, 4, ListsOf(r))
  <2>1. 3 \in 0..7 /\ 4 = 3 + 1
    OBVIOUS
  <2> QED BY <1>1, <1>6, <2>1, OneMoreKind
<1>8. PICK e5 : Made(e5, x1 \o x2 \o x3 \o x4 \o x5, 5, ListsOf(r))
  <2>1. 4 \in 0..7 /\ 5 = 4 + 1
    OBVIOUS
  <2> QED BY <1>1, <1>7, <2>1, OneMoreKind
<1>9. PICK e6 : Made(e6, x1 \o x2 \o x3 \o x4 \o x5 \o x6, 6, ListsOf(r))
  <2>1. 5 \in 0..7 /\ 6 = 5 + 1
    OBVIOUS
  <2> QED BY <1>1, <1>8, <2>1, OneMoreKind
<1>10. PICK e7 : Made(e7, x1 \o x2 \o x3 \o x4 \o x5 \o x6 \o x7, 7, ListsOf(r))
  <2>1. 6 \in 0..7 /\ 7 = 6 + 1
    OBVIOUS
  <2> QED BY <1>1, <1>9, <2>1, OneMoreKind
<1>11. PICK es : Made(es, w, 8, ListsOf(r))
  <2>1. 7 \in 0..7 /\ 8 = 7 + 1
    OBVIOUS
  <2> QED BY <1>1, <1>10, <2>1, OneMoreKind
<1>12. ASSUME NEW e \in Range(es) PROVE Cashu!FieldFits(e)
  <2>1. e.kind \in 1..8 /\ e.value \in Range(ListsOf(r)[e.kind])
    BY <1>11 DEF Made
  <2>2. \/ e.kind = 1 \/ e.kind = 2 \/ e.kind = 3 \/ e.kind = 4
        \/ e.kind = 5 \/ e.kind = 6 \/ e.kind = 7 \/ e.kind = 8
    BY <2>1
  <2>3. \E x : KindWritten(r, e.kind, x)
    BY <1>1, <2>2
  <2> QED BY <2>1, <2>3 DEF KindWritten
<1> QED BY <1>2, <1>11, <1>12

\* What may come before the entries of a request.
Precedes(ps, prefix) ==
  /\ ps \in Seq(EntryType) /\ Written(ps) = prefix
  /\ \A e \in Range(ps) : Cashu!FieldFits(e)
  /\ \A k \in 2..8 : Cashu!Values(ps, k) = <<>>
  /\ Cashu!Values(ps, 1) \in Seq(ShortType)
  /\ prefix = <<>> => Cashu!Values(ps, 1) = <<>>

LEMMA PrefixIsWritten ==
  ASSUME NEW prefix \in Cashu!Before
  PROVE  \E ps : Precedes(ps, prefix)
<1>1. CASE prefix = <<>>
  <2>1. Made(<<>>, <<>>, 0, <<>>)
    BY MadeOfNone
  <2>2. /\ <<>> \in Seq(EntryType) /\ Written(<<>>) = <<>>
        /\ \A k \in Nat : Cashu!Values(<<>>, k) = IF k \in 1..0 THEN <<>>[k] ELSE <<>>
    BY <2>1 DEF Made
  <2>3. \A k \in Nat : Cashu!Values(<<>>, k) = <<>>
    <3>1. 1..0 = {}
      OBVIOUS
    <3> QED BY <2>2, <3>1
  <2>4. 1 \in Nat /\ 2..8 \subseteq Nat /\ Range(<<>>) = {} /\ <<>> \in Seq(ShortType)
    BY DEF Range
  <2>5. Precedes(<<>>, <<>>)
    BY <2>2, <2>3, <2>4 DEF Precedes
  <2> QED BY <1>1, <2>5
<1>2. CASE prefix # <<>>
  <2> DEFINE one == <<1>>
             two == <<2>>
             p0 == Piece(0, <<one>>)
             p1 == Piece(1, <<two>>)
             a  == Cashu!Entry(0, one)
             b  == Cashu!Entry(1, two)
  <2>1. one \in ShortType /\ two \in ShortType /\ Cashu!IsText(two)
    <3>1. Base \in Nat /\ 9 <= Base
      BY ConstantsAssumption
    <3>2. 2 < Base - 1
      BY <3>1
    <3> QED BY <3>2, SmallKinds, OneByte
  <2>2. prefix = a \o b
    BY <1>2 DEF Cashu!Before
  <2> HIDE DEF one, two
  <2>3. /\ <<one>> \in Seq(ShortType) /\ <<two>> \in Seq(ShortType)
        /\ Written(p0) = a /\ Written(p1) = b
    BY <2>1, SmallKinds, OneIsWritten
  <2>4. p0 \in Seq(EntryType) /\ p1 \in Seq(EntryType)
    BY <2>3, SmallKinds, PieceType
  <2>5. \A e \in Range(p0) : e.kind = 0
    BY <2>3, SmallKinds, RangeOfPiece
  <2>6. \A e \in Range(p1) : e.kind = 1 /\ e.value = two
    <3>1. \A e \in Range(p1) : e.kind = 1 /\ e.value \in Range(<<two>>)
      BY <2>3, SmallKinds, RangeOfPiece
    <3>2. Range(<<two>>) = {two}
      BY DEF Range
    <3> QED BY <3>1, <3>2
  <2>7. /\ \A k \in Nat : Cashu!Values(p0, k) = IF k = 0 THEN <<one>> ELSE <<>>
        /\ \A k \in Nat : Cashu!Values(p1, k) = IF k = 1 THEN <<two>> ELSE <<>>
    BY <2>3, SmallKinds, ValuesOfPiece
  <2> HIDE DEF p0, p1, a, b
  <2>8. p0 \o p1 \in Seq(EntryType) /\ Written(p0 \o p1) = prefix
    BY <2>2, <2>3, <2>4, WrittenConcat
  <2>9. ASSUME NEW e \in Range(p0 \o p1) PROVE Cashu!FieldFits(e)
    <3>1. Range(p0 \o p1) = Range(p0) \cup Range(p1)
      BY <2>4, RangeConcatenation
    <3>2. e.kind = 0 \/ (e.kind = 1 /\ e.value = two)
      BY <2>5, <2>6, <3>1
    <3>3. CASE e.kind = 0
      BY <3>3, NoneAssumption DEF Cashu!FieldFits
    <3>4. CASE e.kind = 1 /\ e.value = two
      BY <2>1, <3>4, NoneAssumption DEF Cashu!FieldFits
    <3> QED BY <3>2, <3>3, <3>4
  <2>10. /\ \A k \in 2..8 : Cashu!Values(p0 \o p1, k) = <<>>
         /\ Cashu!Values(p0 \o p1, 1) \in Seq(ShortType)
    <3>1. \A k : Cashu!Values(p0 \o p1, k) = Cashu!Values(p0, k) \o Cashu!Values(p1, k)
      BY <2>4, ValuesConcat
    <3>2. \A k \in 2..8 : Cashu!Values(p0, k) = <<>> /\ Cashu!Values(p1, k) = <<>>
      BY <2>7
    <3>3. <<>> \o <<>> = <<>>
      OBVIOUS
    <3>4. Cashu!Values(p0 \o p1, 1) \in Seq(ShortType)
      BY <2>8, ValuesOf
    <3> QED BY <3>1, <3>2, <3>3, <3>4
  <2>11. Precedes(p0 \o p1, prefix)
    BY <1>2, <2>8, <2>9, <2>10 DEF Precedes
  <2> QED BY <2>11
<1> QED BY <1>1, <1>2

LEMMA ShortIsNotNone == ASSUME NEW b \in ShortType PROVE b # None
<1>1. b \in Cashu!Bytes
  BY DEF ShortType, Cashu!Short
<1> QED BY <1>1, NoneAssumption

\* The field that is read last.
Reads(es, k, value, bytes) ==
  Cashu!LastValue(es, k) = IF value = None THEN None ELSE bytes

LEMMA FieldIsReadAlone ==
  ASSUME NEW es, NEW k, NEW value, NEW bytes, value # None => bytes \in ShortType,
         Cashu!Values(es, k) = <<>> \o Listed(value, bytes)
  PROVE  Reads(es, k, value, bytes) /\ (value # None => bytes # None)
<1>1. Cashu!LastValue(es, k) = IF value = None THEN None ELSE bytes
  <2> DEFINE p == <<>>
  <2>1. p \in Seq(ShortType) /\ p = <<>>
    OBVIOUS
  <2>2. Cashu!Values(es, k) = p \o Listed(value, bytes)
    OBVIOUS
  <2> HIDE DEF p
  <2> QED BY <2>1, <2>2, FieldIsRead
<1> QED BY <1>1, ShortIsNotNone DEF Reads

\* What was written is read, whatever goes before it.
LEMMA RequestIsRead ==
  ASSUME NEW r \in Cashu!Request, NEW prefix \in Cashu!Before, r.id = None => prefix = <<>>
  PROVE  /\ Cashu!ParseNut26(prefix \o Cashu!Nut26(r)) = r
         /\ prefix \o Cashu!Nut26(r) \in Bytes /\ Cashu!Nut26(r) \in Bytes
<1> DEFINE vs == ListsOf(r)
           w  == Cashu!Nut26(r)
           ts == vs[7]
<1>1. PICK own : /\ Made(own, w, 8, vs) /\ \A e \in Range(own) : Cashu!FieldFits(e)
  BY Nut26IsMade
<1>2. PICK ps : Precedes(ps, prefix)
  BY PrefixIsWritten
<1>3. own \in Seq(EntryType) /\ Written(own) = w /\ w \in Bytes
  <2>1. own \in Seq(EntryType) /\ Written(own) = w
    BY <1>1 DEF Made
  <2> QED BY <2>1, EntriesAreRead
<1>4. ps \in Seq(EntryType) /\ Written(ps) = prefix
  BY <1>2 DEF Precedes
<1> HIDE DEF w
<1> DEFINE es == ps \o own
           bytes == prefix \o w
<1>5. es \in Seq(EntryType) /\ Written(es) = bytes
  BY <1>3, <1>4, WrittenConcat
<1>6. Cashu!Entries[bytes] = es /\ bytes \in Bytes
  BY <1>5, EntriesAreRead
<1>7. \A e \in Cashu!Range(es) : Cashu!FieldFits(e)
  <2>1. Range(es) = Range(ps) \cup Range(own)
    BY <1>3, <1>4, RangeConcatenation
  <2>2. \A e \in Range(ps) : Cashu!FieldFits(e)
    BY <1>2 DEF Precedes
  <2>3. Cashu!Range(es) = Range(es)
    BY DEF Cashu!Range, Range
  <2> QED BY <1>1, <2>1, <2>2, <2>3
<1>8. \A k : Cashu!Values(es, k) = Cashu!Values(ps, k) \o Cashu!Values(own, k)
  BY <1>3, <1>4, ValuesConcat
<1>9. \A k \in Nat : Cashu!Values(own, k) = IF k \in 1..8 THEN vs[k] ELSE <<>>
  BY <1>1 DEF Made
<1>10. /\ \A k \in 2..8 : Cashu!Values(ps, k) = <<>>
       /\ Cashu!Values(ps, 1) \in Seq(ShortType)
       /\ r.id = None => Cashu!Values(ps, 1) = <<>>
  BY <1>2 DEF Precedes
<1>11. /\ vs[1] = Listed(r.id, r.id) /\ vs[2] = Listed(r.amount, AmountBytes(r))
       /\ vs[3] = Listed(r.unit, r.unit.of) /\ vs[4] = Listed(r.single_use, SingleByte(r))
       /\ vs[5] = r.mints /\ vs[6] = Listed(r.description, r.description)
       /\ vs[7] = Mapped(TransportMap, r.transports) /\ vs[8] = Listed(r.nut10, Nut10Bytes(r))
  BY ListsAre
<1> HIDE DEF vs, es, bytes
<1>12. /\ Cashu!Values(es, 1) = Cashu!Values(ps, 1) \o vs[1]
       /\ \A k \in 2..8 : Cashu!Values(es, k) = <<>> \o vs[k]
  <2>1. 1 \in 1..8 /\ 1 \in Nat /\ \A k \in 2..8 : k \in 1..8 /\ k \in Nat
    OBVIOUS
  <2> QED BY <1>8, <1>9, <1>10, <2>1
<1>13. 2 \in 2..8 /\ 3 \in 2..8 /\ 4 \in 2..8 /\ 5 \in 2..8 /\ 6 \in 2..8 /\ 7 \in 2..8 /\ 8 \in 2..8
  OBVIOUS
<1>15. Cashu!LastValue(es, 1) = r.id
  <2>1. r.id # None => r.id \in ShortType
    BY FieldTypes
  <2> DEFINE id == r.id
             p  == Cashu!Values(ps, 1)
  <2>2. /\ Cashu!Values(es, 1) = p \o Listed(id, id) /\ p \in Seq(ShortType)
        /\ id = None => p = <<>>
        /\ id # None => id \in ShortType
    BY <1>10, <1>11, <1>12, <2>1
  <2> HIDE DEF id, p
  <2>3. Cashu!LastValue(es, 1) = IF id = None THEN None ELSE id
    BY <2>2, FieldIsRead
  <2> QED BY <2>3 DEF id
<1>16. Cashu!Optional(Cashu!LastValue(es, 2), Cashu!Number) = r.amount
  <2>1. /\ r.amount # None => AmountBytes(r) \in ShortType
        /\ r.amount # None => Cashu!Number(AmountBytes(r)) = r.amount
    BY FieldTypes
  <2>2. Cashu!Values(es, 2) = <<>> \o Listed(r.amount, AmountBytes(r))
    BY <1>11, <1>12, <1>13
  <2>3. Reads(es, 2, r.amount, AmountBytes(r)) /\ (r.amount # None => AmountBytes(r) # None)
    BY <2>1, <2>2, FieldIsReadAlone
  <2> QED BY <2>1, <2>3 DEF Reads, Cashu!Optional
<1>17. Cashu!Optional(Cashu!LastValue(es, 3), Cashu!Unit) = r.unit
  <2>1. /\ r.unit # None => r.unit.of \in ShortType
        /\ r.unit # None => Cashu!Unit(r.unit.of) = r.unit
    BY FieldTypes
  <2>2. Cashu!Values(es, 3) = <<>> \o Listed(r.unit, r.unit.of)
    BY <1>11, <1>12, <1>13
  <2>3. Reads(es, 3, r.unit, r.unit.of) /\ (r.unit # None => r.unit.of # None)
    BY <2>1, <2>2, FieldIsReadAlone
  <2> QED BY <2>1, <2>3 DEF Reads, Cashu!Optional
<1>18. Cashu!Optional(Cashu!LastValue(es, 4), LAMBDA v : v = <<1>>) = r.single_use
  <2>1. /\ r.single_use # None => SingleByte(r) \in ShortType
        /\ r.single_use # None => (SingleByte(r) = <<1>>) = r.single_use
    BY FieldTypes
  <2>2. Cashu!Values(es, 4) = <<>> \o Listed(r.single_use, SingleByte(r))
    BY <1>11, <1>12, <1>13
  <2>3. Reads(es, 4, r.single_use, SingleByte(r)) /\ (r.single_use # None => SingleByte(r) # None)
    BY <2>1, <2>2, FieldIsReadAlone
  <2> QED BY <2>1, <2>3 DEF Reads, Cashu!Optional
<1>19. Cashu!Values(es, 5) = r.mints
  <2>1. r.mints \in Seq(ShortType)
    <3>1. r.mints \in Seq(Cashu!Text(Base * Base))
      BY DEF Cashu!Request
    <3> QED BY <3>1, MintsAreRead
  <2>2. <<>> \o r.mints = r.mints
    BY <2>1, ConcatEmptySeq
  <2> QED BY <1>11, <1>12, <1>13, <2>2
<1>20. Cashu!LastValue(es, 6) = r.description
  <2>1. r.description # None => r.description \in ShortType
    BY FieldTypes
  <2>2. Cashu!Values(es, 6) = <<>> \o Listed(r.description, r.description)
    BY <1>11, <1>12, <1>13
  <2>3. Reads(es, 6, r.description, r.description)
    BY <2>1, <2>2, FieldIsReadAlone
  <2> QED BY <2>3 DEF Reads
<1>21. Cashu!Values(es, 7) = ts /\ [i \in DOMAIN ts |-> Cashu!Transport(ts[i])] = r.transports
  <2>1. r.transports \in Seq(Cashu!TransportType)
    BY DEF Cashu!Request
  <2>2. /\ ts \in Seq(ShortType)
        /\ [i \in DOMAIN ts |-> Cashu!Transport(ts[i])] = r.transports
    BY <1>11, <2>1, TransportsAreRead
  <2>3. <<>> \o ts = ts
    BY <2>2, ConcatEmptySeq
  <2> QED BY <1>12, <1>13, <2>2, <2>3
<1>22. Cashu!Optional(Cashu!LastValue(es, 8), Cashu!Nut10) = r.nut10
  <2>1. /\ r.nut10 # None => Nut10Bytes(r) \in ShortType
        /\ r.nut10 # None => Cashu!Nut10(Nut10Bytes(r)) = r.nut10
    <3>1. r.nut10 # None => r.nut10 \in Cashu!Nut10Type
      BY DEF Cashu!Request
    <3> QED BY <3>1, Nut10IsRead DEF Nut10Bytes
  <2>2. Cashu!Values(es, 8) = <<>> \o Listed(r.nut10, Nut10Bytes(r))
    BY <1>11, <1>12, <1>13
  <2>3. Reads(es, 8, r.nut10, Nut10Bytes(r)) /\ (r.nut10 # None => Nut10Bytes(r) # None)
    BY <2>1, <2>2, FieldIsReadAlone
  <2> QED BY <2>1, <2>3 DEF Reads, Cashu!Optional
<1> HIDE DEF ts
<1>23. Cashu!ParseNut26(bytes)
         = [id |-> r.id, amount |-> r.amount, unit |-> r.unit, single_use |-> r.single_use,
            mints |-> r.mints, description |-> r.description, transports |-> r.transports,
            nut10 |-> r.nut10]
  BY <1>6, <1>7, <1>15, <1>16, <1>17, <1>18, <1>19, <1>20, <1>21, <1>22 DEF Cashu!ParseNut26
<1>24. r = [id |-> r.id, amount |-> r.amount, unit |-> r.unit, single_use |-> r.single_use,
            mints |-> r.mints, description |-> r.description, transports |-> r.transports,
            nut10 |-> r.nut10]
  BY DEF Cashu!Request
<1> QED BY <1>3, <1>6, <1>23, <1>24 DEF bytes, w

-----------------------------------------------------------------------------
(* Requests in NUT-18.                                                     *)

\* Tags as NUT-18 has them: lists of texts.
AnyTag == [key : Bytes, values : Seq(Bytes)]

NestOf == [l \in Seq(Bytes) |-> IF l = <<>> THEN <<>> ELSE << [key |-> Head(l), values |-> Tail(l)] >>]

LEMMA NestOfIsMap == IsMap(NestOf, Seq(Bytes), Seq(AnyTag))
<1>1. ASSUME NEW l \in Seq(Bytes) PROVE NestOf[l] \in Seq(AnyTag)
  <2>1. CASE l = <<>>
    BY <2>1 DEF NestOf
  <2>2. CASE l # <<>>
    <3> DEFINE e == [key |-> Head(l), values |-> Tail(l)]
    <3>1. Head(l) \in Bytes /\ Tail(l) \in Seq(Bytes)
      BY <2>2, HeadTailProperties
    <3>2. e \in AnyTag /\ NestOf[l] = <<e>>
      BY <2>2, <3>1 DEF AnyTag, NestOf
    <3> HIDE DEF e
    <3> QED BY <3>2
  <2> QED BY <2>1, <2>2
<1>2. NestOf = [l \in Seq(Bytes) |-> NestOf[l]]
  BY DEF NestOf
<1> QED BY <1>1, <1>2 DEF IsMap

LEMMA NestedTagsOf ==
  ASSUME NEW lists \in Seq(Seq(Bytes))
  PROVE  Cashu!NestedTags(lists) = Flat(Mapped(NestOf, lists))
<1> DEFINE Q == Seq(Bytes)
           Of(l) == IF l = <<>> THEN <<>> ELSE << [key |-> Head(l), values |-> Tail(l)] >>
           m == [i \in DOMAIN lists |-> Of(lists[i])]
<1>1. \A l \in Q : NestOf[l] = Of(l)
  BY DEF NestOf
<1>2. IsMap(NestOf, Q, Seq(AnyTag)) /\ lists \in Seq(Q)
  BY NestOfIsMap
<1>3. Cashu!NestedTags(lists) = Cashu!FlattenSeq(m)
  BY DEF Cashu!NestedTags
<1> HIDE DEF Q, Of
<1>4. DOMAIN lists = 1..Len(lists) /\ \A i \in DOMAIN lists : lists[i] \in Q
  BY <1>2, LenProperties, ElementOfSeq
<1>5. m = Mapped(NestOf, lists)
  BY <1>1, <1>4 DEF Mapped
<1>6. Mapped(NestOf, lists) \in Seq(Seq(AnyTag))
  BY <1>2, MappedType
<1> HIDE DEF m
<1> QED BY <1>3, <1>5, <1>6, FlattenOf

\* Tags are read as they were nested, and an empty one in front is not.
LEMMA TagsAreNested ==
  ASSUME NEW tags \in Seq(Cashu!TagType)
  PROVE  /\ Cashu!Nest(tags) \in Seq(Seq(Bytes)) /\ Cashu!NestedTags(Cashu!Nest(tags)) = tags
         /\ << <<>> >> \o Cashu!Nest(tags) \in Seq(Seq(Bytes))
         /\ Cashu!NestedTags(<< <<>> >> \o Cashu!Nest(tags)) = tags
<1> DEFINE T == Cashu!TagType
           Q == Seq(Bytes)
           none == <<>>
           lists == Cashu!Nest(tags)
<1>1. ASSUME NEW t \in T
      PROVE  /\ <<t.key>> \o t.values \in Q
             /\ NestOf[<<t.key>> \o t.values] = <<t>>
  <2>1. /\ t \in [key : Cashu!Text(Base), values : Seq(Cashu!Text(Base))]
        /\ t = [key |-> t.key, values |-> t.values]
    BY DEF Cashu!TagType
  <2>2. Cashu!Text(Base) \subseteq Bytes
    BY BytesAreNumbers DEF Cashu!Text, Cashu!Short
  <2>3. t.key \in Bytes /\ t.values \in Seq(Bytes)
    BY <2>1, <2>2, SeqMonotonic
  <2> DEFINE k == t.key
             v == t.values
             l == <<k>> \o v
  <2>4. /\ l \in Q /\ l # <<>> /\ Head(l) = k /\ Tail(l) = v
    BY <2>3, HeadAndTail
  <2> HIDE DEF l
  <2>5. NestOf[l] = << [key |-> k, values |-> v] >>
    BY <2>4 DEF NestOf
  <2> QED BY <2>1, <2>4, <2>5 DEF l
<1>2. /\ IsMap(NestOf, Q, Seq(AnyTag)) /\ none \in Q /\ NestOf[none] = none
      /\ tags \in Seq(T)
  BY NestOfIsMap DEF NestOf
<1>3. DOMAIN tags = 1..Len(tags) /\ Len(tags) \in Nat /\ \A i \in DOMAIN tags : tags[i] \in T
  BY LenProperties, ElementOfSeq
<1>4. lists = [i \in DOMAIN tags |-> <<tags[i].key>> \o tags[i].values]
  BY DEF Cashu!Nest
<1> HIDE DEF T, Q, lists, none
<1>5. lists \in Seq(Q) /\ DOMAIN lists = DOMAIN tags
  <2>1. lists \in [1..Len(tags) -> Q]
    BY <1>1, <1>3, <1>4
  <2>2. lists \in Seq(Q)
    BY <1>3, <2>1, SeqDef
  <2> QED BY <1>4, <2>2
<1>6. Mapped(NestOf, lists) = Mapped(Single(T), tags)
  BY <1>1, <1>3, <1>4, <1>5 DEF Mapped, Single
<1>7. Flat(Mapped(NestOf, lists)) = tags
  BY <1>2, <1>6, FlatOfSingles
<1>8. /\ <<none>> \o lists \in Seq(Q)
      /\ Flat(Mapped(NestOf, <<none>> \o lists)) = none \o tags
  <2>1. GoesFirst(NestOf, Q, AnyTag, none, lists)
    BY <1>2, <1>5, FlatOfOneMore
  <2> QED BY <1>2, <1>7, <2>1 DEF GoesFirst
<1>9. none \o tags = tags
  BY <1>2, ConcatEmptySeq DEF none
<1>10. /\ Cashu!NestedTags(lists) = Flat(Mapped(NestOf, lists))
       /\ Cashu!NestedTags(<<none>> \o lists) = Flat(Mapped(NestOf, <<none>> \o lists))
  BY <1>5, <1>8, NestedTagsOf DEF Q
<1> QED BY <1>5, <1>7, <1>8, <1>9, <1>10 DEF Q, lists, none

\* What NUT-18 has for a request: other tags, from which the same ones are made.
OptionContent == [kind : Cashu!Byte, data : Cashu!Shown, tags : Seq(Seq(Cashu!Bytes))]

Encodes(content, r) ==
  \E ts, o :
    /\ content = [r EXCEPT !.transports = ts, !.nut10 = o]
    /\ DOMAIN ts = DOMAIN r.transports
    /\ \A i \in DOMAIN ts :
         [ts[i] EXCEPT !.tags = Cashu!NestedTags(ts[i].tags)] = r.transports[i]
    /\ IF r.nut10 = None THEN o = None
       ELSE o # None /\ [o EXCEPT !.tags = Cashu!NestedTags(o.tags)] = r.nut10

LEMMA ContentIsRead ==
  ASSUME NEW r \in Cashu!Request, NEW content, Encodes(content, r)
  PROVE  Cashu!ParseNut18(content) = r
<1> DEFINE Whole(ts, o) ==
             [id |-> r.id, amount |-> r.amount, unit |-> r.unit, single_use |-> r.single_use,
              mints |-> r.mints, description |-> r.description, transports |-> ts, nut10 |-> o]
<1>1. PICK ts, o :
        /\ content = [r EXCEPT !.transports = ts, !.nut10 = o]
        /\ DOMAIN ts = DOMAIN r.transports
        /\ \A i \in DOMAIN ts :
             [ts[i] EXCEPT !.tags = Cashu!NestedTags(ts[i].tags)] = r.transports[i]
        /\ IF r.nut10 = None THEN o = None
           ELSE o # None /\ [o EXCEPT !.tags = Cashu!NestedTags(o.tags)] = r.nut10
  BY DEF Encodes
<1>2. r = Whole(r.transports, r.nut10)
  BY DEF Cashu!Request
<1>3. content = Whole(ts, o)
  BY <1>1, <1>2
<1>4. content # Cashu!Refused
  <2>1. "id" \in DOMAIN content /\ "id" \notin DOMAIN Cashu!Refused
    BY <1>3 DEF Cashu!Refused
  <2> QED BY <2>1
<1>5. content.transports = ts /\ content.nut10 = o
  BY <1>3
<1> DEFINE a == [i \in DOMAIN content.transports |->
                   [content.transports[i] EXCEPT
                      !.tags = Cashu!NestedTags(content.transports[i].tags)]]
           b == IF content.nut10 = None THEN None
                ELSE [content.nut10 EXCEPT !.tags = Cashu!NestedTags(content.nut10.tags)]
<1>6. a = r.transports
  <2>1. r.transports = [i \in DOMAIN r.transports |-> r.transports[i]]
    <3>1. r.transports \in Seq(Cashu!TransportType)
      BY DEF Cashu!Request
    <3> QED BY <3>1, LenProperties
  <2> QED BY <1>1, <1>5, <2>1
<1>7. b = r.nut10
  BY <1>1, <1>5
<1>8. Cashu!ParseNut18(content) = [content EXCEPT !.transports = a, !.nut10 = b]
  BY <1>4 DEF Cashu!ParseNut18, Cashu!Retagged, Cashu!Optional
<1> HIDE DEF a, b
<1>9. [content EXCEPT !.transports = r.transports, !.nut10 = r.nut10]
        = Whole(r.transports, r.nut10)
  <2>1. \A x, y, u, v : /\ [Whole(x, y) EXCEPT !.transports = u] = Whole(u, y)
                        /\ [Whole(u, y) EXCEPT !.nut10 = v] = Whole(u, v)
    OBVIOUS
  <2>2. [content EXCEPT !.transports = r.transports, !.nut10 = r.nut10]
          = [[content EXCEPT !.transports = r.transports] EXCEPT !.nut10 = r.nut10]
    OBVIOUS
  <2> HIDE DEF Whole
  <2>3. [content EXCEPT !.transports = r.transports] = Whole(r.transports, o)
    <3>1. [Whole(ts, o) EXCEPT !.transports = r.transports] = Whole(r.transports, o)
      BY <2>1
    <3> QED BY <1>3, <3>1
  <2>4. [Whole(r.transports, o) EXCEPT !.nut10 = r.nut10] = Whole(r.transports, r.nut10)
    BY <2>1
  <2> QED BY <2>2, <2>3, <2>4
<1> QED BY <1>2, <1>6, <1>7, <1>8, <1>9

\* With its tags nested.
IsNested(x, nested) ==
  \E l \in Seq(Seq(Bytes)) : Cashu!NestedTags(l) = x.tags /\ nested = [x EXCEPT !.tags = l]

LEMMA RetaggedIsRead ==
  ASSUME NEW r \in Cashu!Request, NEW content, NEW ts, NEW o,
         content = [r EXCEPT !.transports = ts, !.nut10 = o], DOMAIN ts = DOMAIN r.transports,
         \A i \in DOMAIN ts : IsNested(r.transports[i], ts[i]),
         r.nut10 = None => o = None,
         r.nut10 # None => IsNested(r.nut10, o)
  PROVE  Cashu!ParseNut18(content) = r
<1>1. ASSUME NEW i \in DOMAIN ts
      PROVE  [ts[i] EXCEPT !.tags = Cashu!NestedTags(ts[i].tags)] = r.transports[i]
  <2> DEFINE t == r.transports[i]
  <2>1. t \in Cashu!TransportType
    <3>1. r.transports \in Seq(Cashu!TransportType)
      BY DEF Cashu!Request
    <3> QED BY <3>1, LenProperties, ElementOfSeq
  <2>2. PICK l : Cashu!NestedTags(l) = t.tags /\ ts[i] = [t EXCEPT !.tags = l]
    BY DEF IsNested
  <2>3. t = [kind |-> t.kind, target |-> t.target, tags |-> t.tags]
    BY <2>1 DEF Cashu!TransportType
  <2> HIDE DEF t
  <2>4. ts[i] = [kind |-> t.kind, target |-> t.target, tags |-> l]
    BY <2>2, <2>3
  <2>5. [ts[i] EXCEPT !.tags = t.tags] = t
    BY <2>3, <2>4
  <2> QED BY <2>2, <2>4, <2>5 DEF t
<1>2. IF r.nut10 = None THEN o = None
      ELSE o # None /\ [o EXCEPT !.tags = Cashu!NestedTags(o.tags)] = r.nut10
  <2>1. ASSUME r.nut10 # None
        PROVE  o # None /\ [o EXCEPT !.tags = Cashu!NestedTags(o.tags)] = r.nut10
    <3> DEFINE t == r.nut10
    <3>1. t \in Cashu!Nut10Type
      BY <2>1 DEF Cashu!Request
    <3>2. PICK l \in Seq(Seq(Bytes)) : Cashu!NestedTags(l) = t.tags /\ o = [t EXCEPT !.tags = l]
      BY <2>1 DEF IsNested
    <3>3. /\ t = [kind |-> t.kind, data |-> t.data, tags |-> t.tags]
          /\ t.kind \in Cashu!Byte /\ t.data \in Cashu!Shown
      BY <3>1 DEF Cashu!Nut10Type
    <3> HIDE DEF t
    <3>4. o = [kind |-> t.kind, data |-> t.data, tags |-> l]
      BY <3>2, <3>3
    <3>5. o # None
      <4>1. o \in [kind : Cashu!Byte, data : Cashu!Shown, tags : Seq(Seq(Cashu!Bytes))]
        BY <3>3, <3>4, BytesAreNumbers
      <4> QED BY <4>1, NoneAssumption
    <3>6. [o EXCEPT !.tags = t.tags] = t
      BY <3>3, <3>4
    <3> QED BY <3>2, <3>4, <3>5, <3>6 DEF t
  <2> QED BY <2>1
<1>3. Encodes(content, r)
  BY <1>1, <1>2, Zenon DEF Encodes
<1> QED BY <1>3, ContentIsRead

LEMMA Nut18IsRead ==
  ASSUME NEW r \in Cashu!Request
  PROVE  /\ Cashu!ParseNut18(Cashu!Nut18(r, Cashu!Same)) = r
         /\ Cashu!ParseNut18(Cashu!Nut18(r, LAMBDA tags : << <<>> >> \o tags)) = r
<1> DEFINE New(x) == [x EXCEPT !.tags = Cashu!Nest(x.tags)]
           ts     == [i \in DOMAIN r.transports |-> New(r.transports[i])]
           o      == IF r.nut10 = None THEN None ELSE New(r.nut10)
           Wide(x) == [x EXCEPT !.tags = << <<>> >> \o Cashu!Nest(x.tags)]
           us     == [i \in DOMAIN r.transports |-> Wide(r.transports[i])]
           p      == IF r.nut10 = None THEN None ELSE Wide(r.nut10)
<1>1. ASSUME NEW i \in DOMAIN r.transports PROVE r.transports[i].tags \in Seq(Cashu!TagType)
  <2>1. r.transports \in Seq(Cashu!TransportType)
    BY DEF Cashu!Request
  <2>2. r.transports[i] \in Cashu!TransportType
    BY <2>1, LenProperties, ElementOfSeq
  <2> QED BY <2>2 DEF Cashu!TransportType
<1>2. r.nut10 # None => r.nut10.tags \in Seq(Cashu!TagType)
  BY DEF Cashu!Request, Cashu!Nut10Type
<1>3. ASSUME NEW tags \in Seq(Cashu!TagType)
      PROVE  /\ Cashu!Nest(tags) \in Seq(Seq(Bytes))
             /\ Cashu!NestedTags(Cashu!Nest(tags)) = tags
             /\ << <<>> >> \o Cashu!Nest(tags) \in Seq(Seq(Bytes))
             /\ Cashu!NestedTags(<< <<>> >> \o Cashu!Nest(tags)) = tags
  BY TagsAreNested
<1>4. /\ Cashu!Nut18(r, Cashu!Same) = [r EXCEPT !.transports = ts, !.nut10 = o]
      /\ Cashu!Nut18(r, LAMBDA tags : << <<>> >> \o tags)
           = [r EXCEPT !.transports = us, !.nut10 = p]
  BY DEF Cashu!Nut18, Cashu!Retagged, Cashu!Optional, Cashu!Same
<1>5. /\ DOMAIN ts = DOMAIN r.transports /\ DOMAIN us = DOMAIN r.transports
      /\ \A i \in DOMAIN r.transports : ts[i] = New(r.transports[i]) /\ us[i] = Wide(r.transports[i])
  OBVIOUS
<1>6. /\ r.nut10 = None => o = None /\ p = None
      /\ r.nut10 # None => o = New(r.nut10) /\ p = Wide(r.nut10)
  OBVIOUS
<1> HIDE DEF ts, us, o, p
<1>7. Cashu!ParseNut18([r EXCEPT !.transports = ts, !.nut10 = o]) = r
  <2>1. \A i \in DOMAIN ts : IsNested(r.transports[i], ts[i])
    BY <1>1, <1>3, <1>5 DEF IsNested
  <2>2. r.nut10 # None => IsNested(r.nut10, o)
    BY <1>2, <1>3, <1>6 DEF IsNested
  <2> DEFINE content == [r EXCEPT !.transports = ts, !.nut10 = o]
  <2>3. content = [r EXCEPT !.transports = ts, !.nut10 = o]
    OBVIOUS
  <2> HIDE DEF content, New, Wide
  <2>4. Cashu!ParseNut18(content) = r
    BY <1>5, <1>6, <2>1, <2>2, <2>3, RetaggedIsRead
  <2> QED BY <2>4 DEF content
<1>8. Cashu!ParseNut18([r EXCEPT !.transports = us, !.nut10 = p]) = r
  <2>1. \A i \in DOMAIN us : IsNested(r.transports[i], us[i])
    BY <1>1, <1>3, <1>5 DEF IsNested
  <2>2. r.nut10 # None => IsNested(r.nut10, p)
    BY <1>2, <1>3, <1>6 DEF IsNested
  <2> DEFINE content == [r EXCEPT !.transports = us, !.nut10 = p]
  <2>3. content = [r EXCEPT !.transports = us, !.nut10 = p]
    OBVIOUS
  <2> HIDE DEF content, New, Wide
  <2>4. Cashu!ParseNut18(content) = r
    BY <1>5, <1>6, <2>1, <2>2, <2>3, RetaggedIsRead
  <2> QED BY <2>4 DEF content
<1> QED BY <1>4, <1>7, <1>8

-----------------------------------------------------------------------------
(* Cashu requests.                                                         *)

RequestInv ==
  called = "parse_payment_request" =>
    \E r \in Requests : \E w \in Cashu!Wires26(r) \cup Cashu!Wires18(r) :
      input = [request |-> r, wire |-> w] /\ output \in {None, Cashu!Parse(input.wire)}

LEMMA RequestInvariant == Spec => []RequestInv
<1>1. Init => RequestInv
  BY DEF Init, Call, RequestInv
<1>2. RequestInv /\ [Next]_vars => RequestInv'
  <2> SUFFICES ASSUME RequestInv, [Next]_vars PROVE RequestInv'
    OBVIOUS
  <2>1. CASE ParseRequest
    BY <2>1 DEF ParseRequest, Return, RequestInv
  <2>2. CASE Decode \/ ParseUri \/ TryFromParts \/ Fmt
    <3>1. called' # "parse_payment_request"
      BY <2>2 DEF Decode, ParseUri, TryFromParts, Fmt, Return
    <3> QED BY <3>1 DEF RequestInv
  <2>3. CASE UNCHANGED vars
    BY <2>3 DEF vars, RequestInv
  <2> QED BY <2>1, <2>2, <2>3 DEF Next
<1> QED BY <1>1, <1>2, PTL DEF Spec

\* What comes for a request is bytes, and reads as the request unless it was damaged.
LEMMA WireIsRead ==
  ASSUME NEW r \in Cashu!Request, NEW w \in Cashu!Wires26(r) \cup Cashu!Wires18(r)
  PROVE  /\ ~w.damaged => Cashu!Parse(w) = r
         /\ w.nut = 26 => w.of \in Bytes /\ Cashu!Parse(w) = Cashu!ParseNut26(w.of)
<1> DEFINE n26 == Cashu!Nut26(r)
<1>1. <<>> \in Cashu!Before
  BY DEF Cashu!Before
<1>2. n26 \in Bytes
  <2> DEFINE none == <<>>
  <2>1. none \in Cashu!Before /\ none = <<>>
    BY <1>1
  <2> HIDE DEF none
  <2> QED BY <2>1, RequestIsRead
<1> HIDE DEF n26
<1>3. CASE w \in Cashu!Wires18(r)
  <2> DEFINE a == Cashu!Nut18(r, Cashu!Same)
             b == Cashu!Nut18(r, LAMBDA tags : << <<>> >> \o tags)
  <2>1. Cashu!ParseNut18(a) = r /\ Cashu!ParseNut18(b) = r
    BY Nut18IsRead
  <2>2. \/ w = [nut |-> 18, damaged |-> TRUE, of |-> Cashu!Refused]
        \/ w = [nut |-> 18, damaged |-> FALSE, of |-> a]
        \/ w = [nut |-> 18, damaged |-> FALSE, of |-> b]
    BY <1>3 DEF Cashu!Wires18
  <2> HIDE DEF a, b
  <2>3. w.nut = 18 /\ (~w.damaged => Cashu!ParseNut18(w.of) = r)
    BY <2>1, <2>2
  <2> QED BY <2>3 DEF Cashu!Parse
<1>4. CASE w \in Cashu!Wires26(r)
  <2>1. \/ \E prefix \in IF r.id = None THEN {<<>>} ELSE Cashu!Before :
             w = [nut |-> 26, damaged |-> FALSE, of |-> prefix \o n26]
        \/ \E bytes \in Cashu!Damages(n26) : w = [nut |-> 26, damaged |-> TRUE, of |-> bytes]
    BY <1>4 DEF Cashu!Wires26, n26
  <2>2. CASE \E prefix \in IF r.id = None THEN {<<>>} ELSE Cashu!Before :
               w = [nut |-> 26, damaged |-> FALSE, of |-> prefix \o n26]
    <3>1. PICK prefix \in IF r.id = None THEN {<<>>} ELSE Cashu!Before :
                w = [nut |-> 26, damaged |-> FALSE, of |-> prefix \o n26]
      BY <2>2
    <3>2. prefix \in Cashu!Before /\ (r.id = None => prefix = <<>>)
      BY <1>1, <3>1
    <3>3. Cashu!ParseNut26(prefix \o n26) = r /\ prefix \o n26 \in Bytes
      BY <3>2, RequestIsRead DEF n26
    <3>4. w.nut = 26 /\ w.of = prefix \o n26
      BY <3>1
    <3> QED BY <3>3, <3>4 DEF Cashu!Parse
  <2>3. CASE \E bytes \in Cashu!Damages(n26) : w = [nut |-> 26, damaged |-> TRUE, of |-> bytes]
    <3>1. PICK bytes \in Cashu!Damages(n26) : w = [nut |-> 26, damaged |-> TRUE, of |-> bytes]
      BY <2>3
    <3>2. bytes \in Bytes
      <4>1. \/ \E n \in 0..Len(n26) - 1 : bytes = SubSeq(n26, 1, n)
            \/ \E i \in DOMAIN n26, b \in Byte : bytes = [n26 EXCEPT ![i] = b]
        BY <3>1 DEF Cashu!Damages, Byte, Cashu!Byte
      <4>2. n26 \in Seq(Byte) /\ Len(n26) \in Nat /\ DOMAIN n26 = 1..Len(n26)
        BY <1>2, LenProperties DEF Bytes
      <4>3. ASSUME NEW n \in 0..Len(n26) - 1 PROVE SubSeq(n26, 1, n) \in Seq(Byte)
        <5>1. n \in Int /\ 1 \in Int /\ \A i \in 1..n : i \in 1..Len(n26)
          BY <4>2
        <5>2. \A i \in 1..n : n26[i] \in Byte
          BY <4>2, <5>1, ElementOfSeq
        <5> QED BY <5>1, <5>2, SubSeqProperties
      <4>4. ASSUME NEW i \in DOMAIN n26, NEW b \in Byte PROVE [n26 EXCEPT ![i] = b] \in Seq(Byte)
        BY <4>2, ExceptSeq
      <4> QED BY <4>1, <4>3, <4>4 DEF Bytes
    <3>3. w.nut = 26 /\ w.of = bytes /\ w.damaged
      BY <3>1
    <3> QED BY <3>2, <3>3 DEF Cashu!Parse
  <2> QED BY <2>1, <2>2, <2>3
<1> QED BY <1>3, <1>4

\* Whatever a request holds, as many mints, transports and tags of whatever lengths, it
\* reads back from both encodings; and of whatever bytes, those that are accepted are
\* whole entries to the last byte, of a transport and of the option too
\* (cashu.rs:81-293).
THEOREM RequestsAreReadAsWritten == Spec => []ReadsWhatWasWritten
<1>1. RequestInv => ReadsWhatWasWritten
  <2> SUFFICES ASSUME RequestInv, called = "parse_payment_request", output # None
               PROVE  /\ ~input.wire.damaged => output = input.request
                      /\ output # Cashu!Refused /\ input.wire.nut = 26 =>
                           Cashu!IsWhole(input.wire.of)
    BY DEF ReadsWhatWasWritten, Returned
  <2>1. PICK r \in Requests : \E w \in Cashu!Wires26(r) \cup Cashu!Wires18(r) :
          input = [request |-> r, wire |-> w] /\ output = Cashu!Parse(input.wire)
    BY DEF RequestInv
  <2>2. PICK w \in Cashu!Wires26(r) \cup Cashu!Wires18(r) :
          input = [request |-> r, wire |-> w] /\ output = Cashu!Parse(input.wire)
    BY <2>1
  <2>3. r \in Cashu!Request /\ input.request = r /\ input.wire = w /\ output = Cashu!Parse(w)
    BY <2>2, RequestsAssumption
  <2>4. /\ ~w.damaged => Cashu!Parse(w) = r
        /\ w.nut = 26 => w.of \in Bytes /\ Cashu!Parse(w) = Cashu!ParseNut26(w.of)
    BY <2>3, WireIsRead
  <2>5. w.nut = 26 /\ output # Cashu!Refused => Cashu!IsWhole(w.of)
    BY <2>3, <2>4, AcceptedIsWhole
  <2> QED BY <2>3, <2>4, <2>5
<1> QED BY <1>1, RequestInvariant, PTL
=============================================================================

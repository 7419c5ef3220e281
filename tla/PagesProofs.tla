----------------------------- MODULE PagesProofs -----------------------------
(***************************************************************************)
(* What holds of the small systems, for any number of requests under way:  *)
(* the versions of the revenue split are 1, 2, 3, ..., categories keep     *)
(* their names, their links and their picker in step, a page of the admin  *)
(* console comes to rest on the row as it is stored, the pages of an item  *)
(* agree and lead past no chapter, a long list loses one item for a        *)
(* change, and the sitemaps agree with what a crawler finds.               *)
(***************************************************************************)
EXTENDS SmallSystems, RevenueProofs

Post == [step : {"none", "checked", "read"}, split : Splits \cup {<<>>}, version : Nat]

\* The splits that pass the check.
Accepted == {split \in Splits : SumsUp(split)}

Row == [version : Nat, split : {Stored(split) : split \in Accepted}]

\* What a submission has read is not ahead of the rows: its version is that of a row
\* or the next one.
NotAhead == \A p \in Posts : post[p].step = "read" => post[p].version \in 1..(Len(config) + 1)

ConfigInv ==
    /\ config \in Seq(Row) /\ post \in [Posts -> Post]
    /\ \A p \in Posts : post[p].step # "none" => post[p].split \in Accepted
    /\ VersionsInOrder
    /\ NotAhead

\* While the versions are in order, their set is an interval and the highest one is
\* the number of rows.
LEMMA LatestIsLength ==
  ASSUME config \in Seq(Row), VersionsInOrder
  PROVE  Versions = 1..Len(config) /\ Latest = Len(config)
<1>1. Versions = 1..Len(config)
  BY DEF Versions, VersionsInOrder
<1>2. Len(config) \in Nat
  OBVIOUS
<1>3. Len(config) \in {0} \cup Versions
  BY <1>1, <1>2
<1>4. \A w \in Versions : w <= Len(config)
  BY <1>1, <1>2
<1>5. \A v \in {0} \cup Versions : (\A w \in Versions : w <= v) => v = Len(config)
  <2> SUFFICES ASSUME NEW v \in {0} \cup Versions, \A w \in Versions : w <= v
               PROVE  v = Len(config)
    OBVIOUS
  <2>1. v \in 0..Len(config)
    BY <1>1, <1>2
  <2>2. CASE Len(config) = 0
    BY <2>1, <2>2
  <2>3. CASE Len(config) > 0
    <3>1. Len(config) \in Versions
      BY <1>1, <1>2, <2>3
    <3> QED BY <3>1, <2>1
  <2> QED BY <1>2, <2>2, <2>3
<1> QED BY <1>1, <1>3, <1>4, <1>5 DEF Latest

LEMMA ConfigInit_Inv == ConfigInit => ConfigInv
<1> SUFFICES ASSUME ConfigInit PROVE ConfigInv
  OBVIOUS
<1> QED BY DEF ConfigInit, ConfigInv, NoPost, Post, VersionsInOrder, NotAhead

LEMMA Submit_Inv ==
  ASSUME ConfigInv, NEW p \in Posts, Submit(p)
  PROVE  ConfigInv'
<1>1. config' = config
  BY DEF Submit
<1>2. CASE post' = post
  BY <1>1, <1>2 DEF ConfigInv, VersionsInOrder, NotAhead
<1>3. ASSUME NEW split \in Accepted,
             post' = [post EXCEPT ![p] = [step |-> "checked", split |-> split, version |-> 0]]
      PROVE  ConfigInv'
  <2>1. [step |-> "checked", split |-> split, version |-> 0] \in Post
    BY <1>3 DEF Post, Accepted
  <2>2. post' \in [Posts -> Post]
    BY <1>3, <2>1 DEF ConfigInv, Post
  <2>3. \A q \in Posts : post'[q] = IF q = p THEN [step |-> "checked", split |-> split, version |-> 0] ELSE post[q]
    BY <1>3, <2>1 DEF ConfigInv
  <2> QED BY <1>1, <2>2, <2>3 DEF ConfigInv, VersionsInOrder, NotAhead
<1> QED BY <1>2, <1>3 DEF Submit, Accepted

LEMMA ReadLatest_Inv ==
  ASSUME ConfigInv, NEW p \in Posts, ReadLatest(p)
  PROVE  ConfigInv'
<1>1. Latest = Len(config) /\ Len(config) \in Nat
  BY LatestIsLength DEF ConfigInv
<1>2. config' = config
  BY DEF ReadLatest
<1>3. post[p] \in Post /\ post[p].split \in Accepted
  BY DEF ConfigInv, ReadLatest
<1>4. \A q \in Posts :
        post'[q] = IF q = p THEN [step |-> "read", split |-> post[p].split, version |-> Len(config) + 1]
                   ELSE post[q]
  BY <1>1, <1>3 DEF ReadLatest, ConfigInv, Post
<1>5. post' \in [Posts -> Post]
  BY <1>1, <1>3, <1>4 DEF ReadLatest, ConfigInv, Post
<1> QED BY <1>1, <1>2, <1>3, <1>4, <1>5 DEF ConfigInv, VersionsInOrder, NotAhead

\* The version of a submission is taken, or it is the next one.
LEMMA Insert_Inv ==
  ASSUME ConfigInv, NEW p \in Posts, Insert(p)
  PROVE  ConfigInv'
<1> DEFINE new == [version |-> post[p].version, split |-> Stored(post[p].split)]
<1>1. Versions = 1..Len(config) /\ Len(config) \in Nat
  BY LatestIsLength DEF ConfigInv
<1>2. post[p].version \in 1..(Len(config) + 1) /\ post[p].split \in Accepted
  BY DEF ConfigInv, Insert, NotAhead
<1>3. NoPost \in Post
  BY DEF NoPost, Post
<1>4. post' \in [Posts -> Post] /\ \A q \in Posts : post'[q] = IF q = p THEN NoPost ELSE post[q]
  BY <1>3 DEF Insert, ConfigInv
<1>5. NoPost.step = "none"
  BY DEF NoPost
<1>6. CASE post[p].version \in Versions
  <2>1. config' = config
    BY <1>6 DEF Insert
  <2> QED BY <1>4, <1>5, <2>1 DEF ConfigInv, VersionsInOrder, NotAhead
<1>7. CASE post[p].version \notin Versions
  <2>1. config' = Append(config, new)
    BY <1>7 DEF Insert
  <2>2. post[p].version = Len(config) + 1
    BY <1>1, <1>2, <1>7
  <2>3. new \in Row
    BY <1>1, <1>2 DEF Row
  <2>4. config' \in Seq(Row) /\ Len(config') = Len(config) + 1
    BY <2>1, <2>3 DEF ConfigInv
  <2>5. \A n \in 1..Len(config') : config'[n] = IF n <= Len(config) THEN config[n] ELSE new
    BY <1>1, <2>1, <2>3, <2>4 DEF ConfigInv
  <2>6. VersionsInOrder'
    BY <1>1, <2>2, <2>4, <2>5 DEF ConfigInv, VersionsInOrder
  <2>7. NotAhead'
    BY <1>1, <1>4, <1>5, <2>4 DEF ConfigInv, NotAhead
  <2> QED BY <1>4, <1>5, <2>4, <2>6, <2>7 DEF ConfigInv
<1> QED BY <1>6, <1>7

\* Every step keeps the rows and the submissions as described.
LEMMA ConfigAlways == ConfigSpec => []ConfigInv
<1>1. ConfigInit => ConfigInv
  BY ConfigInit_Inv
<1>2. ConfigInv /\ [ConfigNext]_configVars => ConfigInv'
  <2> SUFFICES ASSUME ConfigInv, [ConfigNext]_configVars PROVE ConfigInv'
    OBVIOUS
  <2>1. CASE ConfigNext
    BY <2>1, Submit_Inv, ReadLatest_Inv, Insert_Inv DEF ConfigNext
  <2>2. CASE UNCHANGED configVars
    BY <2>2 DEF configVars, ConfigInv, VersionsInOrder, NotAhead
  <2> QED BY <2>1, <2>2
<1> QED BY <1>1, <1>2, PTL DEF ConfigSpec

\* admin.ts:270-273 with the unique index of schema.prisma: the versions are 1, 2, 3
\* and so on in the order of the rows, however many submissions run together.
THEOREM VersionsStayInOrder == ConfigSpec => []VersionsInOrder
<1>1. ConfigInv => VersionsInOrder
  BY DEF ConfigInv
<1> QED BY <1>1, ConfigAlways, PTL

\* The sum of three percentages.
LEMMA SumOfThree ==
  ASSUME NEW f, DOMAIN f = 1..3, \A x \in 1..3 : f[x] \in Int
  PROVE  SumFunction(f) = f[1] + f[2] + f[3]
<1> DEFINE S == 1..3
           g == [x \in S |-> IF x = 1 THEN 0 ELSE f[x]]
           h == [x \in S |-> IF x = 2 THEN 0 ELSE g[x]]
           z == [x \in S |-> IF x = 3 THEN 0 ELSE h[x]]
<1>1. IsFiniteSet(S) /\ 1 \in S /\ 2 \in S /\ 3 \in S
  <2> DEFINE a == 1
             b == 3
  <2>1. a \in Int /\ b \in Int
    OBVIOUS
  <2>2. IsFiniteSet(a..b)
    <3> HIDE DEF a, b
    <3> QED BY <2>1, FS_Interval
  <2> QED BY <2>2
<1>2. (\A x \in S : f[x] \in Int) /\ (\A x \in S : g[x] \in Int) /\ (\A x \in S : h[x] \in Int)
  OBVIOUS
<1>3. g[2] = f[2] /\ h[3] = f[3] /\ \A x \in S : z[x] = 0
  OBVIOUS
<1>4. SumFunctionOnSet(z, S) = 0
  <2> HIDE DEF S, z
  <2> QED BY <1>1, <1>3, SumOfZeros
<1>5. SumFunctionOnSet(g, S) = SumFunctionOnSet(f, S) - f[1]
  <2> HIDE DEF S
  <2> QED BY <1>1, <1>2, SumWithout
<1>6. SumFunctionOnSet(h, S) = SumFunctionOnSet(g, S) - g[2]
  <2> HIDE DEF S, g
  <2> QED BY <1>1, <1>2, SumWithout
<1>7. SumFunctionOnSet(z, S) = SumFunctionOnSet(h, S) - h[3]
  <2> HIDE DEF S, h
  <2> QED BY <1>1, <1>2, SumWithout
<1>8. SumFunctionOnSet(f, S) \in Int /\ SumFunctionOnSet(g, S) \in Int /\ SumFunctionOnSet(h, S) \in Int
  <2> HIDE DEF S, g, h
  <2> QED BY <1>1, <1>2, SumType
<1>9. f[1] \in Int /\ f[2] \in Int /\ f[3] \in Int
  OBVIOUS
<1> HIDE DEF g, h, z
<1> QED BY <1>3, <1>4, <1>5, <1>6, <1>7, <1>8, <1>9 DEF SumFunction

\* Rounding thousandths to hundredths, half up.
LEMMA Rounded ==
  ASSUME NEW x \in Nat
  PROVE  (x + 5) \div 10 \in Nat /\ x - 4 <= 10 * ((x + 5) \div 10) /\ 10 * ((x + 5) \div 10) <= x + 5
<1> DEFINE a == x + 5
<1>1. a \in Int /\ a >= 0 /\ 10 \in Nat \ {0}
  OBVIOUS
<1>2. a \div 10 \in Int /\ 10 * (a \div 10) <= a /\ a < 10 * (a \div 10) + 10 /\ a \div 10 >= 0
  <2> HIDE DEF a
  <2> QED BY <1>1, DivisionLeaves
<1> QED BY <1>2

\* What a row holds: three percentages that are whole up to two hundredths.
LEMMA StoredSplit ==
  ASSUME NEW s \in Accepted
  PROVE  /\ DOMAIN Stored(s) = 1..3 /\ \A k \in 1..3 : Stored(s)[k] \in Nat
         /\ SumFunction(Stored(s)) \in Nat
         /\ SumFunction(Stored(s)) >= 9998 /\ SumFunction(Stored(s)) <= 10002
         /\ \A k \in 1..3 : Stored(s)[k] <= SumFunction(Stored(s))
<1> DEFINE c == Stored(s)
<1>1. DOMAIN s = 1..3 /\ (\A k \in 1..3 : s[k] \in Nat) /\ SumsUp(s)
  <2>1. s \in [1..3 -> Nat] /\ SumsUp(s)
    BY ConfigAssumption, SMT DEF Accepted
  <2> QED BY <2>1, SMT
<1>2. DOMAIN c = 1..3 /\ \A k \in 1..3 : c[k] = (s[k] + 5) \div 10
  BY <1>1 DEF Stored
<1>3. ASSUME NEW k \in 1..3 PROVE c[k] \in Nat /\ s[k] - 4 <= 10 * c[k] /\ 10 * c[k] <= s[k] + 5
  <2> DEFINE x == s[k]
  <2>1. x \in Nat /\ c[k] = (x + 5) \div 10
    BY <1>1, <1>2
  <2> HIDE DEF x, c
  <2>2. c[k] \in Nat /\ x - 4 <= 10 * c[k] /\ 10 * c[k] <= x + 5
    BY <2>1, Rounded
  <2> QED BY <2>2 DEF x
<1> HIDE DEF c
<1>4. SumFunction(s) = s[1] + s[2] + s[3]
  <2>1. \A k \in 1..3 : s[k] \in Int
    BY <1>1
  <2> QED BY <1>1, <2>1, SumOfThree
<1>5. SumFunction(c) = c[1] + c[2] + c[3]
  <2>1. \A k \in 1..3 : c[k] \in Int
    BY <1>3
  <2> QED BY <1>2, <2>1, SumOfThree
<1>6. 1 \in 1..3 /\ 2 \in 1..3 /\ 3 \in 1..3 /\ \A k \in 1..3 : k = 1 \/ k = 2 \/ k = 3
  OBVIOUS
<1>7. /\ s[1] \in Nat /\ s[2] \in Nat /\ s[3] \in Nat
      /\ c[1] \in Nat /\ s[1] - 4 <= 10 * c[1] /\ 10 * c[1] <= s[1] + 5
      /\ c[2] \in Nat /\ s[2] - 4 <= 10 * c[2] /\ 10 * c[2] <= s[2] + 5
      /\ c[3] \in Nat /\ s[3] - 4 <= 10 * c[3] /\ 10 * c[3] <= s[3] + 5
  BY <1>1, <1>3, <1>6
<1> DEFINE sum == s[1] + s[2] + s[3]
           w == c[1] + c[2] + c[3]
<1>8. sum <= 100010 /\ sum >= 99990
  BY <1>1, <1>4 DEF SumsUp
<1>9. w \in Nat /\ sum - 12 <= 10 * w /\ 10 * w <= sum + 15 /\ sum \in Nat
      /\ c[1] <= w /\ c[2] <= w /\ c[3] <= w
  BY <1>7
<1>10. w >= 9998 /\ w <= 10002
  <2> HIDE DEF sum, w
  <2> QED BY <1>8, <1>9
<1>11. SumFunction(c) = w
  BY <1>5
<1>12. \A k \in 1..3 : c[k] \in Nat /\ c[k] <= w
  <2> HIDE DEF w
  <2> QED BY <1>6, <1>7, <1>9
<1> HIDE DEF w
<1>13. /\ DOMAIN c = 1..3 /\ \A k \in 1..3 : c[k] \in Nat
       /\ SumFunction(c) \in Nat /\ SumFunction(c) >= 9998 /\ SumFunction(c) <= 10002
       /\ \A k \in 1..3 : c[k] <= SumFunction(c)
  BY <1>2, <1>9, <1>10, <1>11, <1>12
<1> QED BY <1>13 DEF c

\* A floored part of the pool is within two hundredths of a percent and a cent.
LEMMA FlooredPart ==
  ASSUME NEW pool \in Nat, NEW c \in Nat, NEW w \in Nat, w >= 9998, w <= 10002, c <= w,
         NEW f, f = (pool * c) \div w
  PROVE  /\ f \in Nat /\ w * f <= pool * c /\ pool * c <= w * f + w - 1
         /\ 10000 * f - pool * c <= 2 * pool /\ 10000 * f - pool * c >= -(2 * pool + w)
<1> DEFINE pc == pool * c
<1>1. pc \in Nat /\ w \in Nat \ {0}
  BY SMT
<1>2. f \in Int /\ w * f <= pc /\ pc < w * f + w /\ f >= 0
  <2> HIDE DEF pc
  <2>1. pc \div w \in Int /\ w * (pc \div w) <= pc /\ pc < w * (pc \div w) + w /\ pc \div w >= 0
    BY <1>1, DivisionLeaves, SMT
  <2>2. f = pc \div w
    BY DEF pc
  <2> QED BY <2>1, <2>2
<1> DEFINE wf == w * f
<1>3. f \in Nat /\ wf \in Nat /\ wf <= pc /\ pc <= wf + w - 1
  <2>1. f \in Nat
    BY <1>2
  <2>2. wf \in Nat
    BY <2>1, SMT
  <2>3. wf <= pc /\ pc < wf + w
    BY <1>2
  <2> HIDE DEF wf, pc
  <2> QED BY <1>1, <2>1, <2>2, <2>3, SMT
<1>4. f <= pool
  <2>1. pool * c <= pool * w
    BY ScaleUp
  <2>2. pool * w = w * pool /\ w * pool \in Int
    BY SMT
  <2>3. w * f <= w * pool
    <3> DEFINE wp == w * pool
    <3>1. wf <= pc /\ pc <= wp /\ wp \in Int /\ pc \in Int /\ wf \in Int
      BY <1>1, <1>3, <2>1, <2>2
    <3> HIDE DEF wf, pc, wp
    <3>2. wf <= wp
      BY <3>1
    <3> QED BY <3>2 DEF wf, wp
  <2> QED BY <1>1, <1>3, <2>3, ScaleDown
\* The whole is two hundredths off.
<1>5. 10000 * f - wf <= 2 * pool /\ wf - 10000 * f <= 2 * pool
  <2> DEFINE d == 10000 - w
  <2>1. d \in Int /\ d <= 2 /\ d >= -2
    BY SMT
  <2>2. 10000 * f - wf = d * f
    BY <1>3, SMT
  <2> HIDE DEF d, wf
  <2>3. d * f <= 2 * f /\ d * f >= -2 * f /\ d * f \in Int
    BY <1>3, <2>1, SMT
  <2> DEFINE df == d * f
  <2>4. df <= 2 * f /\ df >= -2 * f /\ df \in Int /\ 10000 * f - wf = df
    BY <2>2, <2>3
  <2> HIDE DEF df
  <2>5. df <= 2 * pool /\ df >= -(2 * pool)
    BY <1>3, <1>4, <2>4, SMT
  <2> QED BY <1>3, <2>4, <2>5, SMT
<1>6. 10000 * f - pc <= 2 * pool /\ 10000 * f - pc >= -(2 * pool + w)
  <2> HIDE DEF wf, pc
  <2> QED BY <1>1, <1>3, <1>5, SMT
<1> QED BY <1>2, <1>3, <1>6

\* What a stored split hands out.
SplitKept(c, shares) ==
  /\ SumFunction(shares) = Pool
  /\ \A k \in DOMAIN shares :
       LET off == shares[k] * 10000 - Pool * c[k]
       IN off <= 2 * Pool + 30000 /\ off >= -(2 * Pool + 30000)

LEMMA StoredSplitKept ==
  ASSUME NEW s \in Accepted, NEW shares \in SplitRevenuePool(Pool, Stored(s))
  PROVE  SplitKept(Stored(s), shares)
<1> DEFINE c == Stored(s)
           w == SumFunction(c)
           f == Floored(Pool, c, w)
<1>1. /\ DOMAIN c = 1..3 /\ (\A k \in 1..3 : c[k] \in Nat)
      /\ w \in Nat /\ w >= 9998 /\ w <= 10002 /\ \A k \in 1..3 : c[k] <= w
  BY StoredSplit
<1>2. Pool \in Nat
  BY ConfigAssumption
<1>3. shares \in SplitByPercentage(Pool, c, w)
  BY DEF SplitRevenuePool
<1> HIDE DEF c
<1>4. DOMAIN f = 1..3 /\ \A k \in 1..3 : f[k] = (Pool * c[k]) \div w
  BY <1>1 DEF Floored
<1>5. IsFiniteSet(DOMAIN c)
  <2> DEFINE a == 1
             b == 3
  <2>1. a \in Int /\ b \in Int
    OBVIOUS
  <2>2. IsFiniteSet(a..b)
    <3> HIDE DEF a, b
    <3> QED BY <2>1, FS_Interval
  <2> QED BY <1>1, <2>2
<1>6. /\ SumFunction(shares) = Pool
      /\ DOMAIN shares = 1..3
      /\ \E k \in Largest(f) : shares = [f EXCEPT ![k] = @ + (Pool - SumFunction(f))]
  <2>1. w \in Nat \ {0}
    BY <1>1, SMT
  <2>2. \A k \in DOMAIN c : c[k] \in Nat
    BY <1>1
  <2> HIDE DEF w
  <2> QED BY <1>1, <1>2, <1>3, <1>5, <2>1, <2>2, SplitIsWhole
<1>7. PICK k \in Largest(f) : shares = [f EXCEPT ![k] = @ + (Pool - SumFunction(f))]
  BY <1>6
<1> HIDE DEF w, f
<1>8. ASSUME NEW i \in 1..3
      PROVE  /\ f[i] \in Nat /\ w * f[i] <= Pool * c[i] /\ Pool * c[i] <= w * f[i] + w - 1
             /\ 10000 * f[i] - Pool * c[i] <= 2 * Pool /\ 10000 * f[i] - Pool * c[i] >= -(2 * Pool + w)
  <2> DEFINE ci == c[i]
             fi == f[i]
  <2>1. ci \in Nat /\ ci <= w /\ fi = (Pool * ci) \div w
    BY <1>1, <1>4
  <2> HIDE DEF ci, fi
  <2>2. /\ fi \in Nat /\ w * fi <= Pool * ci /\ Pool * ci <= w * fi + w - 1
        /\ 10000 * fi - Pool * ci <= 2 * Pool /\ 10000 * fi - Pool * ci >= -(2 * Pool + w)
    BY <1>1, <1>2, <2>1, FlooredPart, SMT
  <2> QED BY <2>2 DEF ci, fi
<1> DEFINE rest == Pool - SumFunction(f)
\* Three floors leave less than three cents.
<1>9. rest \in Int /\ rest >= 0 /\ rest <= 2
  <2>1. 1 \in 1..3 /\ 2 \in 1..3 /\ 3 \in 1..3
    OBVIOUS
  <2>2. SumFunction(f) = f[1] + f[2] + f[3]
    <3>1. \A x \in 1..3 : f[x] \in Int
      BY <1>8
    <3> QED BY <1>4, <3>1, SumOfThree
  <2>3. w = c[1] + c[2] + c[3]
    <3>1. \A x \in 1..3 : c[x] \in Int
      BY <1>1
    <3> QED BY <1>1, <3>1, SumOfThree DEF w
  <2> DEFINE f1 == f[1]
             f2 == f[2]
             f3 == f[3]
             c1 == c[1]
             c2 == c[2]
             c3 == c[3]
  <2>4. /\ f1 \in Nat /\ w * f1 <= Pool * c1 /\ Pool * c1 <= w * f1 + w - 1 /\ c1 \in Nat
        /\ f2 \in Nat /\ w * f2 <= Pool * c2 /\ Pool * c2 <= w * f2 + w - 1 /\ c2 \in Nat
        /\ f3 \in Nat /\ w * f3 <= Pool * c3 /\ Pool * c3 <= w * f3 + w - 1 /\ c3 \in Nat
    BY <1>1, <1>8, <2>1
  <2>5. w = c1 + c2 + c3 /\ rest = Pool - (f1 + f2 + f3)
    BY <2>2, <2>3
  <2> HIDE DEF f1, f2, f3, c1, c2, c3, rest
  <2>6. w * (f1 + f2 + f3) = w * f1 + w * f2 + w * f3 /\ w * f1 \in Nat /\ w * f2 \in Nat /\ w * f3 \in Nat
    BY <1>1, <2>4, SMT
  <2>7. Pool * w = Pool * c1 + Pool * c2 + Pool * c3
        /\ Pool * c1 \in Nat /\ Pool * c2 \in Nat /\ Pool * c3 \in Nat
    BY <1>2, <2>4, <2>5, SMT
  <2>8. w * (f1 + f2 + f3) <= Pool * w /\ Pool * w <= w * (f1 + f2 + f3) + 3 * w - 3
    <3> DEFINE a1 == w * f1
               a2 == w * f2
               a3 == w * f3
               b1 == Pool * c1
               b2 == Pool * c2
               b3 == Pool * c3
    <3>1. /\ a1 \in Nat /\ a2 \in Nat /\ a3 \in Nat /\ b1 \in Nat /\ b2 \in Nat /\ b3 \in Nat
          /\ a1 <= b1 /\ b1 <= a1 + w - 1 /\ a2 <= b2 /\ b2 <= a2 + w - 1 /\ a3 <= b3 /\ b3 <= a3 + w - 1
      BY <2>4, <2>6, <2>7
    <3> HIDE DEF a1, a2, a3, b1, b2, b3
    <3>2. a1 + a2 + a3 <= b1 + b2 + b3 /\ b1 + b2 + b3 <= (a1 + a2 + a3) + 3 * w - 3
      BY <1>1, <3>1, SMT
    <3> QED BY <2>6, <2>7, <3>2 DEF a1, a2, a3, b1, b2, b3
  <2> DEFINE sum == f1 + f2 + f3
             x == w * sum
             y == w * Pool
  <2>9. sum \in Nat /\ x \in Int /\ y \in Int /\ x <= y /\ y <= x + 3 * w - 3 /\ rest = Pool - sum
    <3>1. sum \in Nat
      BY <2>4
    <3>2. Pool * w = y
      BY <1>1, <1>2, SMT
    <3>3. x \in Int /\ y \in Int
      <4> HIDE DEF sum
      <4> QED BY <1>1, <1>2, <3>1, SMT
    <3> QED BY <2>5, <2>8, <3>1, <3>2, <3>3
  <2> HIDE DEF sum
  <2>10. sum <= Pool
    BY <1>1, <1>2, <2>9, ScaleDown, SMT
  <2>11. rest < 3
    <3> SUFFICES ASSUME rest >= 3 PROVE FALSE
      BY <1>2, <2>9, SMT
    <3>1. w * 3 <= w * rest
      BY <1>1, <1>2, <2>9, ScaleUp, SMT
    <3>2. w * rest = y - x
      BY <1>1, <1>2, <2>9, SMT
    <3> HIDE DEF x, y
    <3> QED BY <1>1, <2>9, <3>1, <3>2, SMT
  <2> QED BY <1>2, <2>9, <2>10, <2>11, SMT
<1>10. ASSUME NEW i \in DOMAIN shares
       PROVE  LET off == shares[i] * 10000 - Pool * c[i]
              IN off <= 2 * Pool + 30000 /\ off >= -(2 * Pool + 30000)
  <2> DEFINE ci == Pool * c[i]
             fi == f[i]
             si == shares[i]
  <2>1. i \in 1..3
    BY <1>6
  <2>2. si = fi \/ si = fi + rest
    BY <1>4, <1>6, <1>7, <2>1
  <2>3. fi \in Nat /\ 10000 * fi - ci <= 2 * Pool /\ 10000 * fi - ci >= -(2 * Pool + w) /\ ci \in Int
    <3>1. c[i] \in Nat
      BY <1>1, <2>1
    <3>2. ci \in Int
      <4> DEFINE x == c[i]
      <4>1. x \in Nat
        BY <3>1
      <4> HIDE DEF x
      <4>2. Pool * x \in Int
        BY <1>2, <4>1, SMT
      <4> QED BY <4>2 DEF x
    <3> QED BY <1>8, <2>1, <3>2
  <2> HIDE DEF ci, fi, si, rest
  <2>4. si * 10000 - ci <= 2 * Pool + 30000 /\ si * 10000 - ci >= -(2 * Pool + 30000)
    BY <1>1, <1>2, <1>9, <2>2, <2>3, SMT
  <2> QED BY <2>4 DEF ci, si
<1>11. SplitKept(c, shares)
  BY <1>6, <1>10 DEF SplitKept
<1> QED BY <1>11 DEF c

\* docs/REVENUE.md: whatever was submitted, a stored configuration splits a pool whole
\* and as its percentages say.
THEOREM StoredSplitsWhole == ConfigSpec => []SplitsWhole
<1>1. ConfigInv => SplitsWhole
  <2> SUFFICES ASSUME ConfigInv, NEW n \in DOMAIN config,
                      NEW shares \in SplitRevenuePool(Pool, config[n].split)
               PROVE  SplitKept(config[n].split, shares)
    BY DEF SplitsWhole, SplitKept
  <2>1. config[n] \in Row
    BY DEF ConfigInv
  <2>2. PICK s \in Accepted : config[n].split = Stored(s)
    BY <2>1 DEF Row
  <2> QED BY <2>2, StoredSplitKept
<1> QED BY <1>1, ConfigAlways, PTL

-----------------------------------------------------------------------------
(***************************************************************************)
(* Categories                                                              *)
(***************************************************************************)

Slug == Names \X (Nat \ {0})
Chip == [id : Categories, name : Names]
Ids(chips) == {r.id : r \in chips}

CategoryRow ==
    [there : BOOLEAN, name : Names \cup {""}, slug : Slug \cup {<<>>}, deleted : BOOLEAN,
     renamed : BOOLEAN, seen : SUBSET Categories]

AskedRow ==
    [step : {"unused", "over", "list", "find", "load", "slug", "insert", "update", "remove",
             "check", "store", "ok", "failed"},
     op : {"list", "create", "rename", "delete", "save"}, mine : BOOLEAN, id : Categories \cup {0},
     name : Names \cup {""}, slug : Slug \cup {<<>>}, seen : SUBSET Categories,
     selected : [Categories -> Nat], rows : SUBSET Chip]

PickerRow ==
    [shown : SUBSET Chip, selected : [Categories -> Nat], chosen : SUBSET Categories,
     hurried : BOOLEAN, saved : BOOLEAN, busy : Categories \cup {0}, open : BOOLEAN]

\* Category d does not stand in the way of a new one of that name.
Apart(d, name) ==
    category[d].deleted \/ category[d].renamed \/ Fold[category[d].name] # Fold[name]

\* What a request asks for is there, and what it has read of names is still true of
\* the categories that nobody has renamed.
Fits(q) ==
    /\ q.step \in {"unused", "over"} => q.op = "list"
    /\ q.step = "list" => q.op = "list"
    /\ q.step = "find" \/ q.step = "insert" => q.op = "create"
    /\ q.step = "load" => q.op \in {"rename", "delete"}
    /\ q.step = "slug" => q.op \in {"create", "rename"}
    /\ q.step = "update" => q.op = "rename"
    /\ q.step = "remove" => q.op = "delete"
    /\ q.step \in {"check", "store"} => q.op = "save"
    /\ q.step = "failed" => q.op # "list"
    /\ q.op \in {"rename", "delete"} => q.id \in Existing
    /\ q.op \in {"create", "rename"} => q.name \in Names
    /\ q.op = "save" \/ (q.op = "list" /\ q.step \notin {"unused", "over"}) => q.mine
    /\ q.step \in {"slug", "insert", "update"} => q.slug \in Slug
    /\ Ids(q.rows) \subseteq Existing
    /\ q.op \in {"create", "rename"} /\ q.step = "ok" =>
          q.id \in Existing /\ \E name \in Names : q.rows = {[id |-> q.id, name |-> name]}
    /\ q.op = "create" /\ q.step \in {"slug", "insert"} =>
          q.seen \subseteq Existing /\ \A d \in q.seen : Apart(d, q.name)
    /\ q.op = "rename" /\ q.step \in {"slug", "update"} =>
          \/ category[q.id].renamed
          \/ q.name = category[q.id].name => q.step = "update" /\ q.slug = category[q.id].slug

TableTypes ==
    /\ category \in [Categories -> CategoryRow] /\ asked \in [Numbers -> AskedRow]
    /\ picker \in PickerRow /\ stored \subseteq Categories

\* Categories have a name and a slug of their own, and none stood in the way of it.
RowsFit ==
    /\ \A c \in Existing : category[c].name \in Names /\ category[c].slug \in Slug
    /\ \A c, d \in Existing : category[c].slug = category[d].slug => c = d
    /\ \A c \in Existing :
          /\ category[c].seen \subseteq Existing
          /\ category[c].renamed \/ \A d \in category[c].seen : Apart(d, category[c].name)

\* Links name the slug of then.
Linked ==
    \A l \in led : l[2] \in Existing /\ (category[l[2]].renamed \/ category[l[2]].slug = l[1])

\* Requests that may create a category yet.
Pending ==
    {n \in Numbers : \/ asked[n].step = "unused"
                     \/ asked[n].op = "create" /\ asked[n].step \in {"find", "slug", "insert"}}

\* There is an id left for each of them.
Budget ==
    /\ Existing = 1..Cardinality(Existing) /\ Cardinality(Existing) \in Nat
    /\ Cardinality(Existing) + Cardinality(Pending) <= MaxRequests

TableInv ==
    /\ TableTypes /\ RowsFit /\ Linked /\ Budget
    /\ \A n \in Numbers : Fits(asked[n])
    /\ Shown \subseteq Existing /\ picker.chosen \subseteq Existing

\* What the creator waits for, if it always has waited.
Agrees(q) ==
    /\ q.op # "list" => q.selected = picker.selected
    /\ q.op = "list" /\ q.step = "ok" => picker.chosen \cap Kept \subseteq Ids(q.rows)
    /\ q.op \in {"create", "delete"} => ~picker.saved
    /\ q.op = "save" /\ q.step = "ok" => stored = picker.chosen

ChoiceInv ==
    ~picker.hurried =>
        /\ \A m, n \in Waiting : m = n
        /\ Members(picker.selected) = picker.chosen
        /\ picker.saved => stored = picker.chosen
        /\ (\A n \in Waiting : asked[n].op # "list") => picker.chosen \cap Kept \subseteq Shown
        /\ \A n \in Waiting : Agrees(asked[n])

\* Rows stay, and are as they were unless deleted or renamed.
Grows ==
    \A d \in Existing :
        /\ d \in Existing'
        /\ category[d].deleted => category'[d].deleted
        /\ category[d].renamed => category'[d].renamed
        /\ ~category'[d].renamed =>
              category'[d].name = category[d].name /\ category'[d].slug = category[d].slug

Over == [NotAsked EXCEPT !.step = "over"]

LEMMA CategoriesAre ==
    /\ Cardinality(Categories) \in Nat /\ Categories = 1..Cardinality(Categories)
    /\ MaxRequests \in 1..Cardinality(Categories)
    /\ 1 \in Categories /\ 1 \in Numbers /\ 0 \notin Categories /\ IsFiniteSet(Numbers)
    /\ Cardinality(Numbers) = MaxRequests
    /\ Fold \in [Names -> Names] /\ \A x \in Names : Fold[Fold[x]] = Fold[x]
  <1>1. /\ Cardinality(Categories) \in Nat /\ Categories = 1..Cardinality(Categories)
        /\ MaxRequests \in Categories /\ Fold \in [Names -> Names]
        /\ \A x \in Names : Fold[Fold[x]] = Fold[x]
    BY TaxonomyAssumption
  <1>2. MaxRequests \in 1..Cardinality(Categories) /\ MaxRequests \in Int /\ 1 \in Int
    BY <1>1
  <1>3. 1 \in Categories /\ 1 \in Numbers /\ 0 \notin Categories
    BY <1>1, <1>2 DEF Numbers
  <1>4. IsFiniteSet(1..MaxRequests) /\ Cardinality(1..MaxRequests) = MaxRequests - 1 + 1
    BY <1>2, FS_Interval
  <1> QED
    BY <1>1, <1>2, <1>3, <1>4 DEF Numbers

LEMMA NothingIs == Nothing \in [Categories -> Nat] /\ Members(Nothing) = {}
  BY DEF Nothing, Members

LEMMA NotAskedFits ==
    /\ NotAsked \in AskedRow /\ NotAsked.step = "unused" /\ NotAsked.op = "list" /\ ~NotAsked.mine
    /\ Over \in AskedRow /\ Over.step = "over" /\ Over.op = "list" /\ ~Over.mine
    /\ Fits(NotAsked) /\ Fits(Over) /\ Fits(Over)'
  <1>1. NotAsked \in AskedRow
    BY NothingIs DEF NotAsked, AskedRow
  <1>2. Over \in AskedRow
    BY <1>1 DEF Over, AskedRow
  <1>3. Over.step = "over" /\ Over.op = "list" /\ ~Over.mine /\ Over.rows = {}
    BY DEF Over, NotAsked
  <1>4. NotAsked.step = "unused" /\ NotAsked.op = "list" /\ ~NotAsked.mine /\ NotAsked.rows = {}
    BY DEF NotAsked
  <1> HIDE DEF NotAsked, Over
  <1>5. Fits(NotAsked) /\ Fits(Over)
    BY <1>3, <1>4 DEF Fits, Ids
  <1>6. Fits(Over)'
    BY <1>3 DEF Fits, Ids
  <1> QED
    BY <1>1, <1>2, <1>3, <1>4, <1>5, <1>6

LEMMA FitsStay ==
    ASSUME Grows, NEW q, Fits(q)
    PROVE  Fits(q)'
  <1>1. \A d, name : d \in Existing /\ Apart(d, name) => Apart(d, name)'
    BY DEF Grows, Apart
  <1>2. Existing \subseteq Existing'
    BY DEF Grows
  <1>3. q.op \in {"rename", "delete"} => q.id \in Existing
    BY DEF Fits
  <1>4. q.op = "rename" /\ q.step \in {"slug", "update"} =>
          \/ category'[q.id].renamed
          \/ q.name = category'[q.id].name => q.step = "update" /\ q.slug = category'[q.id].slug
    BY <1>3 DEF Grows, Fits
  <1>5. q.op = "create" /\ q.step \in {"slug", "insert"} =>
          q.seen \subseteq Existing' /\ \A d \in q.seen : Apart(d, q.name)'
    BY <1>1, <1>2 DEF Fits
  <1> QED
    BY <1>2, <1>4, <1>5 DEF Fits

\* One request changes; the others fit.
LEMMA RequestsFit ==
    ASSUME asked \in [Numbers -> AskedRow], \A m \in Numbers : Fits(asked[m]), Grows,
           NEW n \in Numbers, NEW r, asked' = [asked EXCEPT ![n] = r], Fits(r)'
    PROVE  \A m \in Numbers : Fits(asked[m])'
  <1> SUFFICES ASSUME NEW m \in Numbers PROVE Fits(asked[m])'
    OBVIOUS
  <1>1. CASE m = n
    <2>1. asked'[m] = r
      BY <1>1
    <2> QED
      BY <2>1 DEF Fits, Apart, Ids
  <1>2. CASE m # n
    <2>1. PICK q : q = asked[m]
      OBVIOUS
    <2>2. asked'[m] = q
      BY <1>2, <2>1
    <2>3. Fits(q)'
      BY <2>1, FitsStay
    <2> QED
      BY <2>2, <2>3 DEF Fits, Apart, Ids
  <1> QED
    BY <1>1, <1>2

\* Request r may create a category yet.
MayCreate(r) == r.step = "unused" \/ (r.op = "create" /\ r.step \in {"find", "slug", "insert"})

LEMMA PendingFinite ==
    Pending \subseteq Numbers /\ IsFiniteSet(Pending) /\ Cardinality(Pending) \in Nat
  <1>1. Pending \subseteq Numbers
    BY DEF Pending
  <1>2. IsFiniteSet(Pending)
    BY <1>1, CategoriesAre, FS_Subset
  <1> QED
    BY <1>1, <1>2, FS_CardinalityType

LEMMA BudgetStays ==
    ASSUME Budget, Existing' = Existing, Pending' \subseteq Pending
    PROVE  Budget'
  <1>1. /\ IsFiniteSet(Pending) /\ Cardinality(Pending) \in Nat
        /\ Cardinality(Pending') <= Cardinality(Pending) /\ IsFiniteSet(Pending')
    BY PendingFinite, FS_Subset
  <1>2. Cardinality(Pending') \in Nat
    BY <1>1, FS_CardinalityType
  <1>3. MaxRequests \in Nat
    BY CategoriesAre
  <1> QED
    BY <1>1, <1>2, <1>3 DEF Budget

LEMMA RowsStay ==
    ASSUME UNCHANGED category
    PROVE  Grows /\ Existing' = Existing /\ Kept' = Kept /\ (RowsFit => RowsFit')
           /\ (Linked /\ led' = led => Linked') /\ \A q : Fits(q) => Fits(q)'
  <1>1. Grows /\ Existing' = Existing /\ Kept' = Kept /\ (RowsFit => RowsFit')
        /\ (Linked /\ led' = led => Linked')
    BY DEF Grows, Existing, Kept, RowsFit, Apart, Linked
  <1> QED
    BY <1>1, FitsStay

\* A step of request n that leaves the rows alone.
LEMMA QuietKeeps ==
    ASSUME TableInv, NEW n \in Numbers, NEW r \in AskedRow, asked' = [asked EXCEPT ![n] = r],
           UNCHANGED <<category, led>>, Fits(r), MayCreate(r) => MayCreate(asked[n]),
           picker' \in PickerRow, Ids(picker'.shown) \subseteq Existing,
           picker'.chosen \subseteq Existing, stored' \subseteq Categories
    PROVE  TableInv'
  <1>1. Grows /\ Existing' = Existing /\ RowsFit' /\ Linked' /\ Fits(r)'
    BY RowsStay DEF TableInv
  <1>2. TableTypes'
    BY DEF TableInv, TableTypes
  <1>3. \A m \in Numbers : Fits(asked[m])'
    BY <1>1, RequestsFit DEF TableInv, TableTypes
  <1>4. Pending' \subseteq Pending
    BY DEF TableInv, TableTypes, Pending, MayCreate
  <1>5. Budget'
    BY <1>1, <1>4, BudgetStays DEF TableInv
  <1>6. Shown' \subseteq Existing' /\ picker'.chosen \subseteq Existing'
    BY <1>1 DEF Shown, Ids
  <1> QED
    BY <1>1, <1>2, <1>3, <1>5, <1>6 DEF TableInv

LEMMA TaxonomyInitInv == TaxonomyInit => TableInv /\ ChoiceInv
  <1> SUFFICES ASSUME TaxonomyInit PROVE TableInv /\ ChoiceInv
    OBVIOUS
  <1>0. {Fold[x] : x \in Names} \subseteq Names
    BY CategoriesAre
  <1>1. PICK small \in {Fold[x] : x \in Names}, gone \in BOOLEAN :
           category = [c \in Categories |->
              IF c = 1 THEN [NewRow(small, <<Fold[small], 1>>, {}) EXCEPT !.deleted = gone] ELSE NoRow]
    BY DEF TaxonomyInit
  <1>2. category \in [Categories -> CategoryRow] /\ Existing = {1}
        /\ category[1].name = small /\ category[1].slug \in Slug /\ category[1].seen = {}
    BY <1>0, <1>1, CategoriesAre DEF NewRow, NoRow, CategoryRow, Existing, Slug
  <1>3. /\ stored \subseteq {1} /\ led = {<<category[1].slug, 1>>}
        /\ picker = [shown |-> {}, chosen |-> stored,
                     selected |-> [c \in Categories |-> IF c \in stored THEN 1 ELSE 0],
                     hurried |-> FALSE, saved |-> FALSE, busy |-> 0, open |-> TRUE]
    BY DEF TaxonomyInit
  <1>4. picker \in PickerRow /\ stored \subseteq Categories
    BY <1>3, CategoriesAre DEF PickerRow
  <1> DEFINE list == [[NotAsked EXCEPT !.step = "list"] EXCEPT !.mine = TRUE]
  <1>5. list \in AskedRow /\ list.step = "list" /\ list.op = "list" /\ list.mine /\ list.rows = {}
    <2>1. [NotAsked EXCEPT !.step = "list"] \in AskedRow
      BY NotAskedFits DEF AskedRow
    <2> QED
      BY <2>1 DEF AskedRow, NotAsked
  <1>6. asked = [n \in Numbers |-> IF n = 1 THEN list ELSE NotAsked]
    BY DEF TaxonomyInit
  <1> HIDE DEF list
  <1>7. Fits(list)
    BY <1>5 DEF Fits, Ids
  <1>8. TableTypes /\ \A n \in Numbers : Fits(asked[n])
    BY <1>2, <1>4, <1>5, <1>6, <1>7, NotAskedFits DEF TableTypes
  <1>9. RowsFit /\ Linked
    <2>1. RowsFit
      BY <1>0, <1>2 DEF RowsFit
    <2>2. \A l \in led : l[1] = category[1].slug /\ l[2] = 1
      BY <1>3
    <2>3. Linked
      BY <1>2, <2>2 DEF Linked
    <2> QED
      BY <2>1, <2>3
  <1>10. Budget
    <2>1. Cardinality(Existing) = 1 /\ Existing = 1..1
      <3>1. Cardinality({1}) = 1
        BY FS_Singleton
      <3> QED
        BY <1>2, <3>1
    <2>2. Pending = Numbers \ {1}
      BY <1>5, <1>6, NotAskedFits DEF Pending
    <2>3. Cardinality(Numbers \ {1}) = Cardinality(Numbers) - 1
      BY CategoriesAre, FS_RemoveElement
    <2> QED
      BY <2>1, <2>2, <2>3, CategoriesAre DEF Budget
  <1>11. TableInv
    BY <1>2, <1>3, <1>8, <1>9, <1>10 DEF TableInv, Shown
  <1>12. Waiting = {1}
    BY <1>5, <1>6, CategoriesAre, NotAskedFits DEF Waiting
  <1>13. Members(picker.selected) = picker.chosen
    <2>1. picker.chosen = stored
          /\ \A c \in Categories : picker.selected[c] = IF c \in stored THEN 1 ELSE 0
      BY <1>3
    <2>2. \A c \in Categories : picker.selected[c] > 0 <=> c \in stored
      BY <2>1
    <2> QED
      BY <1>4, <2>1, <2>2 DEF Members
  <1>14. ChoiceInv
    BY <1>3, <1>5, <1>6, <1>12, <1>13, CategoriesAre DEF ChoiceInv, Agrees
  <1> QED
    BY <1>11, <1>14

-----------------------------------------------------------------------------

\* The server takes request n a step further, to r.
Serves(n, r) ==
    /\ asked' = [asked EXCEPT ![n] = r] /\ r \in AskedRow /\ UNCHANGED picker
    /\ asked[n].step \notin {"unused", "over"}
    /\ IF asked[n].mine
       THEN /\ r.mine /\ r.op = asked[n].op /\ r.selected = asked[n].selected
            /\ r.step \notin {"unused", "over"}
       ELSE ~r.mine
    /\ r.op = "list" /\ r.step = "ok" => Kept' \subseteq Ids(r.rows)
    /\ IF r.op = "save" /\ r.step = "ok" THEN stored' = Members(r.selected) ELSE UNCHANGED stored

\* With rows and links as they are.
Reads(n, r) ==
    Serves(n, r) /\ UNCHANGED <<category, led>> /\ Fits(r) /\ (MayCreate(r) => MayCreate(asked[n]))

\* A request that ends; another creator's is forgotten.
LEMMA EndsServes ==
    ASSUME NEW n \in Numbers, NEW q \in AskedRow, Ends(n, q), UNCHANGED picker,
           asked[n].step \notin {"unused", "over"}, q.mine = asked[n].mine, q.op = asked[n].op,
           q.selected = asked[n].selected, q.step \in {"ok", "failed"}, q.op # "list",
           q.op = "save" => q.mine,
           IF q.op = "save" /\ q.step = "ok" THEN stored' = Members(q.selected) ELSE UNCHANGED stored
    PROVE  Serves(n, IF q.mine THEN q ELSE Over)
  <1>1. asked' = [asked EXCEPT ![n] = IF q.mine THEN q ELSE Over]
    BY DEF Ends, Over
  <1>2. CASE q.mine
    BY <1>1, <1>2 DEF Serves
  <1>3. CASE ~q.mine
    BY <1>1, <1>3, NotAskedFits DEF Serves
  <1> QED
    BY <1>2, <1>3 DEF AskedRow

LEMMA EndsReads ==
    ASSUME NEW n \in Numbers, NEW q \in AskedRow, Ends(n, q), UNCHANGED <<picker, category, led>>,
           asked[n].step \notin {"unused", "over"}, q.mine = asked[n].mine, q.op = asked[n].op,
           q.selected = asked[n].selected, q.step \in {"ok", "failed"}, q.op # "list",
           q.op = "save" => q.mine, Fits(q),
           IF q.op = "save" /\ q.step = "ok" THEN stored' = Members(q.selected) ELSE UNCHANGED stored
    PROVE  \E r : Reads(n, r)
  <1> DEFINE r == IF q.mine THEN q ELSE Over
  <1>1. Serves(n, r)
    BY EndsServes
  <1>2. Fits(r) /\ ~MayCreate(r)
    BY NotAskedFits DEF MayCreate
  <1> QED
    BY <1>1, <1>2 DEF Reads

\* The same request at another step.
LEMMA StepRow ==
    ASSUME NEW q \in AskedRow,
           NEW step \in {"list", "find", "load", "slug", "insert", "update", "remove",
                         "check", "store", "ok", "failed"}
    PROVE  LET r == [q EXCEPT !.step = step]
           IN /\ r \in AskedRow /\ r.step = step /\ r.op = q.op /\ r.mine = q.mine /\ r.id = q.id
              /\ r.name = q.name /\ r.slug = q.slug /\ r.seen = q.seen
              /\ r.selected = q.selected /\ r.rows = q.rows
  BY ZenonT(60) DEF AskedRow

LEMMA SlugRow ==
    ASSUME NEW q \in AskedRow, NEW slug \in Slug
    PROVE  LET r == [q EXCEPT !.slug = slug]
           IN /\ r \in AskedRow /\ r.step = q.step /\ r.op = q.op /\ r.mine = q.mine /\ r.id = q.id
              /\ r.name = q.name /\ r.slug = slug /\ r.seen = q.seen
              /\ r.selected = q.selected /\ r.rows = q.rows
  BY DEF AskedRow

LEMMA ChipIs ==
    ASSUME TableInv, NEW c \in Existing
    PROVE  /\ c \in Categories /\ [id |-> c, name |-> category[c].name] \in Chip
           /\ category[c].name \in Names /\ category[c].slug \in Slug
  BY DEF TableInv, RowsFit, Existing, Chip

LEMMA AnswerListReads ==
    ASSUME TableInv, NEW n \in Numbers, AnswerList(n)
    PROVE  \E r : Reads(n, r)
  <1> DEFINE q == asked[n]
             rows == {[id |-> c, name |-> category[c].name] : c \in Kept}
             p == [q EXCEPT !.step = "ok"]
             r == [p EXCEPT !.rows = rows]
  <1>1. q \in AskedRow /\ q.step = "list" /\ q.op = "list" /\ q.mine
    BY DEF AnswerList, TableInv, TableTypes, Fits
  <1>2. Kept \subseteq Existing
    BY DEF Kept
  <1>3. rows \in SUBSET Chip /\ Ids(rows) = Kept
    <2>1. \A c \in Kept : [id |-> c, name |-> category[c].name] \in Chip
      BY <1>2, ChipIs
    <2>2. \A s \in rows : s \in Chip /\ s.id \in Kept
      BY <2>1
    <2>3. \A c \in Kept : [id |-> c, name |-> category[c].name] \in rows
      OBVIOUS
    <2>4. \A c \in Kept : \E s \in rows : s.id = c
      BY <2>3
    <2> HIDE DEF rows
    <2> QED
      BY <2>2, <2>4 DEF Ids
  <1> HIDE DEF rows
  <1>4. p \in AskedRow /\ p.step = "ok" /\ p.op = "list" /\ p.mine /\ p.selected = q.selected
    BY <1>1 DEF AskedRow
  <1>5. asked' = [asked EXCEPT ![n] = r] /\ UNCHANGED <<category, picker, stored, led>>
    BY DEF AnswerList, Rest, rows
  <1> HIDE DEF p
  <1>6. /\ r \in AskedRow /\ r.step = "ok" /\ r.op = "list" /\ r.mine /\ r.selected = q.selected
        /\ r.rows = rows
    BY <1>3, <1>4 DEF AskedRow
  <1> HIDE DEF r
  <1>7. Kept' = Kept
    BY <1>5, RowsStay
  <1>8. Serves(n, r)
    BY <1>1, <1>3, <1>5, <1>6, <1>7 DEF Serves
  <1>9. Fits(r) /\ ~MayCreate(r)
    BY <1>2, <1>3, <1>6 DEF Fits, MayCreate
  <1> QED
    BY <1>5, <1>8, <1>9 DEF Reads

LEMMA FindNameReads ==
    ASSUME TableInv, NEW n \in Numbers, FindName(n)
    PROVE  \E r : Reads(n, r)
  <1> DEFINE q == asked[n]
  <1>1. q \in AskedRow /\ q.step = "find" /\ q.op = "create" /\ q.name \in Names /\ Fits(q)
    BY DEF FindName, TableInv, TableTypes, Fits
  <1>2. UNCHANGED <<category, picker, stored, led>>
    BY DEF FindName, Rest
  <1>3. CASE Named(n) # {} /\ \E c \in Named(n) :
                Ends(n, [q EXCEPT !.step = "ok", !.id = c,
                                  !.rows = {[id |-> c, name |-> category[c].name]}])
    <2>1. PICK c \in Named(n) : Ends(n, [q EXCEPT !.step = "ok", !.id = c,
                                            !.rows = {[id |-> c, name |-> category[c].name]}])
      BY <1>3
    <2>2. c \in Existing
      BY DEF Named, Kept
    <2> DEFINE p == [q EXCEPT !.step = "ok"]
               rows == {[id |-> c, name |-> category[c].name]}
               s == [p EXCEPT !.id = c]
               r == [s EXCEPT !.rows = rows]
    <2>3. /\ p \in AskedRow /\ p.step = "ok" /\ p.op = q.op /\ p.mine = q.mine
          /\ p.name = q.name /\ p.selected = q.selected
      BY <1>1, StepRow
    <2>4. Ends(n, r)
      BY <2>1
    <2> HIDE DEF p
    <2>5. rows \in SUBSET Chip /\ c \in Categories /\ Ids(rows) = {c}
      BY <2>2, ChipIs DEF Ids
    <2>6. /\ r \in AskedRow /\ r.step = "ok" /\ r.op = q.op /\ r.mine = q.mine /\ r.id = c
          /\ r.name = q.name /\ r.selected = q.selected /\ r.rows = rows
      <3>1. /\ s \in AskedRow /\ s.step = "ok" /\ s.op = q.op /\ s.mine = q.mine /\ s.id = c
            /\ s.name = q.name /\ s.selected = q.selected
        BY <2>3, <2>5 DEF AskedRow
      <3> HIDE DEF s, rows
      <3> QED
        BY <2>5, <3>1 DEF AskedRow
    <2>7. \E name \in Names : rows = {[id |-> c, name |-> name]}
      BY <2>2, ChipIs
    <2> HIDE DEF rows, r
    <2>8. Fits(r)
      BY <1>1, <2>2, <2>5, <2>6, <2>7 DEF Fits
    <2> QED
      BY <1>1, <1>2, <2>4, <2>6, <2>8, EndsReads
  <1>4. CASE Named(n) = {} /\ asked' = [asked EXCEPT ![n] =
                [@ EXCEPT !.step = "slug", !.seen = Existing, !.slug = <<Fold[q.name], 1>>]]
    <2> DEFINE slug == <<Fold[q.name], 1>>
               p == [q EXCEPT !.step = "slug"]
               s == [p EXCEPT !.seen = Existing]
               r == [s EXCEPT !.slug = slug]
    <2>1. slug \in Slug
      BY <1>1, CategoriesAre DEF Slug
    <2>2. Existing \subseteq Categories
      BY DEF Existing
    <2>3. /\ p \in AskedRow /\ p.step = "slug" /\ p.op = q.op /\ p.mine = q.mine /\ p.id = q.id
          /\ p.name = q.name /\ p.selected = q.selected /\ p.rows = q.rows
      BY <1>1, StepRow, ZenonT(60)
    <2>4. asked' = [asked EXCEPT ![n] = r]
      BY <1>4
    <2> HIDE DEF p, slug
    <2>5. /\ s \in AskedRow /\ s.step = "slug" /\ s.op = q.op /\ s.mine = q.mine /\ s.id = q.id
          /\ s.name = q.name /\ s.selected = q.selected /\ s.rows = q.rows /\ s.seen = Existing
      BY <2>2, <2>3 DEF AskedRow
    <2> HIDE DEF s
    <2>6. /\ r \in AskedRow /\ r.step = "slug" /\ r.op = q.op /\ r.mine = q.mine /\ r.id = q.id
          /\ r.name = q.name /\ r.selected = q.selected /\ r.rows = q.rows /\ r.seen = Existing
          /\ r.slug = slug
      BY <2>1, <2>5, SlugRow
    <2> HIDE DEF r
    <2>7. \A d \in Existing : Apart(d, q.name)
      BY <1>4 DEF Named, Kept, Apart
    <2>8. Fits(r)
      BY <1>1, <2>1, <2>6, <2>7 DEF Fits
    <2>9. Serves(n, r) /\ MayCreate(q)
      BY <1>1, <1>2, <2>4, <2>6 DEF Serves, MayCreate
    <2> QED
      BY <1>2, <2>8, <2>9 DEF Reads
  <1> QED
    BY <1>3, <1>4 DEF FindName

\* The request goes on, or ends without effect, at `step`.
LEMMA GoesReads ==
    ASSUME TableInv, NEW n \in Numbers, UNCHANGED <<picker, category, stored, led>>,
           NEW step \in {"slug", "insert", "update", "remove", "store", "ok", "failed"},
           Goes(n, step), asked[n].step \in {"load", "slug", "insert", "update", "check"},
           step = "ok" => asked[n].op = "delete",
           step \in {"slug", "insert"} => MayCreate(asked[n]) \/ asked[n].op = "rename",
           Fits([asked[n] EXCEPT !.step = step])
    PROVE  \E r : Reads(n, r)
  <1> DEFINE q == asked[n]
             r == [q EXCEPT !.step = step]
  <1>1. q \in AskedRow /\ Fits(q)
    BY DEF TableInv, TableTypes
  <1>2. /\ r \in AskedRow /\ r.step = step /\ r.op = q.op /\ r.mine = q.mine
        /\ r.selected = q.selected
    BY <1>1 DEF AskedRow
  <1>3. q.op # "list" /\ (q.op = "save" => q.mine)
    BY <1>1 DEF Fits
  <1>0. Fits(r)
    OBVIOUS
  <1>4. CASE step \in {"ok", "failed"}
    <2>1. Ends(n, r)
      BY <1>4 DEF Goes
    <2> HIDE DEF r
    <2> QED
      BY <1>0, <1>1, <1>2, <1>3, <1>4, <2>1, EndsReads
  <1>5. CASE step \notin {"ok", "failed"}
    <2>1. asked' = [asked EXCEPT ![n] = r]
      BY <1>5 DEF Goes
    <2> HIDE DEF r
    <2>2. Serves(n, r)
      BY <1>1, <1>2, <1>3, <1>5, <2>1 DEF Serves
    <2>3. MayCreate(r) => MayCreate(q)
      BY <1>2, <1>5 DEF MayCreate
    <2> QED
      BY <2>2, <2>3 DEF Reads, r
  <1> QED
    BY <1>4, <1>5

LEMMA LoadReads ==
    ASSUME TableInv, NEW n \in Numbers, LoadCategory(n)
    PROVE  \E r : Reads(n, r)
  <1> DEFINE q == asked[n]
             record == category[q.id]
  <1>1. q \in AskedRow /\ Fits(q) /\ q.step = "load" /\ q.op \in {"rename", "delete"}
        /\ q.id \in Existing /\ (q.op = "rename" => q.name \in Names)
    BY DEF LoadCategory, TableInv, TableTypes, Fits
  <1>2. UNCHANGED <<picker, category, stored, led>>
    BY DEF LoadCategory, Rest
  <1>3. CASE Goes(n, "failed")
    <2>1. Fits([q EXCEPT !.step = "failed"])
      BY <1>1, StepRow DEF Fits
    <2> QED
      BY <1>1, <1>2, <1>3, <2>1, GoesReads
  <1>4. CASE Goes(n, "remove") /\ q.op = "delete"
    <2>1. Fits([q EXCEPT !.step = "remove"])
      BY <1>1, <1>4, StepRow DEF Fits
    <2> QED
      BY <1>1, <1>2, <1>4, <2>1, GoesReads
  <1>5. ASSUME q.op = "rename", NEW slug \in Slug, NEW step \in {"slug", "update"},
               asked' = [asked EXCEPT ![n] = [@ EXCEPT !.step = step, !.slug = slug]],
               q.name = record.name => step = "update" /\ slug = record.slug
        PROVE  \E r : Reads(n, r)
    <2> DEFINE p == [q EXCEPT !.step = step]
               r == [p EXCEPT !.slug = slug]
    <2>1. /\ p \in AskedRow /\ p.step = step /\ p.op = q.op /\ p.mine = q.mine /\ p.id = q.id
          /\ p.name = q.name /\ p.selected = q.selected /\ p.rows = q.rows
      BY <1>1 DEF AskedRow
    <2>2. asked' = [asked EXCEPT ![n] = r]
      BY <1>5
    <2> HIDE DEF p
    <2>3. /\ r \in AskedRow /\ r.step = step /\ r.op = q.op /\ r.mine = q.mine /\ r.id = q.id
          /\ r.name = q.name /\ r.selected = q.selected /\ r.rows = q.rows /\ r.slug = slug
      BY <2>1, SlugRow
    <2> HIDE DEF r
    <2>4. Fits(r)
      BY <1>1, <1>5, <2>3 DEF Fits
    <2>5. Serves(n, r) /\ ~MayCreate(r)
      BY <1>1, <1>2, <1>5, <2>2, <2>3 DEF Serves, MayCreate
    <2> QED
      BY <1>2, <2>4, <2>5 DEF Reads
  <1>6. CASE q.op = "rename" /\ q.name = record.name
                /\ asked' = [asked EXCEPT ![n] = [@ EXCEPT !.step = "update", !.slug = record.slug]]
    BY <1>1, <1>5, <1>6, ChipIs
  <1>7. CASE q.op = "rename" /\ q.name # record.name
                /\ asked' = [asked EXCEPT ![n] = [@ EXCEPT !.step = "slug", !.slug = <<Fold[q.name], 1>>]]
    <2>1. <<Fold[q.name], 1>> \in Slug
      BY <1>1, <1>7, CategoriesAre DEF Slug
    <2> QED
      BY <1>5, <1>7, <2>1
  <1> QED
    BY <1>1, <1>3, <1>4, <1>6, <1>7 DEF LoadCategory

LEMMA TryReads ==
    ASSUME TableInv, NEW n \in Numbers, TryCandidate(n)
    PROVE  \E r : Reads(n, r)
  <1> DEFINE q == asked[n]
  <1>1. q \in AskedRow /\ Fits(q) /\ q.step = "slug" /\ q.op \in {"create", "rename"}
        /\ q.slug \in Slug
    BY DEF TryCandidate, TableInv, TableTypes, Fits
  <1>2. UNCHANGED <<picker, category, stored, led>>
    BY DEF TryCandidate, Rest
  <1>3. CASE Taken(q.slug)
    <2> DEFINE slug == <<q.slug[1], q.slug[2] + 1>>
               r == [q EXCEPT !.slug = slug]
    <2>1. slug \in Slug
      BY <1>1 DEF Slug
    <2>2. asked' = [asked EXCEPT ![n] = r]
      BY <1>1, <1>3 DEF TryCandidate
    <2> HIDE DEF slug
    <2>3. /\ r \in AskedRow /\ r.step = q.step /\ r.op = q.op /\ r.mine = q.mine /\ r.id = q.id
          /\ r.name = q.name /\ r.slug = slug /\ r.seen = q.seen
          /\ r.selected = q.selected /\ r.rows = q.rows
      BY <1>1, <2>1, SlugRow
    <2> HIDE DEF r
    <2>4. Fits(r)
      BY <1>1, <2>1, <2>3 DEF Fits
    <2>5. Serves(n, r) /\ (MayCreate(r) => MayCreate(q))
      BY <1>1, <1>2, <2>2, <2>3 DEF Serves, MayCreate
    <2> QED
      BY <1>2, <2>4, <2>5 DEF Reads
  <1>4. CASE ~Taken(q.slug)
    <2> DEFINE step == IF q.op = "create" THEN "insert" ELSE "update"
    <2>1. Goes(n, step)
      BY <1>4 DEF TryCandidate
    <2>2. Fits([q EXCEPT !.step = step])
      <3>1. q.op = "rename" => \/ category[q.id].renamed
                               \/ q.name # category[q.id].name
        BY <1>1 DEF Fits
      <3> QED
        BY <1>1, <3>1, StepRow DEF Fits
    <2>3. step \in {"insert", "update"} /\ (step = "insert" => MayCreate(q))
      BY <1>1 DEF MayCreate
    <2> QED
      BY <1>1, <1>2, <2>1, <2>2, <2>3, GoesReads
  <1> QED
    BY <1>3, <1>4

LEMMA CheckReads ==
    ASSUME TableInv, NEW n \in Numbers, CheckCategories(n)
    PROVE  \E r : Reads(n, r)
  <1> DEFINE q == asked[n]
  <1>1. q \in AskedRow /\ Fits(q) /\ q.step = "check" /\ q.op = "save"
    BY DEF CheckCategories, TableInv, TableTypes, Fits
  <1>2. UNCHANGED <<picker, category, stored, led>>
    BY DEF CheckCategories, Rest
  <1>3. PICK step \in {"store", "failed"} : Goes(n, step)
    BY DEF CheckCategories
  <1>4. Fits([q EXCEPT !.step = step])
    BY <1>1, StepRow DEF Fits
  <1> QED
    BY <1>1, <1>2, <1>3, <1>4, GoesReads

LEMMA StoreReads ==
    ASSUME TableInv, NEW n \in Numbers, StoreCategories(n)
    PROVE  (\E r : Reads(n, r)) /\ stored' \subseteq Categories
  <1> DEFINE q == asked[n]
             r == [q EXCEPT !.step = "ok"]
  <1>1. q \in AskedRow /\ Fits(q) /\ q.step = "store" /\ q.op = "save" /\ q.mine
    BY DEF StoreCategories, TableInv, TableTypes, Fits
  <1>2. /\ UNCHANGED <<picker, category, led>> /\ stored' = Members(q.selected) /\ Ends(n, r)
    BY DEF StoreCategories, Goes
  <1>3. /\ r \in AskedRow /\ r.step = "ok" /\ r.op = q.op /\ r.mine = q.mine
        /\ r.selected = q.selected /\ r.rows = q.rows
    BY <1>1, StepRow
  <1> HIDE DEF r
  <1>4. Fits(r)
    BY <1>1, <1>3 DEF Fits
  <1>5. \E s : Reads(n, s)
    BY <1>1, <1>2, <1>3, <1>4, EndsReads
  <1> QED
    BY <1>2, <1>5 DEF Members

LEMMA ReadsKeeps ==
    ASSUME TableInv, NEW n \in Numbers, NEW r, Reads(n, r), stored' \subseteq Categories
    PROVE  TableInv' /\ Grows /\ Serves(n, r)
  <1>1. /\ asked' = [asked EXCEPT ![n] = r] /\ r \in AskedRow /\ UNCHANGED picker
        /\ UNCHANGED <<category, led>> /\ Fits(r) /\ (MayCreate(r) => MayCreate(asked[n]))
    BY DEF Reads, Serves
  <1>2. picker' \in PickerRow /\ Ids(picker'.shown) \subseteq Existing /\ picker'.chosen \subseteq Existing
    BY <1>1 DEF TableInv, TableTypes, Ids, Shown
  <1>3. TableInv'
    BY <1>1, <1>2, QuietKeeps
  <1> QED
    BY <1>1, <1>3, RowsStay DEF Reads

LEMMA WriteKeeps ==
    ASSUME TableInv, NEW n \in Numbers, NEW r, Serves(n, r), Grows, Fits(r)',
           category' \in [Categories -> CategoryRow], RowsFit', Linked', Budget',
           UNCHANGED stored
    PROVE  TableInv'
  <1> USE DEF Serves
  <1>1. TableTypes'
    BY DEF TableInv, TableTypes
  <1>2. \A m \in Numbers : Fits(asked[m])'
    BY RequestsFit DEF TableInv, TableTypes
  <1>3. Shown' \subseteq Existing' /\ picker'.chosen \subseteq Existing'
    BY DEF TableInv, Shown, Grows
  <1> QED
    BY <1>1, <1>2, <1>3 DEF TableInv

LEMMA RemoveKeeps ==
    ASSUME TableInv, NEW n \in Numbers, RemoveCategory(n)
    PROVE  TableInv' /\ Grows /\ \E r : Serves(n, r)
  <1> DEFINE q == asked[n]
             c == q.id
             record == [category[c] EXCEPT !.deleted = TRUE]
  <1>1. q \in AskedRow /\ Fits(q) /\ q.step = "remove" /\ q.op = "delete" /\ c \in Existing
    BY DEF RemoveCategory, TableInv, TableTypes, Fits
  <1>2. /\ UNCHANGED <<picker, stored, led>> /\ category' = [category EXCEPT ![c] = record]
        /\ Goes(n, "ok")
    BY DEF RemoveCategory, Rest
  <1>3. c \in Categories /\ category[c] \in CategoryRow /\ category[c].there
    BY <1>1 DEF TableInv, TableTypes, Existing
  <1>4. /\ record \in CategoryRow /\ record.there /\ record.deleted /\ record.name = category[c].name
        /\ record.slug = category[c].slug /\ record.renamed = category[c].renamed
        /\ record.seen = category[c].seen
    BY <1>3 DEF CategoryRow
  <1> HIDE DEF record
  <1>5. category' \in [Categories -> CategoryRow]
        /\ \A d \in Categories : category'[d] = IF d = c THEN record ELSE category[d]
    BY <1>2, <1>3, <1>4 DEF TableInv, TableTypes
  <1>6. Existing' = Existing
    BY <1>3, <1>4, <1>5 DEF Existing
  <1>7. Grows
    BY <1>4, <1>5, <1>6 DEF Grows, Existing
  <1>8. \A d \in Categories : /\ category'[d].name = category[d].name /\ category'[d].slug = category[d].slug
                              /\ category'[d].renamed = category[d].renamed
                              /\ category'[d].seen = category[d].seen
                              /\ category[d].deleted => category'[d].deleted
    BY <1>4, <1>5
  <1>9. Linked'
    BY <1>2, <1>6, <1>8 DEF TableInv, Linked, Existing
  <1>10. \A d \in Existing : \A name : Apart(d, name) => Apart(d, name)'
    BY <1>8 DEF Apart, Existing
  <1>11. RowsFit'
    BY <1>6, <1>8, <1>10 DEF TableInv, RowsFit, Existing
  <1> DEFINE p == [q EXCEPT !.step = "ok"]
  <1>12. PICK r0 : r0 = p
    OBVIOUS
  <1>13. /\ r0 \in AskedRow /\ r0.step = "ok" /\ r0.op = q.op /\ r0.mine = q.mine /\ r0.id = q.id
         /\ r0.selected = q.selected /\ r0.rows = q.rows
    BY <1>1, <1>12 DEF AskedRow
  <1>14. Ends(n, r0)
    BY <1>2, <1>12 DEF Goes
  <1>15. PICK r : r = IF r0.mine THEN r0 ELSE Over
    OBVIOUS
  <1>16. Serves(n, r)
    BY <1>1, <1>2, <1>13, <1>14, <1>15, EndsServes
  <1>17. Fits(r0)'
    BY <1>1, <1>6, <1>13 DEF Fits
  <1>18. Fits(r)'
    <2>1. CASE r = r0
      BY <1>17, <2>1
    <2>2. CASE r = Over
      BY <2>2, NotAskedFits DEF Fits, Ids
    <2> QED
      BY <1>15, <2>1, <2>2
  <1>19. r.step \in {"ok", "over"}
    BY <1>13, <1>15, NotAskedFits
  <1>20. Budget'
    <2>1. Pending' \subseteq Pending
      BY <1>16, <1>19 DEF Pending, Serves, TableInv, TableTypes
    <2> QED
      BY <1>6, <2>1, BudgetStays DEF TableInv
  <1> QED
    BY <1>2, <1>5, <1>7, <1>9, <1>11, <1>16, <1>18, <1>20, WriteKeeps

LEMMA UpdateKeeps ==
    ASSUME TableInv, NEW n \in Numbers, UpdateCategory(n)
    PROVE  TableInv' /\ Grows /\ \E r : Serves(n, r)
  <1> DEFINE q == asked[n]
             c == q.id
             renamed == category[c].renamed \/ q.name # category[c].name
             record == [category[c] EXCEPT !.name = q.name, !.slug = q.slug,
                                        !.renamed = category[c].renamed \/ q.name # category[c].name]
  <1>1. /\ q \in AskedRow /\ Fits(q) /\ q.step = "update" /\ q.op = "rename" /\ c \in Existing
        /\ q.name \in Names /\ q.slug \in Slug
    BY DEF UpdateCategory, TableInv, TableTypes, Fits
  <1>2. UNCHANGED <<picker, stored>>
    BY DEF UpdateCategory
  <1>3. c \in Categories /\ category[c] \in CategoryRow /\ category[c].there
    BY <1>1 DEF TableInv, TableTypes, Existing
  <1>4. CASE Taken(q.slug) /\ category[c].slug # q.slug
    <2>1. Goes(n, "failed") /\ UNCHANGED <<category, led>>
      BY <1>4 DEF UpdateCategory
    <2>2. Fits([q EXCEPT !.step = "failed"])
      BY <1>1, StepRow DEF Fits
    <2>3. \E r : Reads(n, r)
      BY <1>1, <1>2, <2>1, <2>2, GoesReads
    <2> QED
      BY <1>2, <2>3, ReadsKeeps DEF TableInv, TableTypes
  <1>5. CASE ~(Taken(q.slug) /\ category[c].slug # q.slug)
    <2> DEFINE p == [q EXCEPT !.step = "ok"]
               rows == {[id |-> c, name |-> q.name]}
    <2>1. /\ category' = [category EXCEPT ![c] = record] /\ led' = led \cup {<<q.slug, c>>}
          /\ Ends(n, [p EXCEPT !.rows = rows])
      <3>1. category' = [category EXCEPT ![c] = record] /\ led' = led \cup {<<q.slug, c>>}
        BY <1>5 DEF UpdateCategory
      <3>2. Ends(n, [q EXCEPT !.step = "ok", !.rows = rows])
        BY <1>5 DEF UpdateCategory
      <3>3. [q EXCEPT !.step = "ok", !.rows = rows] = [p EXCEPT !.rows = rows]
        BY <1>1 DEF AskedRow
      <3> QED
        BY <3>1, <3>2, <3>3
    <2>2. /\ record \in CategoryRow /\ record.there /\ record.name = q.name /\ record.slug = q.slug
          /\ record.renamed = renamed /\ record.deleted = category[c].deleted
          /\ record.seen = category[c].seen
      <3> DEFINE r1 == [category[c] EXCEPT !.name = q.name]
                 r2 == [r1 EXCEPT !.slug = q.slug]
      <3>1. /\ r1 \in CategoryRow /\ r1.there /\ r1.name = q.name /\ r1.deleted = category[c].deleted
            /\ r1.seen = category[c].seen
        BY <1>1, <1>3 DEF CategoryRow
      <3> HIDE DEF r1
      <3>2. /\ r2 \in CategoryRow /\ r2.there /\ r2.name = q.name /\ r2.deleted = category[c].deleted
            /\ r2.seen = category[c].seen /\ r2.slug = q.slug
        BY <1>1, <3>1 DEF CategoryRow
      <3> HIDE DEF r2
      <3>3. record = [r2 EXCEPT !.renamed = renamed]
        BY <1>1, <1>3 DEF r1, r2, CategoryRow
      <3>4. renamed \in BOOLEAN
        BY <1>3 DEF CategoryRow
      <3> HIDE DEF record, renamed
      <3> QED
        BY <3>2, <3>3, <3>4 DEF CategoryRow
    <2>3. ~renamed => q.name = category[c].name /\ q.slug = category[c].slug
      BY <1>1 DEF Fits
    <2> HIDE DEF record
    <2>4. category' \in [Categories -> CategoryRow]
          /\ \A d \in Categories : category'[d] = IF d = c THEN record ELSE category[d]
      BY <1>3, <2>1, <2>2 DEF TableInv, TableTypes
    <2>5. Existing' = Existing
      BY <1>3, <2>2, <2>4 DEF Existing
    <2>6. Grows
      BY <2>2, <2>3, <2>4, <2>5 DEF Grows, Existing
    <2>7. Linked'
      <3> SUFFICES ASSUME NEW l \in led'
                   PROVE  l[2] \in Existing /\ (category'[l[2]].renamed \/ category'[l[2]].slug = l[1])
        BY <2>5 DEF Linked
      <3>1. CASE l \in led
        BY <2>6, <3>1 DEF TableInv, Linked, Grows
      <3>2. CASE l = <<q.slug, c>>
        BY <1>1, <1>3, <2>2, <2>4, <3>2
      <3> QED
        BY <2>1, <3>1, <3>2
    <2>8. \A d, e \in Existing : category'[d].slug = category'[e].slug => d = e
      <3>1. category[c].slug = q.slug \/ \A d \in Existing : category[d].slug # q.slug
        BY <1>5 DEF Taken
      <3>2. \A d \in Existing : d \in Categories
        BY DEF Existing
      <3>3. \A d, e \in Existing : category[d].slug = category[e].slug => d = e
        BY DEF TableInv, RowsFit
      <3> QED
        BY <1>1, <2>2, <2>4, <3>1, <3>2, <3>3
    <2>9. \A d \in Existing : \A name : Apart(d, name) => Apart(d, name)'
      BY <2>6 DEF Apart, Grows
    <2>10. \A d \in Existing : /\ category'[d].name \in Names /\ category'[d].slug \in Slug
                               /\ category'[d].seen = category[d].seen
      BY <1>1, <2>2, <2>4 DEF TableInv, RowsFit, Existing
    <2>11. RowsFit'
      <3>1. \A d \in Existing : /\ category'[d].seen \subseteq Existing
                                /\ \/ category'[d].renamed
                                   \/ \A e \in category'[d].seen : Apart(e, category[d].name)'
        <4> SUFFICES ASSUME NEW d \in Existing
                     PROVE  /\ category'[d].seen \subseteq Existing
                            /\ \/ category'[d].renamed
                               \/ \A e \in category'[d].seen : Apart(e, category[d].name)'
          OBVIOUS
        <4>1. /\ category[d].seen \subseteq Existing
              /\ category[d].renamed \/ \A e \in category[d].seen : Apart(e, category[d].name)
          BY DEF TableInv, RowsFit
        <4>2. category'[d].renamed \/ (category'[d].name = category[d].name /\ ~category[d].renamed)
          BY <2>6 DEF Grows
        <4>3. CASE category'[d].renamed
          BY <2>10, <4>1, <4>3
        <4>4. CASE category'[d].name = category[d].name /\ ~category[d].renamed
          <5>1. PICK name : name = category[d].name
            OBVIOUS
          <5>2. \A e \in category[d].seen : Apart(e, name)'
            BY <2>9, <4>1, <4>4, <5>1
          <5> QED
            BY <2>10, <4>1, <4>4, <5>1, <5>2 DEF Apart
        <4> QED
          BY <4>2, <4>3, <4>4
      <3> QED
        BY <2>5, <2>8, <2>10, <3>1 DEF RowsFit
    <2>12. PICK r0 : r0 = [p EXCEPT !.rows = rows]
      OBVIOUS
    <2>13. rows \in SUBSET Chip /\ Ids(rows) = {c}
      BY <1>1, <1>3 DEF Chip, Ids
    <2>14. p \in AskedRow /\ p.step = "ok" /\ p.op = q.op /\ p.mine = q.mine /\ p.id = q.id
           /\ p.name = q.name /\ p.selected = q.selected
      BY <1>1 DEF AskedRow
    <2>15. PICK chips : chips = rows
      OBVIOUS
    <2> HIDE DEF p, rows
    <2>16. /\ r0 \in AskedRow /\ r0.step = "ok" /\ r0.op = q.op /\ r0.mine = q.mine /\ r0.id = c
           /\ r0.name = q.name /\ r0.selected = q.selected /\ r0.rows = chips
      BY <2>12, <2>13, <2>14, <2>15 DEF AskedRow
    <2>17. PICK r : r = IF r0.mine THEN r0 ELSE Over
      OBVIOUS
    <2>18. Serves(n, r)
      BY <1>1, <1>2, <2>1, <2>12, <2>16, <2>17, EndsServes
    <2>19. Fits(r0)'
      <3>1. \E name \in Names : chips = {[id |-> c, name |-> name]}
        BY <1>1, <2>15 DEF rows
      <3> QED
        BY <1>1, <2>5, <2>13, <2>15, <2>16, <3>1 DEF Fits
    <2>20. Fits(r)'
      <3>1. CASE r = r0
        BY <2>19, <3>1
      <3>2. CASE r = Over
        BY <3>2, NotAskedFits DEF Fits, Ids
      <3> QED
        BY <2>17, <3>1, <3>2
    <2>21. r.step \in {"ok", "over"}
      BY <2>16, <2>17, NotAskedFits
    <2>22. Budget'
      <3>1. Pending' \subseteq Pending
        BY <2>18, <2>21 DEF Pending, Serves, TableInv, TableTypes
      <3> QED
        BY <2>5, <3>1, BudgetStays DEF TableInv
    <2> QED
      BY <1>2, <2>4, <2>6, <2>7, <2>11, <2>18, <2>20, <2>22, WriteKeeps
  <1> QED
    BY <1>4, <1>5

LEMMA InsertKeeps ==
    ASSUME TableInv, NEW n \in Numbers, InsertCategory(n)
    PROVE  TableInv' /\ Grows /\ \E r : Serves(n, r)
  <1> DEFINE q == asked[n]
             k == Cardinality(Existing)
             c == k + 1
             record == NewRow(q.name, q.slug, q.seen)
  <1>1. /\ q \in AskedRow /\ Fits(q) /\ q.step = "insert" /\ q.op = "create"
        /\ q.name \in Names /\ q.slug \in Slug /\ q.seen \subseteq Existing
        /\ \A d \in q.seen : Apart(d, q.name)
    BY DEF InsertCategory, TableInv, TableTypes, Fits
  <1>2. UNCHANGED <<picker, stored>>
    BY DEF InsertCategory
  <1>3. CASE Taken(q.slug)
    <2>1. Goes(n, "failed") /\ UNCHANGED <<category, led>>
      BY <1>3 DEF InsertCategory
    <2>2. Fits([q EXCEPT !.step = "failed"])
      BY <1>1, StepRow DEF Fits
    <2>3. \E r : Reads(n, r)
      BY <1>1, <1>2, <2>1, <2>2, GoesReads
    <2> QED
      BY <1>2, <2>3, ReadsKeeps DEF TableInv, TableTypes
  <1>4. CASE ~Taken(q.slug)
    <2> DEFINE p == [q EXCEPT !.step = "ok"]
               s == [p EXCEPT !.id = c]
               rows == {[id |-> c, name |-> q.name]}
    <2>1. category' = [category EXCEPT ![c] = record] /\ led' = led \cup {<<q.slug, c>>}
      BY <1>4 DEF InsertCategory
    <2>2. Ends(n, [s EXCEPT !.rows = rows])
      <3>1. Ends(n, [q EXCEPT !.step = "ok", !.id = c, !.rows = rows])
        BY <1>4 DEF InsertCategory
      <3>2. [q EXCEPT !.step = "ok", !.id = c, !.rows = rows] = [s EXCEPT !.rows = rows]
        BY <1>1 DEF AskedRow
      <3> QED
        BY <3>1, <3>2
    <2>3. n \in Pending
      BY <1>1 DEF Pending
    <2>4. /\ k \in Nat /\ Existing = 1..k /\ k + Cardinality(Pending) <= MaxRequests
          /\ IsFiniteSet(Pending) /\ Cardinality(Pending) \in Nat /\ Cardinality(Pending) # 0
      BY <2>3, PendingFinite, FS_EmptySet DEF TableInv, Budget
    <2>5. c \in Categories /\ c \notin Existing /\ Existing \cup {c} = 1..c /\ c \in Nat
      BY <2>4, CategoriesAre
    <2>6. /\ record \in CategoryRow /\ record.there /\ record.name = q.name /\ record.slug = q.slug
          /\ ~record.renamed /\ ~record.deleted /\ record.seen = q.seen
      BY <1>1 DEF NewRow, NoRow, CategoryRow, AskedRow
    <2>7. PICK id : id = c
      OBVIOUS
    <2> HIDE DEF record, c
    <2>8. category' \in [Categories -> CategoryRow]
          /\ \A d \in Categories : category'[d] = IF d = id THEN record ELSE category[d]
      BY <2>1, <2>5, <2>6, <2>7 DEF TableInv, TableTypes
    <2>9. Existing' = Existing \cup {id}
      BY <2>5, <2>6, <2>7, <2>8 DEF Existing
    <2>10. \A d \in Existing : d \in Categories /\ d # id /\ category'[d] = category[d]
      BY <2>5, <2>7, <2>8 DEF Existing
    <2>11. Grows
      BY <2>9, <2>10 DEF Grows
    <2>12. Linked'
      <3> SUFFICES ASSUME NEW l \in led'
                   PROVE  l[2] \in Existing' /\ (category'[l[2]].renamed \/ category'[l[2]].slug = l[1])
        BY DEF Linked
      <3>1. CASE l \in led
        BY <2>9, <2>10, <3>1 DEF TableInv, Linked
      <3>2. CASE l = <<q.slug, id>>
        <4>1. l[1] = q.slug /\ l[2] = id
          BY <3>2
        <4> QED
          BY <2>5, <2>6, <2>7, <2>8, <2>9, <4>1
      <3> QED
        BY <2>1, <2>7, <3>1, <3>2
    <2>13. category'[id] = record
      BY <2>5, <2>7, <2>8
    <2>14. RowsFit'
      <3>1. \A d \in Existing' : category'[d].name \in Names /\ category'[d].slug \in Slug
        BY <1>1, <2>6, <2>9, <2>10, <2>13 DEF TableInv, RowsFit
      <3>2. \A d, e \in Existing' : category'[d].slug = category'[e].slug => d = e
        <4>1. \A d \in Existing : category[d].slug # q.slug
          BY <1>4 DEF Taken
        <4>2. \A d, e \in Existing : category[d].slug = category[e].slug => d = e
          BY DEF TableInv, RowsFit
        <4> QED
          BY <2>6, <2>9, <2>10, <2>13, <4>1, <4>2
      <3>3. \A d \in Existing : \A name : Apart(d, name) => Apart(d, name)'
        BY <2>10 DEF Apart
      <3>4. \A d \in Existing' : /\ category'[d].seen \subseteq Existing'
                                 /\ \/ category'[d].renamed
                                    \/ \A e \in category'[d].seen : Apart(e, category[d].name)'
        <4> SUFFICES ASSUME NEW d \in Existing'
                     PROVE  /\ category'[d].seen \subseteq Existing'
                            /\ \/ category'[d].renamed
                               \/ \A e \in category'[d].seen : Apart(e, category[d].name)'
          OBVIOUS
        <4>1. PICK name : name = category'[d].name
          OBVIOUS
        <4>2. CASE d \in Existing
          <5>1. /\ category[d].seen \subseteq Existing
                /\ category[d].renamed \/ \A e \in category[d].seen : Apart(e, name)
            BY <2>10, <4>1, <4>2 DEF TableInv, RowsFit
          <5>2. category'[d].renamed \/ \A e \in category'[d].seen : Apart(e, name)'
            BY <2>10, <3>3, <4>2, <5>1
          <5> QED
            BY <2>9, <2>10, <4>1, <4>2, <5>1, <5>2 DEF Apart
        <4>3. CASE d = id
          <5>1. \A e \in category'[d].seen : Apart(e, name)'
            BY <1>1, <2>6, <2>13, <3>3, <4>1, <4>3
          <5> QED
            BY <1>1, <2>6, <2>9, <2>13, <4>1, <4>3, <5>1 DEF Apart
        <4> QED
          BY <2>9, <4>2, <4>3
      <3> QED
        BY <3>1, <3>2, <3>4 DEF RowsFit
    <2>15. PICK r0 : r0 = [s EXCEPT !.rows = rows]
      OBVIOUS
    <2>16. PICK chips : chips = rows
      OBVIOUS
    <2>17. chips \in SUBSET Chip /\ Ids(chips) = {id}
      BY <1>1, <2>5, <2>7, <2>16 DEF Chip, Ids
    <2>18. p \in AskedRow /\ p.step = "ok" /\ p.op = q.op /\ p.mine = q.mine
           /\ p.name = q.name /\ p.selected = q.selected
      BY <1>1 DEF AskedRow
    <2> HIDE DEF p, rows
    <2>19. s \in AskedRow /\ s.step = "ok" /\ s.op = q.op /\ s.mine = q.mine /\ s.id = id
           /\ s.name = q.name /\ s.selected = q.selected
      BY <2>5, <2>7, <2>18 DEF AskedRow
    <2> HIDE DEF s
    <2>20. /\ r0 \in AskedRow /\ r0.step = "ok" /\ r0.op = q.op /\ r0.mine = q.mine /\ r0.id = id
           /\ r0.name = q.name /\ r0.selected = q.selected /\ r0.rows = chips
      BY <2>15, <2>16, <2>17, <2>19 DEF AskedRow
    <2>21. PICK r : r = IF r0.mine THEN r0 ELSE Over
      OBVIOUS
    <2>22. Serves(n, r)
      BY <1>1, <1>2, <2>2, <2>15, <2>20, <2>21, EndsServes
    <2>23. Fits(r0)'
      <3>1. \E name \in Names : chips = {[id |-> id, name |-> name]}
        BY <1>1, <2>7, <2>16 DEF rows
      <3> QED
        BY <1>1, <2>9, <2>17, <2>20, <3>1 DEF Fits
    <2>24. Fits(r)'
      <3>1. CASE r = r0
        BY <2>23, <3>1
      <3>2. CASE r = Over
        BY <3>2, NotAskedFits DEF Fits, Ids
      <3> QED
        BY <2>21, <3>1, <3>2
    <2>25. r.step \in {"ok", "over"}
      BY <2>20, <2>21, NotAskedFits
    <2>26. Budget'
      <3>1. Pending' = Pending \ {n}
        BY <2>22, <2>25 DEF Pending, Serves, TableInv, TableTypes
      <3>2. Cardinality(Pending \ {n}) = Cardinality(Pending) - 1
        BY <2>3, <2>4, FS_RemoveElement
      <3>3. Existing' = 1..id /\ id \in Nat /\ id = k + 1
        BY <2>5, <2>7, <2>9 DEF c
      <3>4. Cardinality(1..id) = id - 1 + 1
        BY <2>4, <3>3, FS_Interval
      <3>5. Cardinality(Existing') = id
        BY <3>3, <3>4
      <3>6. MaxRequests \in Nat
        BY CategoriesAre
      <3> QED
        BY <2>4, <3>1, <3>2, <3>3, <3>5, <3>6 DEF Budget
    <2> QED
      BY <1>2, <2>8, <2>11, <2>12, <2>14, <2>22, <2>24, <2>26, WriteKeeps
  <1> QED
    BY <1>3, <1>4

LEMMA ServeKeeps ==
    ASSUME TableInv, NEW n \in Numbers, Serve(n)
    PROVE  TableInv' /\ Grows /\ \E r : Serves(n, r)
  <1>1. CASE AnswerList(n) \/ FindName(n) \/ LoadCategory(n) \/ TryCandidate(n) \/ CheckCategories(n)
    <2>1. \E r : Reads(n, r)
      BY <1>1, AnswerListReads, FindNameReads, LoadReads, TryReads, CheckReads
    <2>2. stored' = stored
      BY <1>1 DEF AnswerList, FindName, LoadCategory, TryCandidate, CheckCategories, Rest
    <2> QED
      BY <2>1, <2>2, ReadsKeeps DEF TableInv, TableTypes
  <1>2. CASE StoreCategories(n)
    BY <1>2, StoreReads, ReadsKeeps
  <1>3. CASE InsertCategory(n) \/ UpdateCategory(n) \/ RemoveCategory(n)
    BY <1>3, InsertKeeps, UpdateKeeps, RemoveKeeps
  <1> QED
    BY <1>1, <1>2, <1>3 DEF Serve

\* The server answers what the page asked for.
LEMMA ServesChoice ==
    ASSUME TableInv, TableInv', ChoiceInv, Grows, NEW n \in Numbers, NEW r, Serves(n, r)
    PROVE  ChoiceInv'
  <1> SUFFICES ASSUME ~picker.hurried PROVE ChoiceInv'
    BY DEF ChoiceInv, Serves
  <1> DEFINE q == asked[n]
  <1>1. \A m \in Numbers : asked'[m] = IF m = n THEN r ELSE asked[m]
    BY DEF Serves, TableInv, TableTypes
  <1>2. Waiting' = Waiting
    BY <1>1 DEF Serves, Waiting
  <1>3. \A m \in Waiting : asked'[m].op = asked[m].op /\ asked'[m].selected = asked[m].selected
    BY <1>1 DEF Serves, Waiting
  <1>4. picker' = picker
    BY DEF Serves
  <1>5. picker.chosen \cap Kept' \subseteq Kept
    BY DEF TableInv, Kept, Grows
  <1>6. Shown' = Shown /\ Members(picker.selected)' = Members(picker.selected)
    BY <1>4 DEF Shown, Members
  <1>7. CASE n \in Waiting
    <2>1. \A m \in Waiting : m = n
      BY <1>7 DEF ChoiceInv
    <2>2. q.op # "list" => q.selected = picker.selected
      BY <1>7 DEF ChoiceInv, Agrees
    <2>3. q.op \in {"create", "delete"} => ~picker.saved
      BY <1>7 DEF ChoiceInv, Agrees
    <2>4. r.op = q.op /\ r.selected = q.selected
      BY <1>7 DEF Waiting, Serves
    <2>5. stored' = stored \/ stored' = picker.chosen
      BY <2>2, <2>4 DEF ChoiceInv, Serves
    <2>6. Agrees(r)'
      BY <1>4, <2>2, <2>3, <2>4 DEF Agrees, Serves, ChoiceInv
    <2> QED
      BY <1>1, <1>2, <1>3, <1>4, <1>5, <1>6, <1>7, <2>1, <2>5, <2>6 DEF ChoiceInv, Agrees
  <1>8. CASE n \notin Waiting
    <2>1. ~q.mine
      BY <1>8 DEF Serves, Waiting
    <2>2. asked'[n].op = "save" => asked'[n].mine
      BY DEF TableInv, Fits
    <2>3. r.op # "save"
      BY <1>1, <2>1, <2>2 DEF Serves
    <2> QED
      BY <1>1, <1>2, <1>3, <1>4, <1>5, <1>6, <1>8, <2>3 DEF ChoiceInv, Agrees, Serves
  <1> QED
    BY <1>7, <1>8

-----------------------------------------------------------------------------

\* What Send sends.
Sendable == {"create", "rename", "delete", "save"}

\* What a sent request is, and where.
IsSent(n, r, op, mine) ==
    /\ asked[n].step = "unused" /\ asked' = [asked EXCEPT ![n] = r]
    /\ r \in AskedRow /\ r.op = op /\ r.mine = mine /\ r.step \in {"find", "load", "check"}
    /\ mine => r.selected = picker.selected

LEMMA SendKeeps ==
    ASSUME TableInv, NEW op \in Sendable, NEW mine \in BOOLEAN, NEW id \in Categories \cup {0},
           NEW name \in Names \cup {""}, Send(op, mine, id, name),
           op \in {"rename", "delete"} => id \in Existing,
           op \in {"create", "rename"} => name \in Names, op = "save" => mine,
           picker' \in PickerRow, Ids(picker'.shown) \subseteq Existing,
           picker'.chosen \subseteq Existing
    PROVE  TableInv' /\ \E n \in Numbers : \E r : IsSent(n, r, op, mine)
  <1>1. PICK n \in Numbers :
          /\ asked[n].step = "unused"
          /\ asked' = [asked EXCEPT ![n] = [@ EXCEPT !.step = Start[op], !.op = op, !.mine = mine,
                         !.id = id, !.name = name,
                         !.selected = IF mine THEN picker.selected ELSE Nothing]]
          /\ UNCHANGED <<category, stored, led>>
    BY DEF Send
  <1>2. PICK q, step, ids :
          /\ q = asked[n] /\ step = Start[op] /\ ids = IF mine THEN picker.selected ELSE Nothing
    OBVIOUS
  <1>3. q \in AskedRow /\ Ids(q.rows) \subseteq Existing /\ ids \in [Categories -> Nat]
    BY <1>2, NothingIs DEF TableInv, TableTypes, Fits, PickerRow
  <1>4. /\ op = "create" => step = "find"
        /\ op \in {"rename", "delete"} => step = "load"
        /\ op = "save" => step = "check"
    <2>1. Start["create"] = "find" /\ Start["rename"] = "load" /\ Start["delete"] = "load"
          /\ Start["save"] = "check"
      BY DEF Start
    <2> QED
      BY <1>2, <2>1
  <1> DEFINE r1 == [q EXCEPT !.step = step]
             r2 == [r1 EXCEPT !.op = op]
             r3 == [r2 EXCEPT !.mine = mine]
             r4 == [r3 EXCEPT !.id = id]
             r5 == [r4 EXCEPT !.name = name]
             r6 == [r5 EXCEPT !.selected = ids]
  <1>5. asked' = [asked EXCEPT ![n] = r6]
    BY <1>1, <1>2
  <1>6. r1 \in AskedRow /\ r1.step = step /\ r1.rows = q.rows
    BY <1>3, <1>4 DEF AskedRow, Sendable
  <1> HIDE DEF r1
  <1>7. r2 \in AskedRow /\ r2.step = step /\ r2.rows = q.rows /\ r2.op = op
    <2>1. CASE op = "create"
      BY <1>6, <2>1 DEF AskedRow
    <2>2. CASE op = "rename"
      BY <1>6, <2>2 DEF AskedRow
    <2>3. CASE op = "delete"
      BY <1>6, <2>3 DEF AskedRow
    <2>4. CASE op = "save"
      BY <1>6, <2>4 DEF AskedRow
    <2> QED
      BY <2>1, <2>2, <2>3, <2>4 DEF Sendable
  <1> HIDE DEF r2
  <1>8. r3 \in AskedRow /\ r3.step = step /\ r3.rows = q.rows /\ r3.op = op /\ r3.mine = mine
    BY <1>7 DEF AskedRow
  <1> HIDE DEF r3
  <1>9. /\ r4 \in AskedRow /\ r4.step = step /\ r4.rows = q.rows /\ r4.op = op /\ r4.mine = mine
        /\ r4.id = id
    BY <1>8 DEF AskedRow
  <1> HIDE DEF r4
  <1>10. /\ r5 \in AskedRow /\ r5.step = step /\ r5.rows = q.rows /\ r5.op = op /\ r5.mine = mine
         /\ r5.id = id /\ r5.name = name
    BY <1>9 DEF AskedRow
  <1> HIDE DEF r5
  <1>11. /\ r6 \in AskedRow /\ r6.step = step /\ r6.rows = q.rows /\ r6.op = op /\ r6.mine = mine
         /\ r6.id = id /\ r6.name = name /\ r6.selected = ids
    BY <1>3, <1>10, ZenonT(60) DEF AskedRow
  <1> HIDE DEF r6
  <1>12. PICK r : r = r6
    OBVIOUS
  <1>13. Fits(r)
    <2>1. Ids(r.rows) \subseteq Existing
      BY <1>3, <1>11, <1>12
    <2> QED
      BY <1>4, <1>11, <1>12, <2>1 DEF Fits, Sendable
  <1>14. TableInv'
    <2>1. stored' \subseteq Categories /\ MayCreate(asked[n])
      BY <1>1 DEF TableInv, TableTypes, MayCreate
    <2> QED
      BY <1>1, <1>5, <1>11, <1>12, <1>13, <2>1, QuietKeeps
  <1>15. IsSent(n, r, op, mine)
    BY <1>1, <1>2, <1>4, <1>5, <1>11, <1>12 DEF IsSent, Sendable
  <1> QED
    BY <1>14, <1>15

\* The creator sends a request, and has waited for the answers before it.
LEMMA SendChoice ==
    ASSUME TableInv, ChoiceInv, NEW op \in Sendable, NEW n \in Numbers, NEW r,
           IsSent(n, r, op, TRUE), NEW p \in PickerRow, Click(p), p.selected = picker.selected,
           p.chosen = picker.chosen, p.shown = picker.shown, p.hurried = picker.hurried,
           p.saved => picker.saved, op \in {"create", "delete"} => ~p.saved,
           UNCHANGED <<category, stored>>
    PROVE  ChoiceInv'
  <1>1. /\ picker'.selected = p.selected /\ picker'.chosen = p.chosen /\ picker'.shown = p.shown
        /\ picker'.saved = p.saved /\ picker'.hurried = (p.hurried \/ Waiting # {})
    BY DEF Click, PickerRow
  <1> SUFFICES ASSUME ~picker'.hurried PROVE ChoiceInv'
    BY DEF ChoiceInv
  <1>2. Waiting = {} /\ ~picker.hurried
    BY <1>1
  <1>3. \A m \in Numbers : asked'[m] = IF m = n THEN r ELSE asked[m]
    BY DEF IsSent, TableInv, TableTypes
  <1>4. Waiting' = {n}
    BY <1>2, <1>3 DEF Waiting, IsSent
  <1>5. Members(picker'.selected) = picker'.chosen /\ picker'.chosen \cap Kept' \subseteq Shown'
        /\ (picker'.saved => stored' = picker'.chosen)
    BY <1>1, <1>2 DEF ChoiceInv, Kept, Existing, Shown
  <1>6. Agrees(r)'
    BY <1>1 DEF Agrees, IsSent, Sendable
  <1>7. \A m \in Waiting' : asked'[m] = r
    BY <1>3, <1>4
  <1> QED
    BY <1>4, <1>5, <1>6, <1>7 DEF ChoiceInv, Agrees, Members

\* A step that sends nothing and gets no answer.
LEMMA IdleKeeps ==
    ASSUME TableInv, UNCHANGED <<category, asked, stored, led>>, picker' \in PickerRow,
           Ids(picker'.shown) \subseteq Existing, picker'.chosen \subseteq Existing
    PROVE  TableInv'
  <1>1. PICK r : r = asked[1]
    OBVIOUS
  <1>2. 1 \in Numbers /\ r \in AskedRow /\ Fits(r) /\ asked' = [asked EXCEPT ![1] = r]
    BY <1>1, CategoriesAre DEF TableInv, TableTypes
  <1> QED
    BY <1>1, <1>2, QuietKeeps DEF TableInv, TableTypes

LEMMA ToggleKeeps ==
    ASSUME TableInv, ChoiceInv, NEW c \in Categories, Toggle(c)
    PROVE  TableInv' /\ ChoiceInv'
  <1> DEFINE on == c \in Members(picker.selected)
             p1 == [picker EXCEPT !.saved = FALSE]
             ids == [picker.selected EXCEPT ![c] = IF on THEN 0 ELSE 1]
             p2 == [p1 EXCEPT !.selected = ids]
             cs == IF on THEN picker.chosen \ {c} ELSE picker.chosen \cup {c}
             p3 == [p2 EXCEPT !.chosen = cs]
             waited == picker.hurried \/ Waiting # {}
  <1>1. /\ c \in Shown /\ UNCHANGED <<category, asked, stored, led>>
        /\ picker \in PickerRow /\ Shown \subseteq Existing /\ picker.chosen \subseteq Existing
    BY DEF Toggle, TableInv, TableTypes
  <1>2. picker' = [p3 EXCEPT !.hurried = waited]
    BY <1>1 DEF Toggle, Click, PickerRow
  <1>3. ids \in [Categories -> Nat] /\ cs \subseteq Categories /\ cs \subseteq Existing
        /\ waited \in BOOLEAN
    BY <1>1 DEF PickerRow
  <1>4. /\ picker.selected \in [Categories -> Nat]
        /\ \A d \in Categories : ids[d] = IF d = c THEN (IF on THEN 0 ELSE 1) ELSE picker.selected[d]
    BY <1>1 DEF PickerRow
  <1>5. Members(ids) = IF on THEN Members(picker.selected) \ {c} ELSE Members(picker.selected) \cup {c}
    BY <1>4 DEF Members
  <1>6. p1 \in PickerRow /\ p1.shown = picker.shown /\ ~p1.saved
    BY <1>1 DEF PickerRow
  <1> HIDE DEF p1, ids, cs, waited, on
  <1>7. p2 \in PickerRow /\ p2.shown = picker.shown /\ ~p2.saved /\ p2.selected = ids
    BY <1>3, <1>6 DEF PickerRow
  <1> HIDE DEF p2
  <1>8. /\ p3 \in PickerRow /\ p3.shown = picker.shown /\ ~p3.saved /\ p3.selected = ids
        /\ p3.chosen = cs
    BY <1>3, <1>7 DEF PickerRow
  <1> HIDE DEF p3
  <1>9. /\ picker' \in PickerRow /\ picker'.shown = picker.shown /\ ~picker'.saved
        /\ picker'.selected = ids /\ picker'.chosen = cs /\ picker'.hurried = waited
    BY <1>2, <1>3, <1>8 DEF PickerRow
  <1>10. TableInv'
    <2>1. Ids(picker'.shown) \subseteq Existing
      BY <1>1, <1>9 DEF Shown, Ids
    <2> QED
      BY <1>1, <1>3, <1>9, <2>1, IdleKeeps
  <1>11. ChoiceInv'
    <2> SUFFICES ASSUME ~picker'.hurried PROVE ChoiceInv'
      BY DEF ChoiceInv
    <2>1. Waiting = {} /\ ~picker.hurried
      BY <1>9 DEF waited
    <2>2. Waiting' = {} /\ Kept' = Kept /\ Shown' = Shown
      BY <1>1, <1>9, <2>1 DEF Waiting, Kept, Existing, Shown
    <2>3. Members(picker.selected) = picker.chosen /\ picker.chosen \cap Kept \subseteq Shown
      BY <2>1 DEF ChoiceInv
    <2>4. cs = Members(ids)
      BY <1>5, <2>3 DEF cs
    <2>5. Members(picker'.selected) = picker'.chosen
      BY <1>9, <2>4
    <2>6. cs \cap Kept \subseteq Shown
      BY <1>1, <2>3 DEF cs
    <2> QED
      BY <1>9, <2>2, <2>5, <2>6 DEF ChoiceInv, Members
  <1> QED
    BY <1>10, <1>11

\* The creator asks for something; p is the picker before it is noted that it did not wait.
LEMMA AskKeeps ==
    ASSUME TableInv, ChoiceInv, NEW op \in Sendable, NEW id \in Categories \cup {0},
           NEW name \in Names \cup {""}, Send(op, TRUE, id, name),
           op \in {"rename", "delete"} => id \in Existing,
           op \in {"create", "rename"} => name \in Names,
           NEW p \in PickerRow, Click(p), p.selected = picker.selected,
           p.chosen = picker.chosen, p.shown = picker.shown, p.hurried = picker.hurried,
           p.saved => picker.saved, op \in {"create", "delete"} => ~p.saved
    PROVE  TableInv' /\ ChoiceInv'
  <1>1. picker' \in PickerRow /\ picker'.shown = p.shown /\ picker'.chosen = p.chosen
    BY DEF Click, PickerRow
  <1>2. Ids(picker'.shown) \subseteq Existing /\ picker'.chosen \subseteq Existing
    BY <1>1 DEF TableInv, Shown, Ids
  <1>3. TableInv' /\ \E n \in Numbers : \E r : IsSent(n, r, op, TRUE)
    BY <1>1, <1>2, SendKeeps
  <1>4. UNCHANGED <<category, stored>>
    BY DEF Send
  <1> QED
    BY <1>3, <1>4, SendChoice

LEMMA AskingKeeps ==
    ASSUME TableInv, ChoiceInv,
           \/ \E c \in Categories : ClickRemove(c) \/ \E name \in Names : EditName(c, name)
           \/ \E name \in Names : TypeName(name)
           \/ SubmitForm
    PROVE  TableInv' /\ ChoiceInv'
  <1>0. picker \in PickerRow /\ Shown \subseteq Existing /\ Existing \subseteq Categories
    BY DEF TableInv, TableTypes, Existing
  <1>1. ASSUME NEW c \in Categories, ClickRemove(c) PROVE TableInv' /\ ChoiceInv'
    <2> DEFINE p1 == [picker EXCEPT !.busy = c]
               p == [p1 EXCEPT !.saved = FALSE]
    <2>1. Send("delete", TRUE, c, "") /\ Click(p) /\ c \in Existing
      BY <1>0, <1>1 DEF ClickRemove, PickerRow
    <2>2. /\ p \in PickerRow /\ p.selected = picker.selected /\ p.chosen = picker.chosen
          /\ p.shown = picker.shown /\ p.hurried = picker.hurried /\ ~p.saved
      BY <1>0 DEF PickerRow
    <2> HIDE DEF p
    <2> QED
      BY <2>1, <2>2, AskKeeps DEF Sendable
  <1>2. ASSUME NEW c \in Categories, NEW name \in Names, EditName(c, name)
        PROVE  TableInv' /\ ChoiceInv'
    <2> DEFINE p == [picker EXCEPT !.busy = c]
    <2>1. Send("rename", TRUE, c, name) /\ Click(p) /\ c \in Existing
      BY <1>0, <1>2 DEF EditName
    <2>2. /\ p \in PickerRow /\ p.selected = picker.selected /\ p.chosen = picker.chosen
          /\ p.shown = picker.shown /\ p.hurried = picker.hurried /\ p.saved = picker.saved
      BY <1>0 DEF PickerRow
    <2> HIDE DEF p
    <2> QED
      BY <2>1, <2>2, AskKeeps DEF Sendable
  <1>3. ASSUME NEW name \in Names, TypeName(name) PROVE TableInv' /\ ChoiceInv'
    <2> DEFINE p == [picker EXCEPT !.saved = FALSE]
    <2>1. Send("create", TRUE, 0, name) /\ Click(p)
      BY <1>3 DEF TypeName
    <2>2. /\ p \in PickerRow /\ p.selected = picker.selected /\ p.chosen = picker.chosen
          /\ p.shown = picker.shown /\ p.hurried = picker.hurried /\ ~p.saved
      BY <1>0 DEF PickerRow
    <2> HIDE DEF p
    <2> QED
      BY <2>1, <2>2, AskKeeps DEF Sendable
  <1>4. ASSUME SubmitForm PROVE TableInv' /\ ChoiceInv'
    <2>1. Send("save", TRUE, 0, "") /\ Click(picker)
      BY <1>4 DEF SubmitForm
    <2> QED
      BY <1>0, <2>1, AskKeeps DEF Sendable
  <1> QED
    BY <1>1, <1>2, <1>3, <1>4

LEMMA ElsewhereKeeps ==
    ASSUME TableInv, ChoiceInv, Elsewhere
    PROVE  TableInv' /\ ChoiceInv'
  <1>1. picker \in PickerRow /\ UNCHANGED picker /\ Ids(picker.shown) \subseteq Existing
        /\ picker.chosen \subseteq Existing /\ Kept \subseteq Existing /\ Existing \subseteq Categories
    BY DEF Elsewhere, TableInv, TableTypes, Shown, Ids, Kept, Existing
  <1>2. ASSUME NEW op \in Sendable, NEW n \in Numbers, NEW r, IsSent(n, r, op, FALSE),
               UNCHANGED <<category, stored>>
        PROVE  ChoiceInv'
    <2>1. \A m \in Numbers : asked'[m] = IF m = n THEN r ELSE asked[m]
      BY <1>2 DEF IsSent, TableInv, TableTypes
    <2>2. Waiting' = Waiting /\ n \notin Waiting
      BY <1>2, <2>1 DEF Waiting, IsSent
    <2>3. \A m \in Waiting : asked'[m] = asked[m]
      BY <2>1, <2>2 DEF Waiting
    <2> QED
      BY <1>1, <1>2, <2>2, <2>3 DEF ChoiceInv, Agrees, Members, Kept, Existing, Shown
  <1>3. ASSUME NEW op \in Sendable, NEW id \in Categories \cup {0}, NEW name \in Names \cup {""},
               Send(op, FALSE, id, name), op \in {"rename", "delete"} => id \in Existing,
               op \in {"create", "rename"} => name \in Names, op # "save"
        PROVE  TableInv' /\ ChoiceInv'
    <2>1. TableInv' /\ \E n \in Numbers : \E r : IsSent(n, r, op, FALSE)
      BY <1>1, <1>3, SendKeeps
    <2>2. UNCHANGED <<category, stored>>
      BY <1>3 DEF Send
    <2> QED
      BY <1>2, <2>1, <2>2
  <1>4. ASSUME NEW name \in Names, Send("create", FALSE, 0, name) PROVE TableInv' /\ ChoiceInv'
    BY <1>3, <1>4 DEF Sendable
  <1>5. ASSUME NEW c \in Kept, Send("delete", FALSE, c, "") PROVE TableInv' /\ ChoiceInv'
    BY <1>1, <1>3, <1>5 DEF Sendable
  <1>6. ASSUME NEW c \in Kept, NEW name \in Names, Send("rename", FALSE, c, name)
        PROVE  TableInv' /\ ChoiceInv'
    BY <1>1, <1>3, <1>6 DEF Sendable
  <1> QED
    BY <1>4, <1>5, <1>6 DEF Elsewhere

LEMMA LeaveKeeps ==
    ASSUME TableInv, ChoiceInv, Leave
    PROVE  TableInv' /\ ChoiceInv'
  <1>1. /\ Waiting = {} /\ UNCHANGED <<category, asked, stored, led>> /\ picker \in PickerRow
    BY DEF Leave, TableInv, TableTypes
  <1> DEFINE p1 == [picker EXCEPT !.shown = {}]
             p2 == [p1 EXCEPT !.selected = Nothing]
             p3 == [p2 EXCEPT !.chosen = {}]
             p4 == [[[[p3 EXCEPT !.hurried = FALSE] EXCEPT !.saved = FALSE] EXCEPT !.busy = 0] EXCEPT !.open = FALSE]
  <1>2. picker' = p4
    BY DEF Leave
  <1>3. p1 \in PickerRow /\ p1.shown = {}
    BY <1>1 DEF PickerRow
  <1> HIDE DEF p1
  <1>4. p2 \in PickerRow /\ p2.shown = {} /\ p2.selected = Nothing
    BY <1>3, NothingIs DEF PickerRow
  <1> HIDE DEF p2
  <1>5. p3 \in PickerRow /\ p3.shown = {} /\ p3.selected = Nothing /\ p3.chosen = {}
    BY <1>4 DEF PickerRow
  <1> HIDE DEF p3
  <1>6. /\ p4 \in PickerRow /\ p4.shown = {} /\ p4.selected = Nothing /\ p4.chosen = {} /\ ~p4.saved
    BY <1>5 DEF PickerRow
  <1> HIDE DEF p4
  <1>7. TableInv'
    BY <1>1, <1>2, <1>6, IdleKeeps DEF Ids
  <1>8. Waiting' = {}
    BY <1>1 DEF Waiting
  <1>9. Members(picker'.selected) = {}
    BY <1>2, <1>6, NothingIs
  <1> QED
    BY <1>2, <1>6, <1>7, <1>8, <1>9 DEF ChoiceInv, Members

\* An answer that the creator waited for changes the picker as it should.
Settles(p) ==
    /\ p \in PickerRow /\ Ids(p.shown) \subseteq Existing /\ p.chosen \subseteq Existing
    /\ p.hurried = picker.hurried
    /\ ~picker.hurried =>
          /\ Members(p.selected) = p.chosen
          /\ p.chosen \cap Kept \subseteq Ids(p.shown)
          /\ p.saved => stored = p.chosen

\* What holds of the picker and of the one request it waits for.
Expects(q) ==
    /\ Members(picker.selected) = picker.chosen
    /\ picker.saved => stored = picker.chosen
    /\ q.op # "list" => picker.chosen \cap Kept \subseteq Shown
    /\ Agrees(q)

LEMMA AnswerKeeps ==
    ASSUME TableInv, ChoiceInv, NEW n \in Numbers,
           asked' = [asked EXCEPT ![n] = [NotAsked EXCEPT !.step = "over"]],
           UNCHANGED <<category, stored, led>>, Settles(picker'), asked[n].mine,
           asked[n].step \in {"ok", "failed"}
    PROVE  TableInv' /\ ChoiceInv'
  <1>1. asked' = [asked EXCEPT ![n] = Over]
    BY DEF Over
  <1>2. TableInv'
    <2>1. Over \in AskedRow /\ Fits(Over) /\ ~MayCreate(Over)
      BY NotAskedFits DEF MayCreate
    <2> QED
      BY <1>1, <2>1, QuietKeeps DEF Settles, TableInv, TableTypes
  <1>3. ChoiceInv'
    <2> SUFFICES ASSUME ~picker'.hurried PROVE ChoiceInv'
      BY DEF ChoiceInv
    <2>1. \A m \in Numbers : asked'[m] = IF m = n THEN Over ELSE asked[m]
      BY <1>1 DEF TableInv, TableTypes
    <2>2. n \in Waiting /\ \A m \in Waiting : m = n
      BY DEF Waiting, ChoiceInv, Settles
    <2>3. Waiting' = {}
      <3>1. ~Over.mine
        BY NotAskedFits
      <3> QED
        BY <2>1, <2>2, <3>1 DEF Waiting
    <2>4. Kept' = Kept /\ Shown' = Ids(picker'.shown)
      BY DEF Kept, Existing, Shown, Ids
    <2> QED
      BY <2>3, <2>4 DEF ChoiceInv, Settles, Members
  <1> QED
    BY <1>2, <1>3

LEMMA TakeAnswerKeeps ==
    ASSUME TableInv, ChoiceInv, NEW n \in Numbers, TakeAnswer(n)
    PROVE  TableInv' /\ ChoiceInv'
  <1>1. PICK q : q = asked[n]
    OBVIOUS
  <1>2. /\ q \in AskedRow /\ Fits(q) /\ q.mine /\ q.step \in {"ok", "failed"}
        /\ picker \in PickerRow /\ Ids(picker.shown) \subseteq Existing
        /\ picker.chosen \subseteq Existing /\ Existing \subseteq Categories /\ Shown = Ids(picker.shown)
    BY <1>1 DEF TakeAnswer, TableInv, TableTypes, Shown, Ids, Existing
  <1>3. ~picker.hurried => Expects(q)
    <2>1. n \in Waiting
      BY <1>1, <1>2 DEF Waiting
    <2>2. ASSUME ~picker.hurried PROVE \A m \in Waiting : m = n
      BY <2>1, <2>2 DEF ChoiceInv
    <2> QED
      BY <1>1, <2>1, <2>2 DEF ChoiceInv, Expects
  <1>4. CASE q.step = "failed"
    <2> DEFINE busy == IF q.op \in {"rename", "delete"} THEN 0 ELSE picker.busy
    <2>1. picker' = [picker EXCEPT !.busy = busy]
      BY <1>1, <1>4 DEF TakeAnswer
    <2>2. busy \in Categories \cup {0}
      BY <1>2 DEF PickerRow
    <2> HIDE DEF busy
    <2>3. /\ picker' \in PickerRow /\ picker'.shown = picker.shown /\ picker'.chosen = picker.chosen
          /\ picker'.selected = picker.selected /\ picker'.saved = picker.saved
          /\ picker'.hurried = picker.hurried
      BY <1>2, <2>1, <2>2 DEF PickerRow
    <2>4. q.op # "list"
      BY <1>2, <1>4 DEF Fits
    <2>5. Settles(picker')
      BY <1>2, <1>3, <2>3, <2>4 DEF Settles, Expects
    <2> QED
      BY <1>1, <1>2, <2>5, AnswerKeeps DEF TakeAnswer
  <1>5. CASE q.step = "ok" /\ q.op = "list"
    <2>1. picker' = [picker EXCEPT !.shown = q.rows]
      BY <1>1, <1>5 DEF TakeAnswer
    <2>2. q.rows \in SUBSET Chip /\ Ids(q.rows) \subseteq Existing
      BY <1>2 DEF AskedRow, Fits
    <2>3. /\ picker' \in PickerRow /\ picker'.shown = q.rows /\ picker'.chosen = picker.chosen
          /\ picker'.selected = picker.selected /\ picker'.saved = picker.saved
          /\ picker'.hurried = picker.hurried
      BY <1>2, <2>1, <2>2 DEF PickerRow
    <2>4. Settles(picker')
      BY <1>2, <1>3, <1>5, <2>2, <2>3 DEF Settles, Expects, Agrees
    <2> QED
      BY <1>1, <1>2, <2>4, AnswerKeeps DEF TakeAnswer
  <1>6. CASE q.step = "ok" /\ q.op = "save"
    <2>1. picker' = [picker EXCEPT !.saved = TRUE]
      BY <1>1, <1>6 DEF TakeAnswer
    <2>2. /\ picker' \in PickerRow /\ picker'.shown = picker.shown /\ picker'.chosen = picker.chosen
          /\ picker'.selected = picker.selected /\ picker'.hurried = picker.hurried
      BY <1>2, <2>1 DEF PickerRow
    <2>3. Settles(picker')
      BY <1>2, <1>3, <1>6, <2>2 DEF Settles, Expects, Agrees
    <2> QED
      BY <1>1, <1>2, <2>3, AnswerKeeps DEF TakeAnswer
  <1>7. CASE q.step = "ok" /\ q.op = "create"
    <2> DEFINE chips == IF q.id \in Shown THEN picker.shown ELSE picker.shown \cup q.rows
               ids == [q.selected EXCEPT ![q.id] = q.selected[q.id] + 1]
               p1 == [picker EXCEPT !.shown = chips]
               p2 == [p1 EXCEPT !.selected = ids]
    <2>1. picker' = [p2 EXCEPT !.chosen = picker.chosen \cup {q.id}]
      BY <1>1, <1>2, <1>7 DEF TakeAnswer, TakeCreated, PickerRow
    <2>2. /\ q.id \in Existing /\ q.selected \in [Categories -> Nat] /\ q.rows \in SUBSET Chip
          /\ Ids(q.rows) = {q.id}
      <3>1. q.id \in Existing /\ \E name \in Names : q.rows = {[id |-> q.id, name |-> name]}
        BY <1>2, <1>7 DEF Fits
      <3>2. PICK name \in Names : q.rows = {[id |-> q.id, name |-> name]}
        BY <3>1
      <3>3. Ids(q.rows) = {q.id}
        BY <3>2 DEF Ids
      <3> QED
        BY <1>2, <3>1, <3>3 DEF AskedRow
    <2>3. chips \in SUBSET Chip /\ Ids(chips) = Ids(picker.shown) \cup {q.id}
      <3>1. Ids(picker.shown \cup q.rows) = Ids(picker.shown) \cup Ids(q.rows)
        BY DEF Ids
      <3> QED
        BY <1>2, <2>2, <3>1 DEF PickerRow
    <2>4. ids \in [Categories -> Nat] /\ Members(ids) = Members(q.selected) \cup {q.id}
      BY <1>2, <2>2 DEF Members
    <2> HIDE DEF chips, ids
    <2>5. /\ p1 \in PickerRow /\ p1.shown = chips /\ p1.chosen = picker.chosen
          /\ p1.saved = picker.saved /\ p1.hurried = picker.hurried
      BY <1>2, <2>3 DEF PickerRow
    <2> HIDE DEF p1
    <2>6. /\ p2 \in PickerRow /\ p2.shown = chips /\ p2.selected = ids
          /\ p2.saved = picker.saved /\ p2.hurried = picker.hurried
      BY <2>4, <2>5 DEF PickerRow
    <2> HIDE DEF p2
    <2>7. /\ picker' \in PickerRow /\ picker'.shown = chips /\ picker'.chosen = picker.chosen \cup {q.id}
          /\ picker'.selected = ids /\ picker'.saved = picker.saved
          /\ picker'.hurried = picker.hurried
      BY <1>2, <2>1, <2>2, <2>6 DEF PickerRow
    <2>8. Settles(picker')
      BY <1>2, <1>3, <1>7, <2>2, <2>3, <2>4, <2>7 DEF Settles, Expects, Agrees
    <2> QED
      BY <1>1, <1>2, <2>8, AnswerKeeps DEF TakeAnswer
  <1>8. CASE q.step = "ok" /\ q.op = "rename"
    <2> DEFINE chips == {IF s.id = q.id THEN CHOOSE r \in q.rows : TRUE ELSE s : s \in picker.shown}
               p1 == [picker EXCEPT !.shown = chips]
    <2>1. picker' = [p1 EXCEPT !.busy = 0]
      BY <1>1, <1>8 DEF TakeAnswer, TakeRenamed
    <2>2. PICK chip : /\ chip = CHOOSE r \in q.rows : TRUE
                      /\ chip \in Chip /\ chip.id = q.id
      <3>1. PICK name \in Names : q.rows = {[id |-> q.id, name |-> name]}
        BY <1>2, <1>8 DEF Fits
      <3>2. [id |-> q.id, name |-> name] \in Chip
        BY <1>2, <1>8 DEF Fits, Chip
      <3>3. PICK chip : chip = CHOOSE r \in q.rows : TRUE
        OBVIOUS
      <3>4. chip \in q.rows
        BY <3>1, <3>3
      <3> QED
        BY <3>1, <3>2, <3>3, <3>4
    <2>3. chips = {IF s.id = q.id THEN chip ELSE s : s \in picker.shown}
      BY <2>2
    <2> HIDE DEF chips
    <2>4. chips \in SUBSET Chip
      BY <1>2, <2>2, <2>3 DEF PickerRow
    <2>5. Ids(chips) = Ids(picker.shown)
      <3>1. \A s \in picker.shown : (IF s.id = q.id THEN chip ELSE s).id = s.id
        BY <2>2
      <3>2. \A t \in chips : \E s \in picker.shown : t.id = s.id
        BY <2>3, <3>1
      <3>3. \A s \in picker.shown : \E t \in chips : t.id = s.id
        BY <2>3, <3>1
      <3> QED
        BY <3>2, <3>3 DEF Ids
    <2>6. /\ p1 \in PickerRow /\ p1.shown = chips /\ p1.chosen = picker.chosen
          /\ p1.selected = picker.selected /\ p1.saved = picker.saved /\ p1.hurried = picker.hurried
      BY <1>2, <2>4 DEF PickerRow
    <2> HIDE DEF p1
    <2>7. /\ picker' \in PickerRow /\ picker'.shown = chips /\ picker'.chosen = picker.chosen
          /\ picker'.selected = picker.selected /\ picker'.saved = picker.saved
          /\ picker'.hurried = picker.hurried
      BY <2>1, <2>6 DEF PickerRow
    <2>8. Settles(picker')
      BY <1>2, <1>3, <1>8, <2>5, <2>7 DEF Settles, Expects
    <2> QED
      BY <1>1, <1>2, <2>8, AnswerKeeps DEF TakeAnswer
  <1>9. CASE q.step = "ok" /\ q.op = "delete"
    <2> DEFINE chips == {s \in picker.shown : s.id # q.id}
               ids == [q.selected EXCEPT ![q.id] = 0]
               p1 == [picker EXCEPT !.shown = chips]
               p2 == [p1 EXCEPT !.busy = 0]
               p3 == [p2 EXCEPT !.chosen = picker.chosen \ {q.id}]
    <2>1. picker' = [p3 EXCEPT !.selected = ids]
      BY <1>1, <1>2, <1>9 DEF TakeAnswer, TakeRemoved, PickerRow
    <2>2. q.id \in Existing /\ q.selected \in [Categories -> Nat]
      BY <1>2, <1>9 DEF Fits, AskedRow
    <2>3. chips \in SUBSET Chip /\ Ids(chips) = Ids(picker.shown) \ {q.id}
      BY <1>2 DEF PickerRow, Ids
    <2>4. ids \in [Categories -> Nat] /\ Members(ids) = Members(q.selected) \ {q.id}
      BY <1>2, <2>2 DEF Members
    <2> HIDE DEF chips, ids
    <2>5. /\ p1 \in PickerRow /\ p1.shown = chips /\ p1.chosen = picker.chosen
          /\ p1.saved = picker.saved /\ p1.hurried = picker.hurried
      BY <1>2, <2>3 DEF PickerRow
    <2> HIDE DEF p1
    <2>6. /\ p2 \in PickerRow /\ p2.shown = chips /\ p2.chosen = picker.chosen
          /\ p2.saved = picker.saved /\ p2.hurried = picker.hurried
      BY <2>5 DEF PickerRow
    <2> HIDE DEF p2
    <2>7. /\ p3 \in PickerRow /\ p3.shown = chips /\ p3.chosen = picker.chosen \ {q.id}
          /\ p3.saved = picker.saved /\ p3.hurried = picker.hurried
      BY <1>2, <2>6 DEF PickerRow
    <2> HIDE DEF p3
    <2>8. /\ picker' \in PickerRow /\ picker'.shown = chips /\ picker'.chosen = picker.chosen \ {q.id}
          /\ picker'.selected = ids /\ picker'.saved = picker.saved
          /\ picker'.hurried = picker.hurried
      BY <2>1, <2>4, <2>7 DEF PickerRow
    <2>9. Settles(picker')
      BY <1>2, <1>3, <1>9, <2>3, <2>4, <2>8 DEF Settles, Expects, Agrees
    <2> QED
      BY <1>1, <1>2, <2>9, AnswerKeeps DEF TakeAnswer
  <1> QED
    BY <1>2, <1>4, <1>5, <1>6, <1>7, <1>8, <1>9 DEF AskedRow

LEMMA TaxonomyKeeps == TableInv /\ ChoiceInv /\ [TaxonomyNext]_taxonomyVars => TableInv' /\ ChoiceInv'
  <1> SUFFICES ASSUME TableInv, ChoiceInv, [TaxonomyNext]_taxonomyVars PROVE TableInv' /\ ChoiceInv'
    OBVIOUS
  <1>1. ASSUME NEW n \in Numbers, Serve(n) PROVE TableInv' /\ ChoiceInv'
    <2>1. TableInv' /\ Grows /\ \E r : Serves(n, r)
      BY <1>1, ServeKeeps
    <2> QED
      BY <2>1, ServesChoice
  <1>2. ASSUME NEW n \in Numbers, TakeAnswer(n) PROVE TableInv' /\ ChoiceInv'
    BY <1>2, TakeAnswerKeeps
  <1>3. ASSUME NEW c \in Categories, Toggle(c) PROVE TableInv' /\ ChoiceInv'
    BY <1>3, ToggleKeeps
  <1>4. CASE \/ \E c \in Categories : ClickRemove(c) \/ \E name \in Names : EditName(c, name)
             \/ \E name \in Names : TypeName(name)
             \/ SubmitForm
    BY <1>4, AskingKeeps
  <1>5. CASE Leave \/ Elsewhere
    BY <1>5, LeaveKeeps, ElsewhereKeeps
  <1>6. CASE UNCHANGED taxonomyVars
    <2>1. UNCHANGED <<category, asked, picker, stored, led>>
      BY <1>6 DEF taxonomyVars
    <2>2. TableInv'
      BY <2>1, IdleKeeps DEF TableInv, TableTypes, Shown, Ids
    <2>3. Waiting' = Waiting /\ Kept' = Kept /\ Shown' = Shown
          /\ Members(picker.selected)' = Members(picker.selected)
      BY <2>1 DEF Waiting, Kept, Existing, Shown, Members
    <2>4. ChoiceInv'
      BY <2>1, <2>3 DEF ChoiceInv, Agrees
    <2> QED
      BY <2>2, <2>4
  <1> QED
    BY <1>1, <1>2, <1>3, <1>4, <1>5, <1>6 DEF TaxonomyNext

LEMMA TaxonomyInvariant == TaxonomySpec => [](TableInv /\ ChoiceInv)
  BY TaxonomyInitInv, TaxonomyKeeps, PTL DEF TaxonomySpec

\* creator.ts, POST /creator/categories: however the requests of all creators mix, two
\* kept categories share a name only if one was renamed or neither creation saw the other.
THEOREM NamesOnce == TaxonomySpec => []NameOnce
  <1>1. TableInv => NameOnce
    <2> SUFFICES ASSUME TableInv, NEW c \in Kept, NEW d \in Kept, c # d,
                        Fold[category[c].name] = Fold[category[d].name]
                 PROVE  \/ category[c].renamed \/ category[d].renamed
                        \/ c \notin category[d].seen /\ d \notin category[c].seen
      BY DEF NameOnce
    <2> QED
      BY DEF TableInv, RowsFit, Apart, Kept
  <1> QED
    BY <1>1, TaxonomyInvariant, PTL

\* The slugs in creator.ts and the unique index of schema.prisma: a link to a category
\* leads to it, or nowhere, as long as it was not renamed.
THEOREM LinksKeepMeaning == TaxonomySpec => []LinkKeepsMeaning
  <1>1. TableInv => LinkKeepsMeaning
    BY DEF LinkKeepsMeaning, TableInv, Linked, RowsFit, PageOf, Kept
  <1> QED
    BY <1>1, TaxonomyInvariant, PTL

\* CategoryPicker.tsx and ContentMetadataForm.tsx: to a creator who always waits for the
\* answer, the form shows and stores the choice made, whatever others do meanwhile.
THEOREM SelectedAsChosen == TaxonomySpec => []SelectionAsChosen
  <1>1. ChoiceInv => SelectionAsChosen
    BY DEF ChoiceInv, SelectionAsChosen
  <1> QED
    BY <1>1, TaxonomyInvariant, PTL

-----------------------------------------------------------------------------
(***************************************************************************)
(* The admin console                                                       *)
(***************************************************************************)

UnderWay == {calls[j] : j \in DOMAIN calls}

IsList(list) == \E r, f, since : list = [row |-> r, filter |-> f, since |-> since]
IsCall(c)    == \E action, f, step, lists : c = [action |-> action, filter |-> f, step |-> step, lists |-> lists]

\* The lists that the page shows or will show.
Lists == shown \cup UNION {c.lists : c \in UnderWay}

\* A list that nothing happened to since it was read has the row as stored.
AsRead(list) == IsList(list) /\ (list.since \cap {"own", "other"} = {} => list.row = Seen(list.filter))

\* What the page still waits for: an action and the load after it, a load that reads the
\* row or fails, or a list that was read after every action of the page.
Awaited(c) == c.action = "load" /\ c.step = "ok" => \A list \in c.lists : "own" \notin list.since

\* After an action of its own the page waits for another list, unless a failure ended that.
Followed(list) ==
    "own" \in list.since /\ list.since \cap {"missed", "late"} = {} /\ ~error => \E c \in UnderWay : Awaited(c)

CallsInv ==
    /\ calls \in Seq(UnderWay)
    /\ \A c \in UnderWay : IsCall(c) /\ (c.action = "load" /\ c.step = "ok" => c.lists # {})

ListsInv == \A list \in Lists : AsRead(list) /\ Followed(list)

ConsoleInv == CallsInv /\ ListsInv

\* A sequence that is written as a function of its places.
ValuesOf(s) == {s[j] : j \in DOMAIN s}
IsRow(s, n) == n \in Nat /\ s = [j \in 1..n |-> s[j]]

LEMMA SeqOfItems ==
    ASSUME NEW s, NEW n, IsRow(s, n)
    PROVE  s \in Seq(ValuesOf(s))
  <1>1. n \in Nat /\ s \in [1..n -> ValuesOf(s)]
    BY DEF IsRow, ValuesOf
  <1> QED
    BY <1>1

LEMMA TwoParts ==
    ASSUME NEW S, NEW s \in Seq(S), NEW t \in Seq(S)
    PROVE  /\ s \o t \in Seq(S) /\ Len(s \o t) = Len(s) + Len(t)
           /\ \A j \in 1..Len(s) + Len(t) : (s \o t)[j] = IF j <= Len(s) THEN s[j] ELSE t[j - Len(s)]
  OBVIOUS

\* Without its place i a sequence has the items of the other places.
LEMMA WithoutPlace ==
    ASSUME NEW S, NEW s \in Seq(S), NEW i \in DOMAIN s
    PROVE  LET t == RemoveAt(s, i)
           IN  t \in Seq(ValuesOf(t)) /\ ValuesOf(t) = {s[j] : j \in DOMAIN s \ {i}}
  <1> DEFINE n == Len(s)
             t == RemoveAt(s, i)
             place(k) == IF k < i THEN s[k] ELSE s[k + 1]
  <1>1. n \in Nat /\ DOMAIN s = 1..n /\ i \in 1..n /\ n - 1 \in Nat
    OBVIOUS
  <1>2. t \in Seq(S) /\ Len(t) = n - 1 /\ \A k \in 1..(n - 1) : t[k] = place(k)
    <2> DEFINE front == SubSeq(s, 1, i - 1)
               back == SubSeq(s, i + 1, n)
    <2>1. front \in Seq(S) /\ Len(front) = i - 1 /\ \A k \in 1..(i - 1) : front[k] = s[k]
      BY <1>1
    <2>2. back \in Seq(S) /\ Len(back) = n - i /\ \A k \in 1..(n - i) : back[k] = s[i + k]
      BY <1>1
    <2>3. t = front \o back
      BY DEF RemoveAt
    <2> HIDE DEF front, back, t
    <2>4. t \in Seq(S) /\ Len(t) = (i - 1) + (n - i)
      <3>1. front \in Seq(S) /\ back \in Seq(S)
        BY <2>1, <2>2
      <3>2. t \in Seq(S) /\ Len(t) = Len(front) + Len(back)
        BY <2>3, <3>1
      <3> QED
        BY <2>1, <2>2, <3>2
    <2>5. ASSUME NEW k \in 1..(n - 1) PROVE t[k] = place(k)
      <3>1. CASE k < i
        BY <1>1, <2>1, <2>2, <2>3, <3>1
      <3>2. CASE ~(k < i)
        <4>1. t[k] = back[k - (i - 1)]
          <5> DEFINE a == Len(front)
          <5>1. front \in Seq(S) /\ back \in Seq(S) /\ a \in Nat /\ a = i - 1 /\ Len(back) = n - i
            BY <2>1, <2>2
          <5>2. k \in (a + 1)..(a + Len(back))
            BY <1>1, <3>2, <5>1
          <5>3. t[k] = back[k - a]
            <6>1. \A j \in 1..a + Len(back) : t[j] = IF j <= a THEN front[j] ELSE back[j - a]
              BY <2>3, <5>1, TwoParts
            <6> QED
              BY <5>1, <5>2, <6>1
          <5> QED
            BY <5>1, <5>3
        <4>2. k - (i - 1) \in 1..(n - i) /\ i + (k - (i - 1)) = k + 1
          BY <1>1, <3>2
        <4>3. back[k - (i - 1)] = s[i + (k - (i - 1))]
          BY <2>2, <4>2
        <4> QED
          BY <3>2, <4>1, <4>2, <4>3
      <3> QED
        BY <3>1, <3>2
    <2> QED
      BY <1>1, <2>4, <2>5
  <1> HIDE DEF t
  <1>3. DOMAIN t = 1..(n - 1) /\ \A k \in 1..(n - 1) : t[k] = place(k)
    BY <1>1, <1>2
  <1>4. IsRow(t, n - 1)
    BY <1>1, <1>2 DEF IsRow
  <1>5. ASSUME NEW k \in DOMAIN t PROVE \E j \in DOMAIN s \ {i} : t[k] = s[j]
    <2>1. CASE k < i
      BY <1>1, <1>3, <2>1
    <2>2. CASE ~(k < i)
      <3>1. k + 1 \in DOMAIN s \ {i} /\ t[k] = s[k + 1]
        BY <1>1, <1>3, <2>2
      <3> QED
        BY <3>1
    <2> QED
      BY <2>1, <2>2
  <1>6. ASSUME NEW j \in DOMAIN s \ {i} PROVE \E k \in DOMAIN t : t[k] = s[j]
    <2>1. CASE j < i
      BY <1>1, <1>3, <2>1
    <2>2. CASE ~(j < i)
      <3>1. j - 1 \in DOMAIN t /\ ~(j - 1 < i) /\ (j - 1) + 1 = j
        BY <1>1, <1>3, <2>2
      <3>2. t[j - 1] = s[j]
        BY <1>3, <3>1
      <3> QED
        BY <3>1, <3>2
    <2> QED
      BY <2>1, <2>2
  <1>7. t \in Seq(ValuesOf(t))
    BY <1>4, SeqOfItems
  <1>8. ValuesOf(t) = {s[j] : j \in DOMAIN s \ {i}}
    BY <1>5, <1>6 DEF ValuesOf
  <1> QED
    BY <1>7, <1>8 DEF t

\* What marking a list leaves of it.
AreLists(lists) == \A list \in lists : IsList(list)

\* m is the list with a mark added.
WithMark(list, m, what) == m.row = list.row /\ m.filter = list.filter /\ m.since = list.since \cup {what}

LEMMA Marked ==
    ASSUME NEW lists, AreLists(lists), NEW what, NEW m \in Since(lists, what)
    PROVE  IsList(m) /\ \E list \in lists : WithMark(list, m, what)
  <1>1. PICK list \in lists : m = [list EXCEPT !.since = @ \cup {what}]
    BY DEF Since
  <1>2. PICK r, f, since : list = [row |-> r, filter |-> f, since |-> since]
    BY <1>1 DEF AreLists, IsList
  <1>3. m = [row |-> r, filter |-> f, since |-> since \cup {what}]
    BY <1>1, <1>2
  <1>4. m.row = list.row /\ m.filter = list.filter /\ m.since = list.since \cup {what}
    BY <1>2, <1>3
  <1>5. IsList(m)
    BY <1>3 DEF IsList
  <1> QED
    BY <1>1, <1>4, <1>5 DEF WithMark

LEMMA MarkedSome ==
    ASSUME NEW lists, lists # {}, NEW what
    PROVE  Since(lists, what) # {}
  <1>1. PICK list : list \in lists
    OBVIOUS
  <1>2. [list EXCEPT !.since = @ \cup {what}] \in Since(lists, what)
    BY <1>1 DEF Since
  <1> QED
    BY <1>2

LEMMA MarkedMore ==
    ASSUME NEW lists, NEW more, lists \subseteq more, NEW what
    PROVE  Since(lists, what) \subseteq Since(more, what)
  BY DEF Since

\* A call with other lists, and perhaps at another step.
WithLists(c, lists) == [c EXCEPT !.lists = lists]
AtStep(c, step)     == [c EXCEPT !.step = step]

LEMMA CallWith ==
    ASSUME NEW c, IsCall(c), NEW lists
    PROVE  LET d == WithLists(c, lists)
           IN  IsCall(d) /\ d.action = c.action /\ d.step = c.step /\ d.lists = lists
  <1> DEFINE d == WithLists(c, lists)
  <1>1. PICK a, f, s, x : c = [action |-> a, filter |-> f, step |-> s, lists |-> x]
    BY DEF IsCall
  <1>2. d = [action |-> a, filter |-> f, step |-> s, lists |-> lists]
    BY <1>1 DEF WithLists
  <1> HIDE DEF d
  <1>3. IsCall(d)
    BY <1>2 DEF IsCall
  <1>4. d.action = c.action /\ d.step = c.step /\ d.lists = lists
    BY <1>1, <1>2
  <1> QED
    BY <1>3, <1>4 DEF d

LEMMA CallAt ==
    ASSUME NEW c, IsCall(c), NEW step, NEW lists
    PROVE  LET d == WithLists(AtStep(c, step), lists)
           IN  IsCall(d) /\ d.action = c.action /\ d.step = step /\ d.lists = lists
  <1>1. PICK a, f, s, x : c = [action |-> a, filter |-> f, step |-> s, lists |-> x]
    BY DEF IsCall
  <1> DEFINE e == AtStep(c, step)
  <1>2. e = [action |-> a, filter |-> f, step |-> step, lists |-> x]
    BY <1>1 DEF AtStep
  <1> HIDE DEF e
  <1>3. IsCall(e) /\ e.action = c.action /\ e.step = step
    BY <1>1, <1>2 DEF IsCall
  <1> QED
    BY <1>3, CallWith DEF e

LEMMA CallsHave ==
    ASSUME CallsInv
    PROVE  /\ Len(calls) \in Nat /\ DOMAIN calls = 1..Len(calls)
           /\ calls = [j \in 1..Len(calls) |-> calls[j]]
           /\ \A j \in DOMAIN calls :
                 /\ calls[j] \in UnderWay /\ IsCall(calls[j])
                 /\ calls[j].action = "load" /\ calls[j].step = "ok" => calls[j].lists # {}
  <1>1. calls \in Seq(UnderWay)
    BY DEF CallsInv
  <1>2. Len(calls) \in Nat /\ DOMAIN calls = 1..Len(calls) /\ calls = [j \in 1..Len(calls) |-> calls[j]]
    BY <1>1
  <1>3. \A j \in DOMAIN calls : calls[j] \in UnderWay
    BY DEF UnderWay
  <1> QED
    BY <1>2, <1>3 DEF CallsInv

LEMMA MarkedLists ==
    ASSUME ConsoleInv, NEW what, NEW m \in Since(Lists, what)
    PROVE  IsList(m) /\ \E list \in Lists : WithMark(list, m, what)
  <1>1. AreLists(Lists)
    BY DEF AreLists, ConsoleInv, ListsInv, AsRead
  <1> QED
    BY <1>1, Marked

\* A request that is sent is awaited.
LEMMA PutKeeps ==
    ASSUME ConsoleInv, NEW action, NEW f, Put(Call(action, f)), UNCHANGED <<row, shown>>
    PROVE  ConsoleInv'
  <1> DEFINE d == Call(action, f)
             n == Len(calls)
  <1>1. n \in Nat /\ DOMAIN calls = 1..n /\ calls \in Seq(UnderWay)
    BY CallsHave DEF ConsoleInv, CallsInv
  <1>2. IsCall(d) /\ d.step = "wire" /\ d.lists = {} /\ Awaited(d)
    <2>1. d = [action |-> action, filter |-> f, step |-> "wire", lists |-> {}]
      BY DEF Call
    <2> HIDE DEF d
    <2>2. d.step = "wire" /\ d.lists = {}
      BY <2>1
    <2> QED
      BY <2>1, <2>2 DEF IsCall, Awaited
  <1>3. calls' = Append(calls, d)
    BY DEF Put
  <1> HIDE DEF d
  <1>4. DOMAIN calls' = 1..(n + 1) /\ \A j \in 1..(n + 1) : calls'[j] = IF j <= n THEN calls[j] ELSE d
    <2>1. calls \in Seq(UnderWay \cup {d}) /\ d \in UnderWay \cup {d}
      BY <1>1
    <2> QED
      BY <1>1, <1>3, <2>1
  <1>5. IsRow(calls', n + 1)
    <2>1. calls' \in Seq(UnderWay \cup {d})
      <3>1. calls \in Seq(UnderWay \cup {d}) /\ d \in UnderWay \cup {d}
        BY <1>1
      <3> QED
        BY <1>3, <3>1
    <2> QED
      BY <1>1, <1>4, <2>1 DEF IsRow
  <1>6. UnderWay' = UnderWay \cup {d}
    <2>1. \A j \in 1..(n + 1) : calls'[j] \in UnderWay \cup {d}
      BY <1>1, <1>4 DEF UnderWay
    <2>2. \A j \in 1..n : j \in 1..(n + 1) /\ calls'[j] = calls[j]
      BY <1>1, <1>4
    <2>3. n + 1 \in 1..(n + 1) /\ calls'[n + 1] = d
      BY <1>1, <1>4
    <2> QED
      BY <1>1, <1>4, <2>1, <2>2, <2>3 DEF UnderWay
  <1>7. calls' \in Seq(UnderWay')
    <2>1. calls' \in Seq(ValuesOf(calls'))
      BY <1>5, SeqOfItems
    <2> QED
      BY <2>1 DEF ValuesOf, UnderWay
  <1>8. CallsInv'
    BY <1>2, <1>6, <1>7 DEF CallsInv, ConsoleInv
  <1>9. Lists' = Lists
    BY <1>2, <1>6 DEF Lists
  <1>10. ListsInv'
    <2>1. \A list \in Lists : AsRead(list) => AsRead(list)'
      BY DEF AsRead, Seen
    <2>2. \A list : Followed(list)'
      BY <1>2, <1>6 DEF Followed
    <2> QED
      BY <1>9, <2>1, <2>2 DEF ConsoleInv, ListsInv
  <1> QED
    BY <1>8, <1>10 DEF ConsoleInv

\* A request that is answered, lost or followed by a load is awaited.
LEMMA ReplacedKeeps ==
    ASSUME ConsoleInv, NEW i \in DOMAIN calls, NEW d, IsCall(d), Awaited(d),
           d.action = "load" /\ d.step = "ok" => d.lists # {},
           \A list \in d.lists : AsRead(list),
           calls' = [calls EXCEPT ![i] = d], UNCHANGED <<row, shown>>
    PROVE  ConsoleInv'
  <1> DEFINE n == Len(calls)
  <1>1. n \in Nat /\ DOMAIN calls = 1..n /\ calls = [j \in 1..n |-> calls[j]]
    BY CallsHave DEF ConsoleInv
  <1>2. calls' = [j \in 1..n |-> IF j = i THEN d ELSE calls[j]]
    BY <1>1
  <1> HIDE DEF n
  <1>3. DOMAIN calls' = 1..n /\ \A j \in 1..n : calls'[j] = IF j = i THEN d ELSE calls[j]
    BY <1>2
  <1>4. IsRow(calls', n)
    BY <1>1, <1>2 DEF IsRow
  <1>5. calls' \in Seq(UnderWay')
    <2>1. calls' \in Seq(ValuesOf(calls'))
      BY <1>4, SeqOfItems
    <2> QED
      BY <2>1 DEF ValuesOf, UnderWay
  <1>6. d \in UnderWay' /\ \A c \in UnderWay' : c = d \/ c \in UnderWay
    BY <1>1, <1>3 DEF UnderWay
  <1>7. CallsInv'
    BY <1>5, <1>6 DEF CallsInv, ConsoleInv
  <1>8. \A list \in Lists' : list \in Lists \/ list \in d.lists
    BY <1>6 DEF Lists
  <1>9. ListsInv'
    <2>1. \A list : AsRead(list) => AsRead(list)'
      BY DEF AsRead, Seen
    <2>2. \A list : Followed(list)'
      BY <1>6 DEF Followed
    <2> QED
      BY <1>8, <2>1, <2>2 DEF ConsoleInv, ListsInv
  <1> QED
    BY <1>7, <1>9 DEF ConsoleInv

LEMMA ServeLoadKeeps ==
    ASSUME ConsoleInv, NEW i \in DOMAIN calls, ServeLoad(i)
    PROVE  ConsoleInv'
  <1> DEFINE list == [row |-> Seen(calls[i].filter), filter |-> calls[i].filter, since |-> {}]
             d == WithLists(AtStep(calls[i], "ok"), {list})
  <1>1. calls' = [calls EXCEPT ![i] = d] /\ UNCHANGED <<row, shown>>
    BY DEF ServeLoad, WithLists, AtStep
  <1>2. AsRead(list) /\ list.since = {}
    BY DEF AsRead, IsList
  <1> HIDE DEF list
  <1>3. IsCall(d) /\ d.lists = {list}
    <2>1. IsCall(calls[i])
      BY CallsHave DEF ConsoleInv
    <2> QED
      BY <2>1, CallAt
  <1> HIDE DEF d
  <1>4. Awaited(d)
    BY <1>2, <1>3 DEF Awaited
  <1> QED
    BY <1>1, <1>2, <1>3, <1>4, ReplacedKeeps

LEMMA FailKeeps ==
    ASSUME ConsoleInv, NEW i \in DOMAIN calls, Fail(i)
    PROVE  ConsoleInv'
  <1> DEFINE d == WithLists(AtStep(calls[i], "error"), {})
  <1>1. calls' = [calls EXCEPT ![i] = d] /\ UNCHANGED <<row, shown>>
    BY DEF Fail, WithLists, AtStep
  <1>2. IsCall(d) /\ d.lists = {} /\ d.step = "error"
    <2>1. IsCall(calls[i])
      BY CallsHave DEF ConsoleInv
    <2> QED
      BY <2>1, CallAt
  <1> HIDE DEF d
  <1>3. Awaited(d)
    BY <1>2 DEF Awaited
  <1> QED
    BY <1>1, <1>2, <1>3, ReplacedKeeps

LEMMA DoneKeeps ==
    ASSUME ConsoleInv, NEW i \in DOMAIN calls, Done(i)
    PROVE  ConsoleInv'
  <1> DEFINE d == Call("load", calls[i].filter)
  <1>1. calls' = [calls EXCEPT ![i] = d] /\ UNCHANGED <<row, shown>>
    BY DEF Done
  <1>2. IsCall(d) /\ d.lists = {} /\ d.step = "wire"
    <2>1. PICK f : f = calls[i].filter
      OBVIOUS
    <2>2. d = [action |-> "load", filter |-> f, step |-> "wire", lists |-> {}]
      BY <2>1 DEF Call
    <2> HIDE DEF d
    <2>3. d.lists = {} /\ d.step = "wire"
      BY <2>2
    <2> QED
      BY <2>2, <2>3 DEF IsCall
  <1> HIDE DEF d
  <1>3. Awaited(d)
    BY <1>2 DEF Awaited
  <1> QED
    BY <1>1, <1>2, <1>3, ReplacedKeeps

\* An action of the page is applied: it is awaited itself.
LEMMA ServeActKeeps ==
    ASSUME ConsoleInv, NEW i \in DOMAIN calls, ServeAct(i)
    PROVE  ConsoleInv'
  <1> DEFINE n == Len(calls)
             d(j) == [calls[j] EXCEPT !.step = IF j = i THEN "ok" ELSE @, !.lists = Since(@, "own")]
  <1>1. n \in Nat /\ DOMAIN calls = 1..n
    BY CallsHave DEF ConsoleInv
  <1>2. calls' = [j \in 1..n |-> d(j)]
    BY <1>1 DEF ServeAct
  <1>3. \A j \in 1..n : /\ IsCall(d(j)) /\ d(j).action = calls[j].action
                        /\ d(j).step = "ok" => j = i \/ calls[j].step = "ok"
                        /\ d(j).lists = Since(calls[j].lists, "own")
    <2> SUFFICES ASSUME NEW j \in 1..n
                 PROVE  /\ IsCall(d(j)) /\ d(j).action = calls[j].action
                        /\ d(j).step = "ok" => j = i \/ calls[j].step = "ok"
                        /\ d(j).lists = Since(calls[j].lists, "own")
      OBVIOUS
    <2> DEFINE c == calls[j]
               y == IF j = i THEN "ok" ELSE c.step
               x == Since(c.lists, "own")
    <2>1. IsCall(c)
      BY <1>1, CallsHave DEF ConsoleInv
    <2>2. [c EXCEPT !.step = y].lists = c.lists
      BY <2>1 DEF IsCall
    <2>3. d(j) = WithLists(AtStep(c, y), x)
      BY <2>2 DEF WithLists, AtStep
    <2> HIDE DEF d, x, y, c
    <2>4. IsCall(d(j)) /\ d(j).action = c.action /\ d(j).step = y /\ d(j).lists = x
      BY <2>1, <2>3, CallAt
    <2> QED
      BY <2>4 DEF x, y, c
  <1> HIDE DEF d, n
  <1>4. DOMAIN calls' = 1..n /\ \A j \in 1..n : calls'[j] = d(j)
    BY <1>2
  <1>5. calls' \in Seq(UnderWay')
    <2>1. IsRow(calls', n)
      BY <1>1, <1>2 DEF IsRow
    <2>2. calls' \in Seq(ValuesOf(calls'))
      BY <2>1, SeqOfItems
    <2> QED
      BY <2>2 DEF ValuesOf, UnderWay
  <1>6. calls[i].action # "load" /\ UNCHANGED error /\ shown' = Since(shown, "own")
    BY DEF ServeAct
  <1>7. CallsInv'
    <2>1. ASSUME NEW c \in UnderWay' PROVE IsCall(c) /\ (c.action = "load" /\ c.step = "ok" => c.lists # {})
      <3>1. PICK j \in 1..n : c = d(j)
        BY <1>4 DEF UnderWay
      <3>2. calls[j].action = "load" /\ calls[j].step = "ok" => calls[j].lists # {}
        BY <1>1, CallsHave DEF ConsoleInv
      <3>3. IsCall(c) /\ c.action = calls[j].action /\ (c.step = "ok" => j = i \/ calls[j].step = "ok")
            /\ c.lists = Since(calls[j].lists, "own")
        BY <1>3, <3>1
      <3> QED
        BY <1>6, <3>2, <3>3, MarkedSome
    <2> QED
      BY <1>5, <2>1 DEF CallsInv
  <1>8. \A m \in Lists' : IsList(m) /\ "own" \in m.since
    <2> SUFFICES ASSUME NEW m \in Lists' PROVE IsList(m) /\ "own" \in m.since
      OBVIOUS
    <2>1. m \in Since(Lists, "own")
      <3>1. Since(shown, "own") \subseteq Since(Lists, "own")
        BY MarkedMore DEF Lists
      <3>2. ASSUME NEW j \in 1..n PROVE Since(calls[j].lists, "own") \subseteq Since(Lists, "own")
        <4>1. calls[j].lists \subseteq Lists
          BY <1>1 DEF Lists, UnderWay
        <4> QED
          BY <4>1, MarkedMore
      <3>3. m \in shown' \/ \E j \in 1..n : m \in d(j).lists
        BY <1>4 DEF Lists, UnderWay
      <3> QED
        BY <1>3, <1>6, <3>1, <3>2, <3>3
    <2>2. IsList(m) /\ \E list \in Lists : m.since = list.since \cup {"own"}
      BY <2>1, MarkedLists DEF WithMark
    <2> QED
      BY <2>2
  <1>9. d(i) \in UnderWay' /\ Awaited(d(i))
    BY <1>1, <1>3, <1>4, <1>6 DEF UnderWay, Awaited
  <1>10. ListsInv'
    BY <1>8, <1>9 DEF ListsInv, AsRead, Followed
  <1> QED
    BY <1>7, <1>10 DEF ConsoleInv

\* Somebody else acts, or a failure is no longer told: what was awaited still is.
LEMMA NoteKeeps ==
    ASSUME ConsoleInv, NEW what, Note(what),
           \/ what = "other" /\ UNCHANGED error
           \/ what = "missed" /\ UNCHANGED row
    PROVE  ConsoleInv'
  <1> DEFINE n == Len(calls)
             d(j) == [calls[j] EXCEPT !.lists = Since(@, what)]
  <1>1. n \in Nat /\ DOMAIN calls = 1..n
    BY CallsHave DEF ConsoleInv
  <1>2. calls' = [j \in 1..n |-> d(j)] /\ shown' = Since(shown, what)
    BY <1>1 DEF Note
  <1>3. \A j \in 1..n : /\ IsCall(d(j)) /\ d(j).action = calls[j].action /\ d(j).step = calls[j].step
                        /\ d(j).lists = Since(calls[j].lists, what)
    <2> SUFFICES ASSUME NEW j \in 1..n
                 PROVE  /\ IsCall(d(j)) /\ d(j).action = calls[j].action /\ d(j).step = calls[j].step
                        /\ d(j).lists = Since(calls[j].lists, what)
      OBVIOUS
    <2>1. IsCall(calls[j])
      BY <1>1, CallsHave DEF ConsoleInv
    <2>2. d(j) = WithLists(calls[j], Since(calls[j].lists, what))
      BY DEF WithLists
    <2> HIDE DEF d
    <2> QED
      BY <2>1, <2>2, CallWith
  <1> HIDE DEF d, n
  <1>4. DOMAIN calls' = 1..n /\ \A j \in 1..n : calls'[j] = d(j)
    BY <1>2
  <1>5. calls' \in Seq(UnderWay')
    <2>1. IsRow(calls', n)
      BY <1>1, <1>2 DEF IsRow
    <2>2. calls' \in Seq(ValuesOf(calls'))
      BY <2>1, SeqOfItems
    <2> QED
      BY <2>2 DEF ValuesOf, UnderWay
  <1>6. CallsInv'
    <2>1. ASSUME NEW c \in UnderWay' PROVE IsCall(c) /\ (c.action = "load" /\ c.step = "ok" => c.lists # {})
      <3>1. PICK j \in 1..n : c = d(j)
        BY <1>4 DEF UnderWay
      <3>2. calls[j].action = "load" /\ calls[j].step = "ok" => calls[j].lists # {}
        BY <1>1, CallsHave DEF ConsoleInv
      <3>3. IsCall(c) /\ c.action = calls[j].action /\ c.step = calls[j].step
            /\ c.lists = Since(calls[j].lists, what)
        BY <1>3, <3>1
      <3> QED
        BY <3>2, <3>3, MarkedSome
    <2> QED
      BY <1>5, <2>1 DEF CallsInv
  <1>7. \A list \in Lists : IsList(list) /\ Followed(list)
    BY DEF ConsoleInv, ListsInv, AsRead
  <1>8. ASSUME NEW m \in Lists'
        PROVE  /\ IsList(m)
               /\ \E list \in Lists : WithMark(list, m, what)
    <2>1. m \in Since(Lists, what)
      <3>1. Since(shown, what) \subseteq Since(Lists, what)
        BY MarkedMore DEF Lists
      <3>2. ASSUME NEW j \in 1..n PROVE Since(calls[j].lists, what) \subseteq Since(Lists, what)
        <4>1. calls[j].lists \subseteq Lists
          BY <1>1 DEF Lists, UnderWay
        <4> QED
          BY <4>1, MarkedMore
      <3>3. m \in shown' \/ \E j \in 1..n : m \in d(j).lists
        BY <1>4 DEF Lists, UnderWay
      <3> QED
        BY <1>2, <1>3, <3>1, <3>2, <3>3
    <2> QED
      BY <2>1, MarkedLists
  <1>9. ASSUME NEW c \in UnderWay, Awaited(c) PROVE \E e \in UnderWay' : Awaited(e)
    <2>1. PICK j \in 1..n : c = calls[j]
      BY <1>1 DEF UnderWay
    <2>2. \A m \in Since(c.lists, what) : \E list \in c.lists : m.since = list.since \cup {what}
      <3>1. AreLists(c.lists)
        BY <1>7 DEF AreLists, Lists
      <3> QED
        BY <3>1, Marked DEF WithMark
    <2>3. Awaited(d(j))
      BY <1>3, <1>9, <2>1, <2>2 DEF Awaited
    <2> QED
      BY <1>4, <2>3 DEF UnderWay
  <1>10. ASSUME NEW m \in Lists' PROVE AsRead(m)' /\ Followed(m)'
    <2>1. PICK list \in Lists : /\ m.row = list.row /\ m.filter = list.filter
                                /\ m.since = list.since \cup {what} /\ IsList(m)
      BY <1>8, <1>10 DEF WithMark
    <2>2. AsRead(m)'
      <3>1. AsRead(list)
        BY DEF ConsoleInv, ListsInv
      <3>2. CASE what = "other"
        BY <2>1, <3>2 DEF AsRead
      <3>3. CASE UNCHANGED row
        <4>1. Seen(m.filter)' = Seen(m.filter)
          BY <3>3 DEF Seen
        <4> QED
          BY <2>1, <3>1, <4>1 DEF AsRead
      <3> QED
        BY <3>2, <3>3
    <2>3. Followed(m)'
      <3>1. CASE what = "other" /\ UNCHANGED error
        BY <1>7, <1>9, <2>1, <3>1 DEF Followed
      <3>2. CASE what = "missed"
        BY <2>1, <3>2 DEF Followed
      <3> QED
        BY <3>1, <3>2
    <2> QED
      BY <2>2, <2>3
  <1> QED
    BY <1>6, <1>10 DEF ConsoleInv, ListsInv

\* The requests that are left when number i is through and the lists of the others are marked.
LEMMA LeftOver ==
    ASSUME NEW s, NEW n, IsRow(s, n), NEW i \in 1..n, calls' = RemoveAt(s, i)
    PROVE  calls' \in Seq(UnderWay') /\ UnderWay' = {s[j] : j \in (1..n) \ {i}}
  <1>1. DOMAIN s = 1..n /\ s \in Seq(ValuesOf(s))
    BY SeqOfItems DEF IsRow
  <1> DEFINE left == RemoveAt(s, i)
  <1>2. i \in DOMAIN s
    BY <1>1
  <1>3. left \in Seq(ValuesOf(left)) /\ ValuesOf(left) = {s[j] : j \in DOMAIN s \ {i}}
    BY <1>1, <1>2, WithoutPlace
  <1> HIDE DEF left
  <1>4. calls' = left
    BY DEF left
  <1>5. UnderWay' = ValuesOf(left)
    BY <1>4 DEF ValuesOf, UnderWay
  <1> QED
    BY <1>1, <1>3, <1>4, <1>5

\* Of the lists that another one overtakes, those it was read after are marked.
Unmarked(m, lists, arrived) == m \in lists /\ \A a \in arrived : "own" \notin m.since \ a.since

LEMMA OvertakenLists ==
    ASSUME NEW lists, AreLists(lists), NEW arrived, NEW m \in Overtaken(lists, arrived)
    PROVE  IsList(m) /\ (Unmarked(m, lists, arrived) \/ \E list \in lists : WithMark(list, m, "late"))
  <1>1. PICK list \in lists : m = IF \E a \in arrived : "own" \in list.since \ a.since
                                THEN [list EXCEPT !.since = @ \cup {"late"}] ELSE list
    BY DEF Overtaken
  <1>2. CASE \E a \in arrived : "own" \in list.since \ a.since
    <2>1. PICK r, f, since : list = [row |-> r, filter |-> f, since |-> since]
      BY DEF AreLists, IsList
    <2>2. m = [list EXCEPT !.since = @ \cup {"late"}]
      BY <1>1, <1>2
    <2>3. m = [row |-> r, filter |-> f, since |-> since \cup {"late"}]
      BY <2>1, <2>2
    <2>4. IsList(m)
      BY <2>3 DEF IsList
    <2>5. m.row = list.row /\ m.filter = list.filter /\ m.since = list.since \cup {"late"}
      BY <2>1, <2>3
    <2> QED
      BY <2>4, <2>5 DEF WithMark
  <1>3. CASE ~\E a \in arrived : "own" \in list.since \ a.since
    <2>1. m = list
      BY <1>1, <1>3
    <2> QED
      BY <1>3, <2>1 DEF AreLists, Unmarked
  <1> QED
    BY <1>2, <1>3

LEMMA OvertakenSome ==
    ASSUME NEW lists, lists # {}, NEW arrived
    PROVE  Overtaken(lists, arrived) # {}
  <1>1. PICK list : list \in lists
    OBVIOUS
  <1> DEFINE m == IF \E a \in arrived : "own" \in list.since \ a.since
                  THEN [list EXCEPT !.since = @ \cup {"late"}] ELSE list
  <1>2. m \in Overtaken(lists, arrived)
    BY <1>1 DEF Overtaken
  <1> QED
    BY <1>2

\* A list arrives.  If it was the one that was awaited, no list under way was read later
\* unmarked, and it was read after every action itself.
LEMMA ListedKeeps ==
    ASSUME ConsoleInv, NEW i \in DOMAIN calls, Listed(i)
    PROVE  ConsoleInv'
  <1> DEFINE n == Len(calls)
             arrived == calls[i].lists
             s == [j \in 1..n |-> [calls[j] EXCEPT !.lists = Overtaken(@, arrived)]]
  <1>1. n \in Nat /\ DOMAIN calls = 1..n /\ i \in 1..n
    BY CallsHave DEF ConsoleInv
  <1>2. /\ calls' = RemoveAt(s, i) /\ shown' = arrived /\ UNCHANGED <<row, error>>
        /\ calls[i].action = "load" /\ calls[i].step = "ok"
    BY <1>1 DEF Listed
  <1>3. \A list \in Lists : IsList(list) /\ AsRead(list) /\ Followed(list)
    BY DEF ConsoleInv, ListsInv, AsRead
  <1>4. \A j \in 1..n : calls[j] \in UnderWay /\ calls[j].lists \subseteq Lists
    BY <1>1 DEF Lists, UnderWay
  <1>5. \A j \in 1..n : /\ IsCall(s[j]) /\ s[j].action = calls[j].action /\ s[j].step = calls[j].step
                        /\ s[j].lists = Overtaken(calls[j].lists, arrived)
    <2> SUFFICES ASSUME NEW j \in 1..n
                 PROVE  /\ IsCall(s[j]) /\ s[j].action = calls[j].action /\ s[j].step = calls[j].step
                        /\ s[j].lists = Overtaken(calls[j].lists, arrived)
      OBVIOUS
    <2>1. IsCall(calls[j])
      BY <1>1, CallsHave DEF ConsoleInv
    <2>2. s[j] = WithLists(calls[j], Overtaken(calls[j].lists, arrived))
      BY DEF WithLists
    <2> HIDE DEF s
    <2> QED
      BY <2>1, <2>2, CallWith
  <1>6. IsRow(s, n)
    BY <1>1 DEF IsRow
  <1> HIDE DEF s, n, arrived
  <1>7. calls' \in Seq(UnderWay') /\ UnderWay' = {s[j] : j \in (1..n) \ {i}}
    BY <1>1, <1>2, <1>6, LeftOver
  <1>8. \A j \in 1..n :
           /\ calls[j].lists # {} => Overtaken(calls[j].lists, arrived) # {}
           /\ \A m \in Overtaken(calls[j].lists, arrived) :
                /\ IsList(m)
                /\ \/ Unmarked(m, calls[j].lists, arrived)
                   \/ \E list \in calls[j].lists : WithMark(list, m, "late")
    <2> TAKE j \in 1..n
    <2>1. AreLists(calls[j].lists)
      BY <1>3, <1>4 DEF AreLists
    <2>2. calls[j].lists # {} => Overtaken(calls[j].lists, arrived) # {}
      BY OvertakenSome
    <2> QED
      BY <2>1, <2>2, OvertakenLists
  <1>9. CallsInv'
    <2>1. ASSUME NEW c \in UnderWay' PROVE IsCall(c) /\ (c.action = "load" /\ c.step = "ok" => c.lists # {})
      <3>1. PICK j \in 1..n : c = s[j]
        BY <1>7
      <3>2. calls[j].action = "load" /\ calls[j].step = "ok" => calls[j].lists # {}
        BY <1>1, CallsHave DEF ConsoleInv
      <3> QED
        BY <1>5, <1>8, <3>1, <3>2
    <2> QED
      BY <1>7, <2>1 DEF CallsInv
  <1>10. \A m \in Lists' : \/ m \in arrived
                           \/ m \in Lists /\ \A a \in arrived : "own" \notin m.since \ a.since
                           \/ /\ IsList(m) /\ "late" \in m.since
                              /\ \E list \in Lists : m.row = list.row /\ m.filter = list.filter
                                                     /\ m.since = list.since \cup {"late"}
    <2> SUFFICES ASSUME NEW m \in Lists', m \notin arrived
                 PROVE  \/ m \in Lists /\ \A a \in arrived : "own" \notin m.since \ a.since
                        \/ /\ IsList(m) /\ "late" \in m.since
                           /\ \E list \in Lists : m.row = list.row /\ m.filter = list.filter
                                                  /\ m.since = list.since \cup {"late"}
      OBVIOUS
    <2>1. PICK j \in 1..n : m \in Overtaken(calls[j].lists, arrived)
      BY <1>2, <1>5, <1>7 DEF Lists
    <2> QED
      BY <1>4, <1>8, <2>1 DEF Unmarked, WithMark
  <1>11. arrived \subseteq Lists /\ arrived # {}
    <2>1. arrived # {}
      BY <1>1, <1>2, CallsHave DEF ConsoleInv, arrived
    <2> QED
      BY <1>1, <1>4, <2>1 DEF arrived
  <1>12. ASSUME NEW j \in (1..n) \ {i}, Awaited(calls[j]) PROVE \E c \in UnderWay' : Awaited(c)
    <2>1. \A m \in s[j].lists : \E list \in calls[j].lists : "own" \in m.since => "own" \in list.since
      BY <1>5, <1>8 DEF Unmarked, WithMark
    <2>2. Awaited(s[j])
      BY <1>5, <1>12, <2>1 DEF Awaited
    <2> QED
      BY <1>7, <2>2
  <1>13. ASSUME NEW m \in Lists' PROVE AsRead(m)'
    <2>1. \/ m \in Lists
          \/ IsList(m) /\ \E list \in Lists : m.row = list.row /\ m.filter = list.filter
                                              /\ m.since = list.since \cup {"late"}
      BY <1>10, <1>11, <1>13
    <2>2. \A f : Seen(f)' = Seen(f)
      BY <1>2 DEF Seen
    <2>3. AsRead(m)
      BY <1>3, <2>1 DEF AsRead
    <2> QED
      BY <2>2, <2>3 DEF AsRead
  <1>14. ASSUME NEW m \in Lists' PROVE Followed(m)'
    <2> SUFFICES ASSUME "own" \in m.since, m.since \cap {"missed", "late"} = {}, ~error
                 PROVE  \E c \in UnderWay' : Awaited(c)
      BY <1>2 DEF Followed
    <2>1. m \in Lists /\ (m \in arrived \/ \A a \in arrived : "own" \notin m.since \ a.since)
      BY <1>10, <1>11, <1>14
    <2>2. PICK j \in 1..n : Awaited(calls[j])
      BY <1>1, <1>3, <2>1 DEF Followed, UnderWay
    <2>3. j # i
      <3>1. \E a \in arrived : "own" \in a.since
        BY <1>11, <2>1
      <3> QED
        BY <1>2, <2>2, <3>1 DEF Awaited, arrived
    <2> QED
      BY <1>12, <2>2, <2>3
  <1> QED
    BY <1>9, <1>13, <1>14 DEF ConsoleInv, ListsInv

\* A failure is told, or marks every list.
LEMMA FailedKeeps ==
    ASSUME ConsoleInv, NEW i \in DOMAIN calls, Failed(i)
    PROVE  ConsoleInv'
  <1> DEFINE n == Len(calls)
             s == [j \in 1..n |-> IF Told(i) THEN calls[j] ELSE [calls[j] EXCEPT !.lists = Since(@, "missed")]]
  <1>1. n \in Nat /\ DOMAIN calls = 1..n /\ i \in 1..n
    BY CallsHave DEF ConsoleInv
  <1>2. calls' = RemoveAt(s, i) /\ UNCHANGED row
    BY <1>1 DEF Failed
  <1>3. \A list \in Lists : IsList(list) /\ AsRead(list)
    BY DEF ConsoleInv, ListsInv, AsRead
  <1>4. \A j \in 1..n : calls[j].lists \subseteq Lists
    BY <1>1 DEF Lists, UnderWay
  <1>5. \A j \in 1..n : /\ IsCall(s[j]) /\ s[j].action = calls[j].action /\ s[j].step = calls[j].step
                        /\ s[j].lists = IF Told(i) THEN calls[j].lists ELSE Since(calls[j].lists, "missed")
    <2>1. CASE Told(i)
      BY <1>1, <2>1, CallsHave DEF ConsoleInv
    <2>2. CASE ~Told(i)
      <3> SUFFICES ASSUME NEW j \in 1..n
                   PROVE  /\ IsCall(s[j]) /\ s[j].action = calls[j].action /\ s[j].step = calls[j].step
                          /\ s[j].lists = Since(calls[j].lists, "missed")
        BY <2>2
      <3>1. IsCall(calls[j])
        BY <1>1, CallsHave DEF ConsoleInv
      <3>2. s[j] = WithLists(calls[j], Since(calls[j].lists, "missed"))
        BY <2>2 DEF WithLists
      <3> HIDE DEF s
      <3> QED
        BY <3>1, <3>2, CallWith
    <2> QED
      BY <2>1, <2>2
  <1>6. IsRow(s, n)
    BY <1>1 DEF IsRow
  <1> HIDE DEF s, n
  <1>7. calls' \in Seq(UnderWay') /\ UnderWay' = {s[j] : j \in (1..n) \ {i}}
    BY <1>1, <1>2, <1>6, LeftOver
  <1>8. CallsInv'
    <2>1. ASSUME NEW c \in UnderWay' PROVE IsCall(c) /\ (c.action = "load" /\ c.step = "ok" => c.lists # {})
      <3>1. PICK j \in 1..n : c = s[j]
        BY <1>7
      <3>2. calls[j].action = "load" /\ calls[j].step = "ok" => calls[j].lists # {}
        BY <1>1, CallsHave DEF ConsoleInv
      <3>3. IsCall(c) /\ c.action = calls[j].action /\ c.step = calls[j].step
            /\ c.lists = IF Told(i) THEN calls[j].lists ELSE Since(calls[j].lists, "missed")
        BY <1>5, <3>1
      <3> QED
        BY <3>2, <3>3, MarkedSome
    <2> QED
      BY <1>7, <2>1 DEF CallsInv
  <1>9. \A f : Seen(f)' = Seen(f)
    BY <1>2 DEF Seen
  <1>10. CASE Told(i)
    <2>1. shown' = shown /\ error' = TRUE
      BY <1>10 DEF Failed
    <2>2. \A m \in Lists' : m \in Lists
      BY <1>4, <1>5, <1>7, <1>10, <2>1 DEF Lists
    <2>3. \A m \in Lists' : AsRead(m)' /\ Followed(m)'
      BY <1>3, <1>9, <2>1, <2>2 DEF AsRead, Followed
    <2> QED
      BY <1>8, <2>3 DEF ConsoleInv, ListsInv
  <1>11. CASE ~Told(i)
    <2>1. shown' = Since(shown, "missed")
      BY <1>11 DEF Failed
    <2>2. \A m \in Lists' : m \in Since(Lists, "missed")
      <3>1. Since(shown, "missed") \subseteq Since(Lists, "missed")
        BY MarkedMore DEF Lists
      <3>2. ASSUME NEW j \in 1..n PROVE Since(calls[j].lists, "missed") \subseteq Since(Lists, "missed")
        BY <1>4, MarkedMore
      <3> QED
        BY <1>5, <1>7, <1>11, <2>1, <3>1, <3>2 DEF Lists
    <2>3. \A m \in Lists' : /\ IsList(m)
                            /\ \E list \in Lists : WithMark(list, m, "missed")
      BY <2>2, MarkedLists
    <2>4. \A m \in Lists' : AsRead(m)' /\ Followed(m)'
      BY <1>3, <1>9, <2>3 DEF AsRead, Followed, WithMark
    <2> QED
      BY <1>8, <2>4 DEF ConsoleInv, ListsInv
  <1> QED
    BY <1>10, <1>11

\* load() after every action in admin/users/page.tsx, stories, reports and payouts: once
\* nothing is under way, however clicks, filters, loads and answers overlapped, the page
\* shows the row as stored, unless somebody else acted since the list was read, the page
\* says that an action failed, an answer did not come, or one list overtook another.
THEOREM ConsoleRestsOnStored == ConsoleSpec => []RestsOnStored
<1>1. ConsoleInit => ConsoleInv
  <2> SUFFICES ASSUME ConsoleInit PROVE ConsoleInv
    OBVIOUS
  <2>1. PICK f : calls = <<Call("load", f)>>
    BY DEF ConsoleInit
  <2> DEFINE d == [action |-> "load", filter |-> f, step |-> "wire", lists |-> {}]
  <2>2. calls = <<d>>
    BY <2>1 DEF Call
  <2>3. IsCall(d) /\ d.step = "wire" /\ d.lists = {}
    BY DEF IsCall
  <2> HIDE DEF d
  <2>4. UnderWay = {d}
    BY <2>2 DEF UnderWay
  <2>5. calls \in Seq({d})
    BY <2>2
  <2>6. Lists = {}
    BY <2>3, <2>4 DEF ConsoleInit, Lists
  <2> QED
    BY <2>3, <2>4, <2>5, <2>6 DEF ConsoleInv, CallsInv, ListsInv
<1>2. ConsoleInv /\ [ConsoleNext]_consoleVars => ConsoleInv'
  <2> SUFFICES ASSUME ConsoleInv, [ConsoleNext]_consoleVars PROVE ConsoleInv'
    OBVIOUS
  <2>1. CASE UNCHANGED <<row, shown, calls, error>>
    BY <2>1 DEF ConsoleInv, CallsInv, ListsInv, UnderWay, Lists, AsRead, Followed, Seen
  <2>2. CASE Choose \/ SendFilter
    <3>1. UNCHANGED <<row, shown, error>>
      BY <2>2 DEF Choose, SendFilter
    <3>2. UNCHANGED calls \/ \E f : Put(Call("load", f))
      BY <2>2 DEF Choose, SendFilter
    <3> QED
      BY <2>1, <3>1, <3>2, PutKeeps
  <2>3. CASE Act
    BY <2>3, PutKeeps DEF Act
  <2>4. CASE Dismiss \/ Other
    BY <2>4, NoteKeeps DEF Dismiss, Other
  <2>5. ASSUME NEW i \in DOMAIN calls, Served(i) \/ Answered(i) PROVE ConsoleInv'
    BY <2>5, ServeLoadKeeps, ServeActKeeps, FailKeeps, ListedKeeps, DoneKeeps, FailedKeeps DEF Served, Answered
  <2>6. CASE UNCHANGED consoleVars
    BY <2>1, <2>6 DEF consoleVars
  <2> QED
    BY <2>2, <2>3, <2>4, <2>5, <2>6 DEF ConsoleNext
<1>3. ConsoleInv => RestsOnStored
  <2> SUFFICES ASSUME ConsoleInv, calls = <<>>, NEW list \in shown
               PROVE  \/ list.row = Seen(list.filter)
                      \/ list.since \cap {"other", "missed", "late"} # {}
                      \/ error
    BY DEF RestsOnStored
  <2>1. UnderWay = {}
    BY DEF UnderWay
  <2>2. AsRead(list) /\ Followed(list)
    BY DEF ConsoleInv, ListsInv, Lists
  <2> QED
    BY <2>1, <2>2 DEF AsRead, Followed
<1> QED BY <1>1, <1>2, <1>3, PTL DEF ConsoleSpec

-----------------------------------------------------------------------------
(***************************************************************************)
(* The pages of an item                                                    *)
(***************************************************************************)

ItemRow == [published : BOOLEAN, public : BOOLEAN, deleted : BOOLEAN, restored : BOOLEAN]
PartRow == [published : BOOLEAN, deleted : BOOLEAN, raced : BOOLEAN]
Visit ==
    [at : Chapters \cup {0}, page : Int, head : {"none", "item", "part", "index", "noindex"},
     body : {"none", "item", "list", "part", "count", "links", "shown", "gone"},
     links : SUBSET Chapters, more : BOOLEAN, text : BOOLEAN, quiet : BOOLEAN]
Walk ==
    [forward : BOOLEAN, from : Chapters \cup {0}, seen : SUBSET Chapters, steady : SUBSET Chapters]

ReaderTypes ==
    /\ single \in BOOLEAN /\ item \in ItemRow /\ chapter \in [Chapters -> PartRow]
    /\ publishing \subseteq Chapters /\ request \in Visit /\ walk \in Walk

\* An article loses its text only with the item; a chapter is published and deleted only
\* by a request that raced.
RowsAgree ==
    /\ single => publishing = {} /\ (chapter[1].deleted => item.deleted \/ item.restored)
    /\ ~single => \A p \in Chapters :
                    chapter[p].deleted /\ (chapter[p].published \/ p \in publishing) => chapter[p].raced

\* What the page asked for has been read of the rows, if they have not changed since.
QuietVisit ==
    /\ request.at # 0 => ~single /\ ItemShown /\ chapter[request.at].published
    /\ request.links # {} => ItemShown /\ \A p \in request.links : chapter[p].published
    /\ request.head = "part" => request.at # 0
    /\ request.head \in {"index", "noindex"} =>
          (request.head = "index") = (ItemShown /\ (request.at = 0 \/ chapter[request.at].published))
    /\ request.body \in {"list", "part", "count", "links", "shown"} => ItemShown
    /\ request.body = "shown" /\ single => request.text = ~chapter[1].deleted
    /\ request.body = "gone" => ~ItemShown \/ (request.at # 0 /\ request.at \notin Live)

VisitInv ==
    /\ (request.head = "none") = (request.body = "none")
    /\ request.body \in {"list", "count"} => request.at = 0 /\ ~single
    /\ request.body = "links" => request.at # 0
    /\ request.links # {} => ~single
    /\ request.at # 0 => ~single
    /\ request.quiet => QuietVisit

ReaderInv == ReaderTypes /\ RowsAgree /\ VisitInv

\* q lies beyond p on the side the reader walks to.
Beyond(q, p, forward) == IF forward THEN Place[q] > Place[p] ELSE Place[q] < Place[p]

WalkInv ==
    request.at # 0 =>
        /\ walk.from \in Chapters
        /\ \A p \in walk.steady : chapter[p].published
        /\ \A p \in walk.steady : Beyond(p, walk.from, walk.forward) /\ Beyond(request.at, p, walk.forward) =>
              \E q \in walk.seen : Place[q] = Place[p]
        /\ request.body # "shown" => request.links = {}
        /\ request.body = "shown" =>
              /\ request.at \in walk.seen
              /\ \A p \in walk.steady : Beyond(p, request.at, walk.forward) =>
                    request.links # {} /\ \A q \in request.links : ~Beyond(q, p, walk.forward)

LEMMA ReaderConstants ==
    1 \in Chapters /\ 0 \notin Chapters /\ Chapters \subseteq Nat /\ Place \in [Chapters -> Nat]
  BY ReaderAssumption

\* getAdjacentParts finds a chapter if there is one, and nothing lies in between.
LEMMA NearestIsFound ==
    ASSUME NEW p \in Chapters, NEW forward \in BOOLEAN
    PROVE  /\ \A q \in Beside(p, forward) : q \in Chapters /\ chapter[q].published /\ Beyond(q, p, forward)
           /\ \A s \in Chapters : chapter[s].published /\ Beyond(s, p, forward) =>
                 /\ Beside(p, forward) # {}
                 /\ \A q \in Beside(p, forward) : ~Beyond(q, s, forward)
  <1> DEFINE side == {q \in Chapters : chapter[q].published
                                      /\ IF forward THEN Place[q] > Place[p] ELSE Place[q] < Place[p]}
             far(q) == IF forward THEN Place[q] - Place[p] ELSE Place[p] - Place[q]
             fars == {far(q) : q \in side}
  <1>1. Beside(p, forward) =
          {q \in side : \A r \in side : IF forward THEN Place[q] <= Place[r] ELSE Place[q] >= Place[r]}
    BY DEF Beside
  <1>2. \A q \in Chapters : Place[q] \in Nat
    BY ReaderConstants
  <1>3. \A s \in Chapters : chapter[s].published /\ Beyond(s, p, forward) => s \in side
    BY DEF Beyond
  <1>4. \A q \in side : q \in Chapters /\ chapter[q].published /\ Beyond(q, p, forward)
    BY DEF Beyond
  <1>5. \A q \in side : far(q) \in Nat
    <2> TAKE q \in side
    <2>1. Place[q] \in Nat /\ Place[p] \in Nat /\ Beyond(q, p, forward)
      BY <1>2, <1>4
    <2> QED
      BY <2>1 DEF Beyond
  <1>6. ASSUME side # {} PROVE Beside(p, forward) # {}
    <2>1. fars \in SUBSET Nat /\ fars # {}
      <3> HIDE DEF side, far
      <3> QED
        BY <1>5, <1>6
    <2>2. PICK d \in fars : \A e \in fars : d <= e
      <3> HIDE DEF fars
      <3> QED
        BY <2>1, LeastOne
    <2>3. PICK q \in side : d = far(q)
      <3> HIDE DEF side, far
      <3> QED
        OBVIOUS
    <2>4. \A r \in side : far(q) <= far(r)
      <3> HIDE DEF side, far
      <3> QED
        BY <2>2, <2>3
    <2>5. \A r \in side : IF forward THEN Place[q] <= Place[r] ELSE Place[q] >= Place[r]
      <3> TAKE r \in side
      <3>1. far(q) <= far(r) /\ Place[q] \in Nat /\ Place[r] \in Nat /\ Place[p] \in Nat
        BY <2>4, <1>2, <1>4
      <3> HIDE DEF side
      <3> QED
        BY <3>1
    <2> HIDE DEF side
    <2> QED
      BY <2>5, <1>1
  <1>7. ASSUME NEW s \in Chapters, chapter[s].published, Beyond(s, p, forward)
        PROVE  /\ Beside(p, forward) # {}
               /\ \A q \in Beside(p, forward) : ~Beyond(q, s, forward)
    <2>1. s \in side
      BY <1>3, <1>7
    <2>2. Beside(p, forward) # {}
      <3> HIDE DEF side
      <3> QED
        BY <2>1, <1>6
    <2>3. ASSUME NEW q \in Beside(p, forward) PROVE ~Beyond(q, s, forward)
      <3> HIDE DEF side
      <3>1. q \in side /\ IF forward THEN Place[q] <= Place[s] ELSE Place[q] >= Place[s]
        BY <1>1, <2>1
      <3>2. Place[q] \in Nat /\ Place[s] \in Nat
        BY <3>1, <1>2, <1>4
      <3> QED
        BY <3>1, <3>2 DEF Beyond
    <2> QED
      BY <2>2, <2>3
  <1> HIDE DEF side
  <1> QED
    BY <1>1, <1>4, <1>7

ReaderSafe == ReaderInv /\ WalkInv

LEMMA ReaderStarts == ReaderInit => ReaderSafe
  <1> SUFFICES ASSUME ReaderInit PROVE ReaderSafe
    OBVIOUS
  <1>1. ReaderTypes
    <2>1. item \in ItemRow
      <3>1. PICK gone \in BOOLEAN :
                item = [published |-> ~gone, public |-> TRUE, deleted |-> gone, restored |-> FALSE]
        BY DEF ReaderInit
      <3>2. CASE gone = TRUE
        BY <3>1, <3>2 DEF ItemRow
      <3>3. CASE gone = FALSE
        BY <3>1, <3>3 DEF ItemRow
      <3> QED
        BY <3>2, <3>3
    <2>2. chapter \in [Chapters -> PartRow]
      BY DEF ReaderInit, PartRow
    <2>3. request \in Visit /\ walk \in Walk
      BY DEF ReaderInit, NoRequest, NoWalk, Visit, Walk
    <2> QED
      BY <2>1, <2>2, <2>3 DEF ReaderInit, ReaderTypes
  <1>2. RowsAgree
    BY ReaderConstants DEF ReaderInit, RowsAgree
  <1>3. VisitInv /\ WalkInv
    BY DEF ReaderInit, NoRequest, VisitInv, QuietVisit, WalkInv
  <1> QED
    BY <1>1, <1>2, <1>3 DEF ReaderSafe, ReaderInv

\* generateMetadata
LEMMA HeadKeeps ==
    ASSUME ReaderSafe, HeadOfItem \/ HeadReadsItem \/ HeadOfPart
    PROVE  ReaderSafe'
  <1>1. PICK robots \in {"item", "part", "index", "noindex"} :
            /\ HeadIs(robots) /\ request.head \in {"item", "part"}
            /\ robots = "part" => request.at # 0
            /\ robots # "item"
            /\ robots \in {"index", "noindex"} /\ request.quiet =>
                  (robots = "index") = (ItemShown /\ (request.at = 0 \/ chapter[request.at].published))
    <2>1. CASE HeadOfItem
      BY <2>1 DEF HeadOfItem
    <2>2. CASE HeadReadsItem
      BY <2>2 DEF HeadReadsItem, ReaderSafe, ReaderInv, VisitInv, QuietVisit, ItemShown
    <2>3. CASE HeadOfPart
      BY <2>3 DEF HeadOfPart, ReaderSafe, ReaderInv, VisitInv, QuietVisit
    <2> QED
      BY <2>1, <2>2, <2>3
  <1>2. /\ request' = [request EXCEPT !.head = robots]
        /\ UNCHANGED <<single, item, chapter, publishing, edits, walk>>
    BY <1>1 DEF HeadIs, readerRows
  <1>3. /\ request' \in Visit /\ request'.head = robots /\ request'.body = request.body
        /\ request'.at = request.at /\ request'.links = request.links
        /\ request'.quiet = request.quiet /\ request'.text = request.text
    BY <1>2 DEF ReaderSafe, ReaderInv, ReaderTypes, Visit
  <1>4. ReaderTypes' /\ RowsAgree'
    BY <1>2, <1>3 DEF ReaderSafe, ReaderInv, ReaderTypes, RowsAgree
  <1>5. ItemShown' = ItemShown /\ Live' = Live
    BY <1>2 DEF ItemShown, Indexable, Live
  <1>6. VisitInv'
    BY <1>1, <1>2, <1>3, <1>5 DEF ReaderSafe, ReaderInv, VisitInv, QuietVisit
  <1>7. WalkInv'
    BY <1>2, <1>3 DEF ReaderSafe, WalkInv
  <1> QED
    BY <1>4, <1>6, <1>7 DEF ReaderSafe, ReaderInv

\* The steps of the pages before they are shown, none of which leads a walk onward.
LEMMA BodyKeeps ==
    ASSUME ReaderSafe, LoadItem \/ LoadPart
    PROVE  ReaderSafe'
  <1>1. PICK step \in {"gone", "list", "part", "links"} :
            /\ Body(step) /\ request.body \in {"item", "part"}
            /\ step = "list" => request.at = 0 /\ ~single
            /\ step = "part" /\ request.at = 0 => single
            /\ step = "links" => request.at # 0
            /\ request.quiet =>
                  /\ step # "gone" => ItemShown
                  /\ step = "gone" => ~ItemShown \/ (request.at # 0 /\ request.at \notin Live)
    <2>1. CASE LoadItem
      BY <2>1 DEF LoadItem
    <2>2. CASE LoadPart
      BY <2>2 DEF LoadPart, ReaderSafe, ReaderInv, VisitInv, QuietVisit
    <2> QED
      BY <2>1, <2>2
  <1>2. /\ request' = [request EXCEPT !.body = step]
        /\ UNCHANGED <<single, item, chapter, publishing, edits, walk>>
    BY <1>1 DEF Body, readerRows
  <1>3. /\ request' \in Visit /\ request'.head = request.head /\ request'.body = step
        /\ request'.at = request.at /\ request'.links = request.links
        /\ request'.quiet = request.quiet /\ request'.text = request.text
    BY <1>2 DEF ReaderSafe, ReaderInv, ReaderTypes, Visit
  <1>4. ReaderTypes' /\ RowsAgree'
    BY <1>2, <1>3 DEF ReaderSafe, ReaderInv, ReaderTypes, RowsAgree
  <1>5. ItemShown' = ItemShown /\ Live' = Live
    BY <1>2 DEF ItemShown, Indexable, Live
  <1>6. VisitInv'
    BY <1>1, <1>2, <1>3, <1>5 DEF ReaderSafe, ReaderInv, VisitInv, QuietVisit
  <1>7. WalkInv'
    BY <1>1, <1>2, <1>3 DEF ReaderSafe, WalkInv
  <1> QED
    BY <1>4, <1>6, <1>7 DEF ReaderSafe, ReaderInv

\* The page of the item
LEMMA ItemPageKeeps ==
    ASSUME ReaderSafe, ShowArticle \/ ListChapters \/ CountChapters
    PROVE  ReaderSafe'
  <1> USE DEF ReaderSafe, ReaderInv
  <1>1. /\ request.at = 0 /\ request.body \notin {"none", "item", "shown", "gone"}
        /\ UNCHANGED <<single, item, chapter, publishing, edits, walk>>
        /\ ItemShown' = ItemShown /\ Live' = Live
    BY DEF ShowArticle, ListChapters, CountChapters, VisitInv, readerRows, ItemShown, Indexable, Live
  <1>2. /\ request' \in Visit /\ request'.head = request.head /\ request'.at = 0
        /\ request'.quiet = request.quiet
        /\ \/ /\ request'.body = "shown" /\ request'.links = request.links
              /\ request.body = "part" /\ request'.text = ~chapter[1].deleted
           \/ /\ request'.body = "shown" /\ request'.links = request.links /\ request.body = "count"
           \/ /\ request'.body = "count" /\ request'.links \subseteq Live /\ request.body = "list"
    <2>1. CASE ShowArticle
      <3>1. chapter[1].deleted \in BOOLEAN
        BY ReaderConstants DEF ReaderTypes, PartRow
      <3> QED
        BY <2>1, <3>1, <1>1 DEF ShowArticle, ReaderTypes, Visit
    <2>2. CASE ListChapters
      <3>1. PICK order \in SetToSeqs(Live) :
                request' = [request EXCEPT !.body = "count",
                              !.links = {order[k] : k \in {n \in DOMAIN order : InPage(n, request.page)}}]
        BY <2>2 DEF ListChapters
      <3>2. order \in [1..Cardinality(Live) -> Live]
        BY DEF SetToSeqs
      <3> DEFINE links == {order[k] : k \in {n \in DOMAIN order : InPage(n, request.page)}}
      <3>3. links \subseteq Live /\ Live \subseteq Chapters
        BY <3>2 DEF Live
      <3>4. request' = [request EXCEPT !.body = "count", !.links = links] /\ request.body = "list"
        BY <3>1, <2>2 DEF ListChapters
      <3> HIDE DEF links
      <3> QED
        BY <3>3, <3>4, <1>1 DEF ReaderTypes, Visit
    <2>3. CASE CountChapters
      <3> DEFINE more == request.page < Pages(Cardinality(Live))
      <3>1. more \in BOOLEAN
        OBVIOUS
      <3>2. request' = [request EXCEPT !.body = "shown", !.more = more] /\ request.body = "count"
        BY <2>3 DEF CountChapters
      <3> HIDE DEF more
      <3> QED
        BY <3>1, <3>2, <1>1 DEF ReaderTypes, Visit
    <2> QED
      BY <2>1, <2>2, <2>3
  <1>3. ReaderTypes' /\ RowsAgree'
    BY <1>1, <1>2 DEF ReaderTypes, RowsAgree
  <1>4. VisitInv'
    BY <1>1, <1>2 DEF VisitInv, QuietVisit, Live
  <1>5. WalkInv'
    BY <1>1, <1>2 DEF WalkInv
  <1> QED
    BY <1>3, <1>4, <1>5

\* A chapter is shown, with the link to the nearest one onward.
LEMMA ShowPartKeeps ==
    ASSUME ReaderSafe, ShowPart
    PROVE  ReaderSafe'
  <1> USE DEF ReaderSafe, ReaderInv
  <1> DEFINE next == Beside(request.at, walk.forward)
  <1>1. /\ request.body = "links" /\ request.at # 0 /\ request.at \in Chapters /\ ~single
        /\ request.links = {} /\ walk.forward \in BOOLEAN
    BY DEF ShowPart, VisitInv, WalkInv, ReaderTypes, Visit, Walk
  <1>2. /\ UNCHANGED <<single, item, chapter, publishing, edits>>
        /\ ItemShown' = ItemShown /\ Live' = Live
        /\ walk' = [walk EXCEPT !.seen = @ \cup {request.at}]
    BY DEF ShowPart, readerRows, ItemShown, Indexable, Live
  <1>3. /\ \A q \in next : q \in Chapters /\ chapter[q].published
        /\ \A s \in Chapters : chapter[s].published /\ Beyond(s, request.at, walk.forward) =>
              next # {} /\ \A q \in next : ~Beyond(q, s, walk.forward)
    BY <1>1, NearestIsFound
  <1>4. PICK links : /\ request' = [request EXCEPT !.body = "shown", !.links = links]
                     /\ links \subseteq next /\ (next # {} => links # {})
    <2> HIDE DEF next
    <2>1. CASE next = {}
      <3>1. request' = [request EXCEPT !.body = "shown", !.links = {}]
        BY <2>1, <1>1 DEF ShowPart, next, ReaderTypes, Visit
      <3> QED
        BY <2>1, <3>1
    <2>2. CASE next # {}
      <3>1. PICK q \in next : request' = [request EXCEPT !.body = "shown", !.links = {q}]
        BY <2>2 DEF ShowPart, next
      <3>2. {q} \subseteq next /\ {q} # {}
        OBVIOUS
      <3> QED
        BY <3>1, <3>2
    <2> QED
      BY <2>1, <2>2
  <1> HIDE DEF next
  <1>5. /\ request' \in Visit /\ request'.head = request.head /\ request'.body = "shown"
        /\ request'.at = request.at /\ request'.links = links /\ links \subseteq Chapters
        /\ request'.quiet = request.quiet
    BY <1>3, <1>4 DEF ReaderTypes, Visit
  <1>6. /\ walk' \in Walk /\ walk'.forward = walk.forward /\ walk'.from = walk.from
        /\ walk'.seen = walk.seen \cup {request.at} /\ walk'.steady = walk.steady
    BY <1>1, <1>2 DEF ReaderTypes, Walk
  <1>7. ReaderTypes' /\ RowsAgree'
    BY <1>2, <1>5, <1>6 DEF ReaderTypes, RowsAgree
  <1>8. VisitInv'
    BY <1>1, <1>2, <1>3, <1>4, <1>5 DEF VisitInv, QuietVisit
  <1>9. WalkInv'
    <2>1. \A p \in walk.steady : Beyond(p, request.at, walk.forward) =>
              links # {} /\ \A q \in links : ~Beyond(q, p, walk.forward)
      BY <1>1, <1>3, <1>4 DEF WalkInv, ReaderTypes, Walk
    <2>2. /\ walk.from \in Chapters /\ \A p \in walk.steady : chapter[p].published
          /\ \A p \in walk.steady : Beyond(p, walk.from, walk.forward) /\ Beyond(request.at, p, walk.forward) =>
                \E q \in walk.seen : Place[q] = Place[p]
      BY <1>1 DEF WalkInv
    <2>3. /\ walk'.from \in Chapters /\ \A p \in walk'.steady : chapter'[p].published
          /\ \A p \in walk'.steady : Beyond(p, walk'.from, walk'.forward) /\ Beyond(request'.at, p, walk'.forward) =>
                \E q \in walk'.seen : Place[q] = Place[p]
      BY <2>2, <1>2, <1>5, <1>6
    <2>4. /\ request'.at \in walk'.seen
          /\ \A p \in walk'.steady : Beyond(p, request'.at, walk'.forward) =>
                request'.links # {} /\ \A q \in request'.links : ~Beyond(q, p, walk'.forward)
      BY <2>1, <1>5, <1>6
    <2> QED
      BY <2>3, <2>4, <1>5 DEF WalkInv, Beyond
  <1> QED
    BY <1>7, <1>8, <1>9

\* The reader follows a link to the item or to a chapter of the list, or turns the list.
LEMMA AskedFor ==
    ASSUME ReaderSafe, NEW at \in Chapters \cup {0}, NEW page \in Int, NEW quiet \in BOOLEAN,
           Ask(at, page, quiet), UNCHANGED readerRows
    PROVE  /\ request' \in Visit /\ request'.at = at /\ request'.head = "item" /\ request'.body = "item"
           /\ request'.links = {} /\ request'.quiet = quiet
           /\ (at # 0 => ~single /\ (quiet => ItemShown /\ chapter[at].published)) => VisitInv'
  <1>1. request' = [at |-> at, page |-> page, head |-> "item", body |-> "item", links |-> {},
                    more |-> FALSE, text |-> FALSE, quiet |-> quiet]
    BY DEF Ask, NoRequest
  <1>2. /\ request' \in Visit /\ request'.at = at /\ request'.head = "item" /\ request'.body = "item"
        /\ request'.links = {} /\ request'.quiet = quiet
    BY <1>1 DEF Visit
  <1>3. ASSUME at # 0 => ~single /\ (quiet => ItemShown /\ chapter[at].published) PROVE VisitInv'
    <2>1. ItemShown' = ItemShown /\ chapter' = chapter /\ single' = single
      BY DEF readerRows, ItemShown, Indexable
    <2> QED
      BY <1>2, <1>3, <2>1 DEF VisitInv, QuietVisit
  <1> QED
    BY <1>2, <1>3

LEMMA OpenKeeps ==
    ASSUME ReaderSafe, OpenItem \/ TurnList \/ OpenChapter
    PROVE  ReaderSafe'
  <1> USE DEF ReaderSafe, ReaderInv
  <1>1. CASE OpenItem \/ TurnList
    <2>1. PICK page \in Int, quiet \in BOOLEAN : Ask(0, page, quiet) /\ UNCHANGED readerRows
      <3>1. CASE OpenItem
        <4>1. Ask(0, 1, TRUE) /\ UNCHANGED readerRows
          BY <3>1 DEF OpenItem
        <4>2. 1 \in Int /\ TRUE \in BOOLEAN
          OBVIOUS
        <4> QED
          BY <4>1, <4>2, Zenon
      <3>2. CASE TurnList
        <4>1. Ask(0, request.page + 1, request.quiet) /\ UNCHANGED readerRows
          BY <3>2 DEF TurnList
        <4>2. request.page + 1 \in Int /\ request.quiet \in BOOLEAN
          BY DEF ReaderTypes, Visit
        <4> QED
          BY <4>1, <4>2
      <3> QED
        BY <1>1, <3>1, <3>2
    <2>2. request' \in Visit /\ request'.at = 0 /\ VisitInv'
      BY <2>1, AskedFor
    <2>3. walk' \in Walk
      <3>1. NoWalk \in Walk /\ walk \in Walk
        BY DEF ReaderTypes, NoWalk, Walk
      <3> QED
        BY <1>1, <3>1 DEF OpenItem, TurnList
    <2>4. ReaderTypes' /\ RowsAgree'
      BY <2>1, <2>2, <2>3 DEF ReaderTypes, RowsAgree, readerRows
    <2> QED
      BY <2>2, <2>4 DEF WalkInv
  <1>2. CASE OpenChapter
    <2>1. PICK p \in request.links, forward \in BOOLEAN :
              /\ Ask(p, 1, request.quiet)
              /\ walk' = [forward |-> forward, from |-> p, seen |-> {}, steady |-> Live]
      BY <1>2 DEF OpenChapter
    <2>2. /\ UNCHANGED <<single, item, chapter, publishing, edits>> /\ UNCHANGED readerRows
          /\ request.quiet \in BOOLEAN /\ p \in Chapters /\ Live \subseteq Chapters
      BY <1>2 DEF OpenChapter, readerRows, ReaderTypes, Visit, Live
    <2>3. p # 0 => ~single /\ (request.quiet => ItemShown /\ chapter[p].published)
      BY DEF VisitInv, QuietVisit
    <2>4. request' \in Visit /\ request'.at = p /\ request'.body = "item" /\ request'.links = {} /\ VisitInv'
      BY <2>1, <2>2, <2>3, AskedFor
    <2>5. /\ walk' \in Walk /\ walk'.forward = forward /\ walk'.from = p /\ walk'.steady = Live
      BY <2>1, <2>2 DEF Walk
    <2>6. ReaderTypes' /\ RowsAgree'
      BY <2>2, <2>4, <2>5 DEF ReaderTypes, RowsAgree
    <2>7. WalkInv'
      <3>1. \A q \in Live : /\ chapter[q].published
                            /\ ~(Beyond(q, p, forward) /\ Beyond(p, q, forward))
        BY <2>2, ReaderConstants DEF Live, Beyond
      <3>2. \A q \in walk'.steady : chapter'[q].published
        BY <3>1, <2>2, <2>5
      <3>3. \A q \in walk'.steady : ~(Beyond(q, walk'.from, walk'.forward) /\ Beyond(request'.at, q, walk'.forward))
        BY <3>1, <2>4, <2>5
      <3> QED
        BY <3>2, <3>3, <2>2, <2>4, <2>5 DEF WalkInv, Beyond
    <2> QED
      BY <2>4, <2>6, <2>7
  <1> QED
    BY <1>1, <1>2

\* The link onward passes over no chapter of the walk.
LEMMA FollowKeeps ==
    ASSUME ReaderSafe, FollowLink
    PROVE  ReaderSafe'
  <1> USE DEF ReaderSafe, ReaderInv
  <1>1. PICK q \in request.links : Ask(q, 1, request.quiet)
    BY DEF FollowLink
  <1>2. /\ UNCHANGED <<single, item, chapter, publishing, edits, walk>> /\ UNCHANGED readerRows
        /\ request.quiet \in BOOLEAN /\ q \in Chapters /\ request.at \in Chapters
        /\ request.at # 0 /\ request.body = "shown"
    BY DEF FollowLink, Arrived, readerRows, ReaderTypes, Visit, WalkInv
  <1>3. q # 0 => ~single /\ (request.quiet => ItemShown /\ chapter[q].published)
    BY DEF VisitInv, QuietVisit
  <1>4. request' \in Visit /\ request'.at = q /\ request'.body = "item" /\ request'.links = {} /\ VisitInv'
    BY <1>1, <1>2, <1>3, AskedFor
  <1>5. ReaderTypes' /\ RowsAgree'
    BY <1>2, <1>4 DEF ReaderTypes, RowsAgree
  <1>6. WalkInv'
    <2>1. ASSUME NEW p \in walk.steady, Beyond(p, walk.from, walk.forward), Beyond(q, p, walk.forward)
          PROVE  \E r \in walk.seen : Place[r] = Place[p]
      <3>1. ~Beyond(p, request.at, walk.forward)
        BY <1>2, <2>1 DEF WalkInv
      <3>2. Place[p] \in Nat /\ Place[request.at] \in Nat
        BY <1>2, ReaderConstants DEF ReaderTypes, Walk
      <3>3. CASE Place[p] = Place[request.at]
        BY <1>2, <3>3 DEF WalkInv
      <3>4. CASE Beyond(request.at, p, walk.forward)
        BY <1>2, <2>1, <3>4 DEF WalkInv
      <3> QED
        BY <3>1, <3>2, <3>3, <3>4 DEF Beyond
    <2>2. walk.from \in Chapters /\ \A p \in walk.steady : chapter[p].published
      BY <1>2 DEF WalkInv
    <2>3. \A p \in walk'.steady : Beyond(p, walk'.from, walk'.forward) /\ Beyond(request'.at, p, walk'.forward) =>
              \E r \in walk'.seen : Place[r] = Place[p]
      BY <2>1, <1>2, <1>4
    <2> QED
      BY <2>2, <2>3, <1>2, <1>4 DEF WalkInv, Beyond
  <1> QED
    BY <1>4, <1>5, <1>6

\* A change of the rows ends the quiet of a visit, and the walk forgets the chapters that
\* are no longer there.
LEMMA EditKeeps ==
    ASSUME ReaderSafe, NEW newItem \in ItemRow, NEW newChapter \in [Chapters -> PartRow],
           Edit(newItem, newChapter), publishing' \subseteq Chapters, RowsAgree'
    PROVE  ReaderSafe'
  <1> USE DEF ReaderSafe, ReaderInv
  <1>1. /\ item' = newItem /\ chapter' = newChapter /\ single' = single
        /\ request' = [request EXCEPT !.quiet = FALSE]
        /\ walk' = [walk EXCEPT !.steady = {p \in @ : newChapter[p].published /\ ~newChapter[p].deleted}]
    BY DEF Edit
  <1>2. /\ request' \in Visit /\ request'.at = request.at /\ request'.head = request.head
        /\ request'.body = request.body /\ request'.links = request.links /\ ~request'.quiet
    BY <1>1 DEF ReaderTypes, Visit
  <1>3. /\ walk' \in Walk /\ walk'.forward = walk.forward /\ walk'.from = walk.from
        /\ walk'.seen = walk.seen /\ walk'.steady \subseteq walk.steady
        /\ \A p \in walk'.steady : newChapter[p].published
    BY <1>1 DEF ReaderTypes, Walk
  <1>4. ReaderTypes'
    BY <1>1, <1>2, <1>3 DEF ReaderTypes
  <1>5. VisitInv'
    BY <1>1, <1>2 DEF VisitInv
  <1>6. WalkInv'
    BY <1>1, <1>2, <1>3 DEF WalkInv, Beyond
  <1> QED
    BY <1>4, <1>5, <1>6

LEMMA EditItemKeeps ==
    ASSUME ReaderSafe, EditItem
    PROVE  ReaderSafe'
  <1> USE DEF ReaderSafe, ReaderInv
  <1>1. /\ item \in ItemRow /\ chapter \in [Chapters -> PartRow] /\ publishing' = publishing
        /\ publishing \subseteq Chapters /\ single \in BOOLEAN
        /\ 1 \in Chapters /\ chapter[1].deleted \in BOOLEAN
    BY ReaderConstants DEF EditItem, ReaderTypes, PartRow
  <1>2. PICK newItem \in ItemRow, newChapter \in [Chapters -> PartRow] :
            /\ Edit(newItem, newChapter)
            /\ single /\ newChapter[1].deleted => newItem.deleted \/ newItem.restored
            /\ ~single => newChapter = chapter
    <2>1. \A published, deleted \in BOOLEAN :
              /\ WithPart(published, deleted) \in [Chapters -> PartRow]
              /\ single => WithPart(published, deleted)[1].deleted = deleted
              /\ ~single => WithPart(published, deleted) = chapter
      <3> TAKE published, deleted \in BOOLEAN
      <3> DEFINE r == [chapter[1] EXCEPT !.published = published, !.deleted = deleted]
      <3>1. r \in PartRow /\ r.deleted = deleted
        BY <1>1 DEF PartRow
      <3>2. WithPart(published, deleted) = IF single THEN [chapter EXCEPT ![1] = r] ELSE chapter
        BY DEF WithPart
      <3> HIDE DEF r
      <3> QED
        BY <1>1, <3>1, <3>2
    <2>2. single => (chapter[1].deleted => item.deleted \/ item.restored)
      BY DEF RowsAgree
    <2>3. CASE ~item.deleted /\ Edit([item EXCEPT !.published = TRUE, !.public = TRUE],
                                     WithPart(TRUE, chapter[1].deleted))
      <3> DEFINE new == [item EXCEPT !.published = TRUE, !.public = TRUE]
      <3>1. new \in ItemRow /\ new.deleted = item.deleted /\ new.restored = item.restored
        BY <1>1 DEF ItemRow
      <3> HIDE DEF new
      <3> QED
        BY <1>1, <2>1, <2>2, <2>3, <3>1 DEF new
    <2>4. CASE ~item.deleted /\ Edit([item EXCEPT !.published = FALSE], WithPart(FALSE, chapter[1].deleted))
      <3> DEFINE new == [item EXCEPT !.published = FALSE]
      <3>1. new \in ItemRow /\ new.deleted = item.deleted /\ new.restored = item.restored
        BY <1>1 DEF ItemRow
      <3> HIDE DEF new
      <3> QED
        BY <1>1, <2>1, <2>2, <2>4, <3>1 DEF new
    <2>5. CASE ~item.deleted /\ Edit([item EXCEPT !.published = FALSE, !.deleted = TRUE], WithPart(FALSE, TRUE))
      <3> DEFINE new == [item EXCEPT !.published = FALSE, !.deleted = TRUE]
      <3>1. new \in ItemRow /\ new.deleted
        BY <1>1 DEF ItemRow
      <3> HIDE DEF new
      <3> QED
        BY <1>1, <2>1, <2>5, <3>1 DEF new
    <2>6. CASE ~item.deleted /\ \E v \in BOOLEAN : Edit([item EXCEPT !.public = v], chapter)
      <3>1. PICK v \in BOOLEAN : Edit([item EXCEPT !.public = v], chapter)
        BY <2>6
      <3> DEFINE new == [item EXCEPT !.public = v]
      <3>2. new \in ItemRow /\ new.deleted = item.deleted /\ new.restored = item.restored
        BY <1>1 DEF ItemRow
      <3> HIDE DEF new
      <3> QED
        BY <1>1, <2>2, <3>1, <3>2 DEF new
    <2> QED
      BY <2>3, <2>4, <2>5, <2>6 DEF EditItem
  <1>3. RowsAgree'
    <2>1. item' = newItem /\ chapter' = newChapter /\ single' = single
      BY <1>2 DEF Edit
    <2> QED
      BY <1>1, <1>2, <2>1 DEF RowsAgree
  <1> QED
    BY <1>1, <1>2, <1>3, EditKeeps

LEMMA ModerateItemKeeps ==
    ASSUME ReaderSafe, ModerateItem
    PROVE  ReaderSafe'
  <1> USE DEF ReaderSafe, ReaderInv
  <1>1. /\ item \in ItemRow /\ chapter \in [Chapters -> PartRow] /\ publishing' = publishing
        /\ publishing \subseteq Chapters
    BY DEF ModerateItem, ReaderTypes
  <1>2. PICK newItem \in ItemRow :
            /\ Edit(newItem, chapter)
            /\ item.deleted \/ item.restored => newItem.deleted \/ newItem.restored
    <2>1. CASE Edit([item EXCEPT !.published = TRUE], chapter)
      <3> DEFINE new == [item EXCEPT !.published = TRUE]
      <3>1. new \in ItemRow /\ new.deleted = item.deleted /\ new.restored = item.restored
        BY <1>1 DEF ItemRow
      <3> HIDE DEF new
      <3> QED
        BY <2>1, <3>1 DEF new
    <2>2. CASE Edit([item EXCEPT !.published = FALSE], chapter)
      <3> DEFINE new == [item EXCEPT !.published = FALSE]
      <3>1. new \in ItemRow /\ new.deleted = item.deleted /\ new.restored = item.restored
        BY <1>1 DEF ItemRow
      <3> HIDE DEF new
      <3> QED
        BY <2>2, <3>1 DEF new
    <2>3. CASE Edit([item EXCEPT !.published = FALSE, !.deleted = TRUE], chapter)
      <3> DEFINE new == [item EXCEPT !.published = FALSE, !.deleted = TRUE]
      <3>1. new \in ItemRow /\ new.deleted
        BY <1>1 DEF ItemRow
      <3> HIDE DEF new
      <3> QED
        BY <2>3, <3>1 DEF new
    <2>4. CASE Edit([item EXCEPT !.deleted = FALSE, !.restored = TRUE], chapter)
      <3> DEFINE new == [item EXCEPT !.deleted = FALSE, !.restored = TRUE]
      <3>1. new \in ItemRow /\ new.restored
        BY <1>1 DEF ItemRow
      <3> HIDE DEF new
      <3> QED
        BY <2>4, <3>1 DEF new
    <2> QED
      BY <2>1, <2>2, <2>3, <2>4 DEF ModerateItem
  <1>3. RowsAgree'
    <2>1. item' = newItem /\ chapter' = chapter /\ single' = single
      BY <1>2 DEF Edit
    <2> QED
      BY <1>1, <1>2, <2>1 DEF RowsAgree
  <1> QED
    BY <1>1, <1>2, <1>3, EditKeeps

\* The chapters of a story: a publish request that is past its check publishes what may have been
\* deleted since, and such a chapter is marked.
LEMMA ChapterKeeps ==
    ASSUME ReaderSafe, NEW p \in Chapters, PublishChapter(p) \/ UnpublishChapter(p) \/ DeleteChapter(p)
    PROVE  ReaderSafe'
  <1> USE DEF ReaderSafe, ReaderInv
  <1>1. /\ item \in ItemRow /\ chapter \in [Chapters -> PartRow] /\ publishing \subseteq Chapters
        /\ publishing' \subseteq publishing /\ ~single
    BY DEF PublishChapter, UnpublishChapter, DeleteChapter, ReaderTypes, RowsAgree
  <1>2. PICK r \in PartRow :
            /\ Edit(item, [chapter EXCEPT ![p] = r])
            /\ r.deleted /\ (r.published \/ p \in publishing') => r.raced
    <2>1. CASE PublishChapter(p)
      <3> DEFINE r == [chapter[p] EXCEPT !.published = TRUE]
      <3>1. /\ r \in PartRow /\ r.deleted = chapter[p].deleted /\ r.raced = chapter[p].raced
        BY <1>1 DEF PartRow
      <3>2. Edit(item, [chapter EXCEPT ![p] = r]) /\ p \in publishing
        BY <2>1 DEF PublishChapter
      <3>3. chapter[p].deleted => chapter[p].raced
        BY <1>1, <3>2 DEF RowsAgree
      <3> HIDE DEF r
      <3> QED
        BY <3>1, <3>2, <3>3
    <2>2. CASE UnpublishChapter(p)
      <3> DEFINE r == [chapter[p] EXCEPT !.published = FALSE]
      <3>1. /\ r \in PartRow /\ ~r.deleted
        BY <1>1, <2>2 DEF PartRow, UnpublishChapter
      <3>2. Edit(item, [chapter EXCEPT ![p] = r])
        BY <2>2 DEF UnpublishChapter
      <3> HIDE DEF r
      <3> QED
        BY <3>1, <3>2
    <2>3. CASE DeleteChapter(p)
      <3> DEFINE raced == p \in publishing
                 r == [published |-> FALSE, deleted |-> TRUE, raced |-> raced]
      <3>1. /\ r \in PartRow /\ ~r.published /\ r.raced = raced
        BY DEF PartRow
      <3>2. Edit(item, [chapter EXCEPT ![p] = r]) /\ publishing' = publishing
        BY <2>3 DEF DeleteChapter
      <3>3. p \in publishing' => r.raced
        BY <3>1, <3>2
      <3> HIDE DEF r
      <3> QED
        BY <3>1, <3>2, <3>3
    <2> QED
      BY <2>1, <2>2, <2>3
  <1>3. [chapter EXCEPT ![p] = r] \in [Chapters -> PartRow]
    BY <1>1
  <1>4. RowsAgree'
    <2>1. item' = item /\ chapter' = [chapter EXCEPT ![p] = r] /\ single' = single
      BY <1>2 DEF Edit
    <2>2. \A q \in Chapters : chapter'[q] = IF q = p THEN r ELSE chapter[q]
      BY <1>1, <2>1
    <2> QED
      BY <1>1, <1>2, <2>1, <2>2 DEF RowsAgree
  <1> QED
    BY <1>1, <1>2, <1>3, <1>4, EditKeeps

LEMMA CheckKeeps ==
    ASSUME ReaderSafe, NEW p \in Chapters, CheckChapter(p)
    PROVE  ReaderSafe'
  <1> USE DEF ReaderSafe, ReaderInv
  <1>1. /\ UNCHANGED <<single, item, chapter, request, walk>> /\ publishing' = publishing \cup {p}
        /\ ~single /\ ~chapter[p].deleted
    BY DEF CheckChapter
  <1>2. ReaderTypes' /\ RowsAgree'
    BY <1>1 DEF ReaderTypes, RowsAgree
  <1>3. VisitInv'
    BY <1>1 DEF VisitInv, QuietVisit, ItemShown, Indexable, Live
  <1>4. WalkInv'
    BY <1>1 DEF WalkInv, Beyond
  <1> QED
    BY <1>2, <1>3, <1>4

LEMMA ReaderKeeps == ReaderSafe /\ [ReaderNext]_readerVars => ReaderSafe'
  <1> SUFFICES ASSUME ReaderSafe, [ReaderNext]_readerVars PROVE ReaderSafe'
    OBVIOUS
  <1>1. CASE UNCHANGED readerVars
    <2>1. UNCHANGED <<single, item, chapter, publishing, request, walk>>
      BY <1>1 DEF readerVars, readerRows
    <2> QED
      BY <2>1 DEF ReaderSafe, ReaderInv, ReaderTypes, RowsAgree, VisitInv, QuietVisit, WalkInv, ItemShown,
                  Indexable, Live, Beyond
  <1>2. CASE ReaderNext
    BY <1>2, HeadKeeps, BodyKeeps, ItemPageKeeps, ShowPartKeeps, OpenKeeps, FollowKeeps, EditItemKeeps,
       ModerateItemKeeps, ChapterKeeps, CheckKeeps DEF ReaderNext
  <1> QED
    BY <1>1, <1>2

LEMMA ReaderInvariant == ReaderSpec => []ReaderSafe
  BY ReaderStarts, ReaderKeeps, PTL DEF ReaderSpec

\* generateMetadata and the page itself, each of which reads the rows on its own: as long as nothing
\* changes, what they say of the item and of its chapters agrees, on every page of a visit.
THEOREM PagesSayTheSame == ReaderSpec => []PagesAgree
  <1>1. ReaderSafe => PagesAgree
    <2> SUFFICES ASSUME ReaderSafe, Arrived, request.quiet
                 PROVE  /\ request.body = "shown" => request.head = "index"
                        /\ request.body = "shown" /\ single => request.text \/ item.restored
                        /\ request.body = "gone" =>
                             IF request.at = 0 THEN request.head = "noindex" ELSE chapter[request.at].raced
      BY DEF PagesAgree
    <2>1. /\ QuietVisit /\ RowsAgree /\ request.at \in Chapters \cup {0}
          /\ (request.head = "none") = (request.body = "none")
          /\ request.at # 0 => ~single
      BY DEF ReaderSafe, ReaderInv, ReaderTypes, Visit, VisitInv
    <2>2. request.body # "none" => request.head \in {"index", "noindex"}
      BY <2>1 DEF Arrived
    <2>3. request.body = "shown" => request.head = "index"
      BY <2>1, <2>2 DEF QuietVisit
    <2>4. request.body = "shown" /\ single => request.text \/ item.restored
      BY <2>1 DEF QuietVisit, RowsAgree, ItemShown
    <2>5. request.body = "gone" /\ request.at = 0 => request.head = "noindex"
      BY <2>1, <2>2 DEF QuietVisit
    <2>6. request.body = "gone" /\ request.at # 0 => chapter[request.at].raced
      BY <2>1 DEF QuietVisit, RowsAgree, Live
    <2> QED
      BY <2>3, <2>4, <2>5, <2>6
  <1> QED
    BY <1>1, ReaderInvariant, PTL

\* getAdjacentParts: following the links onward (or back) to the last one, a reader passes over no
\* chapter that was there all along, whatever is published, hidden and deleted on the way.
THEOREM WalkPassesNoChapter == ReaderSpec => []WalkComplete
  <1>1. ReaderSafe => WalkComplete
    <2> SUFFICES ASSUME ReaderSafe, request.at # 0, request.body = "shown", request.links = {},
                        NEW p \in walk.steady,
                        IF walk.forward THEN Place[p] > Place[walk.from] ELSE Place[p] < Place[walk.from]
                 PROVE  \E q \in walk.seen : Place[q] = Place[p]
      BY DEF WalkComplete
    <2>1. /\ Beyond(p, walk.from, walk.forward) /\ ~Beyond(p, request.at, walk.forward)
          /\ request.at \in walk.seen
          /\ Beyond(request.at, p, walk.forward) => \E q \in walk.seen : Place[q] = Place[p]
      BY DEF ReaderSafe, WalkInv, Beyond
    <2>2. Place[p] \in Nat /\ Place[request.at] \in Nat
      BY ReaderConstants DEF ReaderSafe, ReaderInv, ReaderTypes, Visit, Walk
    <2> QED
      BY <2>1, <2>2 DEF Beyond
  <1> QED
    BY <1>1, ReaderInvariant, PTL

-----------------------------------------------------------------------------
(***************************************************************************)
(* Public lists                                                            *)
(***************************************************************************)

Sightings ==
    [of : {"none", "sitemap", "list"}, step : {"done", "items", "count"}, page : Nat, last : Nat,
     seen : SUBSET Items, steady : SUBSET Items, changes : Nat]

\* Where item i stands in a list by id, and in one by date.
ByIdAt(ids, i) == Cardinality({j \in ids : j <= i})
ByDateAt(list, i) == CHOOSE k \in DOMAIN list : list[k] = i
StandsAt(i) == IF visit.of = "sitemap" THEN ByIdAt(Visible, i) ELSE ByDateAt(recent, i)

\* What stands where the visit has been and was not seen, and what stands beyond the last page the
\* crawler knows of.
Behind == IF visit.step = "count" THEN visit.page * PageSize ELSE (visit.page - 1) * PageSize
Passed == {i \in visit.steady \ visit.seen : StandsAt(i) <= Behind}
Ahead  == IF visit.of = "sitemap" THEN {i \in visit.steady : StandsAt(i) > visit.last * PageSize} ELSE {}

ListTypes ==
    /\ recent \in Seq(Items) /\ \A j, k \in DOMAIN recent : recent[j] = recent[k] => j = k
    /\ visit \in Sightings

VisitFits ==
    Underway =>
        /\ visit.of # "none" /\ visit.page > 0 /\ visit.steady \subseteq Visible
        /\ visit.step = "count" => visit.of = "list"
        /\ visit.of = "sitemap" => visit.page <= visit.last
        /\ Cardinality(Passed) + Cardinality(Ahead) <= visit.changes

ListInv == ListTypes /\ VisitFits /\ FewMissed

LEMMA ListConstants == MaxItems \in Nat /\ PageSize \in Nat /\ PageSize > 0
  BY ListAssumption

LEMMA ItemsFinite ==
    ASSUME NEW S \in SUBSET Items
    PROVE  IsFiniteSet(S) /\ Cardinality(S) \in Nat
  <1>1. IsFiniteSet(Items)
    BY ListConstants, FS_Interval DEF Items
  <1> QED
    BY <1>1, FS_Subset, FS_CardinalityType

\* One element more, at most.
LEMMA OneMore ==
    ASSUME NEW A, IsFiniteSet(A), NEW B, NEW C, B \subseteq A \cup C, \A x, y \in C : x = y
    PROVE  IsFiniteSet(B) /\ Cardinality(B) \in Nat /\ Cardinality(B) <= Cardinality(A) + 1
  <1>1. Cardinality(A) \in Nat
    BY FS_CardinalityType
  <1>2. CASE C = {}
    BY <1>1, <1>2, FS_Subset, FS_CardinalityType
  <1>3. CASE C # {}
    <2>1. PICK x : C = {x}
      BY <1>3
    <2>2. IsFiniteSet(A \cup {x}) /\ Cardinality(A \cup {x}) <= Cardinality(A) + 1
      BY <1>1, FS_AddElement
    <2>3. B \in SUBSET (A \cup {x})
      BY <2>1
    <2>4. IsFiniteSet(B) /\ Cardinality(B) <= Cardinality(A \cup {x})
      BY <2>2, <2>3, FS_Subset
    <2> QED
      BY <1>1, <2>2, <2>4, FS_CardinalityType
  <1> QED
    BY <1>2, <1>3

LEMMA NoMore ==
    ASSUME NEW A, IsFiniteSet(A), NEW B, B \subseteq A
    PROVE  IsFiniteSet(B) /\ Cardinality(B) \in Nat /\ Cardinality(B) <= Cardinality(A)
  BY FS_Subset, FS_CardinalityType

\* Places by id: in the order of the ids, and not beyond the number of items.
LEMMA PlacesById ==
    ASSUME NEW V \in SUBSET Items
    PROVE  /\ \A i \in V : ByIdAt(V, i) \in 1..Cardinality(V)
           /\ \A i, j \in V : ByIdAt(V, i) = ByIdAt(V, j) => i = j
  <1> DEFINE upto(i) == {j \in V : j <= i}
  <1>1. \A i \in V : i \in Nat /\ upto(i) \in SUBSET Items /\ upto(i) \subseteq V
    <2>1. \A i \in Items : i \in Nat
      BY ListConstants DEF Items
    <2> QED
      BY <2>1
  <1>2. ASSUME NEW i \in V PROVE ByIdAt(V, i) \in 1..Cardinality(V)
    <2>1. IsFiniteSet(upto(i)) /\ Cardinality(upto(i)) \in Nat /\ IsFiniteSet(V) /\ Cardinality(V) \in Nat
      BY <1>1, ItemsFinite
    <2>2. Cardinality(upto(i)) <= Cardinality(V)
      BY <1>1, <2>1, FS_Subset
    <2>3. i \in upto(i)
      BY <1>1
    <2>4. Cardinality(upto(i)) # 0
      BY <2>1, <2>3, FS_EmptySet
    <2> QED
      BY <2>1, <2>2, <2>4 DEF ByIdAt
  <1>3. ASSUME NEW i \in V, NEW j \in V, i < j PROVE ByIdAt(V, i) # ByIdAt(V, j)
    <2>1. upto(i) \subseteq upto(j)
      BY <1>1, <1>3
    <2>2. j \in upto(j) /\ j \notin upto(i)
      BY <1>1, <1>3
    <2>3. IsFiniteSet(upto(j))
      BY <1>1, ItemsFinite
    <2>4. Cardinality(upto(i)) # Cardinality(upto(j))
      BY <2>1, <2>2, <2>3, FS_Subset
    <2> QED
      BY <2>4 DEF ByIdAt
  <1>4. \A i, j \in V : ByIdAt(V, i) = ByIdAt(V, j) => i = j
    <2> TAKE i, j \in V
    <2>1. i \in Nat /\ j \in Nat
      BY <1>1
    <2> QED
      BY <1>3, <2>1
  <1> QED
    BY <1>2, <1>4

\* An item more or less moves the others by one place.
LEMMA PlacesShiftById ==
    ASSUME NEW V \in SUBSET Items, NEW x \in Items, NEW i \in Items
    PROVE  /\ x \notin V => ByIdAt(V \cup {x}, i) \in {ByIdAt(V, i), ByIdAt(V, i) + 1}
           /\ x \in V => ByIdAt(V \ {x}, i) \in {ByIdAt(V, i), ByIdAt(V, i) - 1}
  <1> DEFINE upto == {j \in V : j <= i}
  <1>1. upto \in SUBSET Items /\ x \in Nat /\ i \in Nat
    <2>1. x \in Nat /\ i \in Nat
      BY ListConstants DEF Items
    <2> QED
      BY <2>1
  <1>2. IsFiniteSet(upto) /\ Cardinality(upto) \in Nat
    BY <1>1, ItemsFinite
  <1>3. ASSUME x \notin V PROVE ByIdAt(V \cup {x}, i) \in {ByIdAt(V, i), ByIdAt(V, i) + 1}
    <2> DEFINE next == {j \in V \cup {x} : j <= i}
    <2>1. CASE x <= i
      <3>1. next = upto \cup {x} /\ x \notin upto
        BY <1>3, <2>1
      <3> HIDE DEF next, upto
      <3>2. Cardinality(next) = Cardinality(upto) + 1
        BY <3>1, <1>2, FS_AddElement
      <3> QED
        BY <3>2 DEF ByIdAt, next, upto
    <2>2. CASE ~(x <= i)
      <3>1. next = upto
        BY <2>2
      <3> QED
        BY <3>1 DEF ByIdAt
    <2> QED
      BY <2>1, <2>2
  <1>4. ASSUME x \in V PROVE ByIdAt(V \ {x}, i) \in {ByIdAt(V, i), ByIdAt(V, i) - 1}
    <2> DEFINE next == {j \in V \ {x} : j <= i}
    <2>1. CASE x <= i
      <3>1. next = upto \ {x} /\ x \in upto
        BY <1>4, <2>1
      <3> HIDE DEF next, upto
      <3>2. Cardinality(next) = Cardinality(upto) - 1
        BY <3>1, <1>2, FS_RemoveElement
      <3> QED
        BY <3>2 DEF ByIdAt, next, upto
    <2>2. CASE ~(x <= i)
      <3>1. next = upto
        BY <2>2
      <3> QED
        BY <3>1 DEF ByIdAt
    <2> QED
      BY <2>1, <2>2
  <1> QED
    BY <1>3, <1>4

\* Places by date
Once(list) == list \in Seq(Items) /\ \A j, k \in DOMAIN list : list[j] = list[k] => j = k

LEMMA PlacesByDate ==
    ASSUME NEW list, Once(list)
    PROVE  /\ \A k \in DOMAIN list : ByDateAt(list, list[k]) = k
           /\ ToSet(list) \in SUBSET Items
           /\ Cardinality(ToSet(list)) <= Len(list)
  <1>1. \A k \in DOMAIN list : ByDateAt(list, list[k]) = k
    BY DEF Once, ByDateAt
  <1>2. ToSet(list) \in SUBSET Items
    BY DEF Once, ToSet
  <1>3. Cardinality(ToSet(list)) <= Len(list)
    <2>1. list \in [1..Len(list) -> ToSet(list)] /\ Len(list) \in Nat
      BY DEF Once, ToSet
    <2>2. ToSet(list) = {list[k] : k \in 1..Len(list)}
      BY DEF Once, ToSet
    <2>3. list \in Surjection(1..Len(list), ToSet(list))
      BY <2>1, <2>2 DEF Surjection
    <2> QED
      BY <2>1, <2>3, FS_SurjCardinalityBound DEF ExistsSurjection
  <1> QED
    BY <1>1, <1>2, <1>3

LEMMA Inserted ==
    ASSUME NEW list, Once(list), NEW x \in Items, x \notin ToSet(list), NEW k \in 1..Len(list) + 1
    PROVE  LET new == InsertAt(list, k, x)
           IN  /\ Once(new) /\ ToSet(new) = ToSet(list) \cup {x}
               /\ \A j \in 1..Len(list) : \E m \in DOMAIN new : new[m] = list[j] /\ m \in {j, j + 1}
  <1> DEFINE new == InsertAt(list, k, x)
  <1>1. list \in Seq(Items) /\ Len(list) \in Nat /\ DOMAIN list = 1..Len(list)
    BY DEF Once
  <1>2. new = SubSeq(list, 1, k - 1) \o <<x>> \o SubSeq(list, k, Len(list))
    BY DEF InsertAt
  <1>3. /\ SubSeq(list, 1, k - 1) \in Seq(Items) /\ Len(SubSeq(list, 1, k - 1)) = k - 1
        /\ \A j \in 1..k - 1 : SubSeq(list, 1, k - 1)[j] = list[j]
    BY <1>1
  <1>4. /\ SubSeq(list, k, Len(list)) \in Seq(Items) /\ Len(SubSeq(list, k, Len(list))) = Len(list) - k + 1
        /\ \A j \in 1..Len(list) - k + 1 : SubSeq(list, k, Len(list))[j] = list[j + k - 1]
    BY <1>1
  <1> HIDE DEF new
  <1>5. /\ new \in Seq(Items) /\ Len(new) = Len(list) + 1
        /\ \A j \in 1..Len(new) : new[j] = IF j < k THEN list[j] ELSE IF j = k THEN x ELSE list[j - 1]
    <2> DEFINE front == SubSeq(list, 1, k - 1)
               back == SubSeq(list, k, Len(list))
               head == front \o <<x>>
    <2>1. <<x>> \in Seq(Items) /\ Len(<<x>>) = 1 /\ <<x>>[1] = x
      OBVIOUS
    <2>2. front \in Seq(Items) /\ Len(front) = k - 1 /\ \A j \in 1..k - 1 : front[j] = list[j]
      BY <1>3
    <2>3. /\ back \in Seq(Items) /\ Len(back) = Len(list) - k + 1
          /\ \A j \in 1..Len(list) - k + 1 : back[j] = list[j + k - 1]
      BY <1>4
    <2> HIDE DEF front, back
    <2>4. /\ head \in Seq(Items) /\ Len(head) = k
          /\ \A j \in 1..k : head[j] = IF j <= k - 1 THEN front[j] ELSE <<x>>[j - (k - 1)]
      BY <1>1, <2>1, <2>2, TwoParts
    <2> HIDE DEF head
    <2>5. new = head \o back
      BY <1>2 DEF front, back, head
    <2>6. /\ new \in Seq(Items) /\ Len(new) = Len(list) + 1
          /\ \A j \in 1..Len(list) + 1 : new[j] = IF j <= k THEN head[j] ELSE back[j - k]
      <3>1. /\ new \in Seq(Items) /\ Len(new) = Len(head) + Len(back)
            /\ \A j \in 1..Len(head) + Len(back) : new[j] = IF j <= Len(head) THEN head[j] ELSE back[j - Len(head)]
        BY <2>3, <2>4, <2>5, TwoParts
      <3>2. Len(head) + Len(back) = Len(list) + 1
        BY <1>1, <2>3, <2>4
      <3> QED
        BY <3>1, <3>2, <2>4
    <2>7. ASSUME NEW j \in 1..Len(list) + 1
          PROVE  new[j] = IF j < k THEN list[j] ELSE IF j = k THEN x ELSE list[j - 1]
      <3>1. CASE j < k
        BY <3>1, <1>1, <2>2, <2>4, <2>6
      <3>2. CASE j = k
        BY <3>2, <1>1, <2>1, <2>4, <2>6
      <3>3. CASE j > k
        <4>1. new[j] = back[j - k] /\ j - k \in 1..Len(list) - k + 1
          BY <3>3, <1>1, <2>6
        <4>2. back[j - k] = list[(j - k) + k - 1] /\ (j - k) + k - 1 = j - 1
          BY <4>1, <2>3, <1>1
        <4> QED
          BY <4>1, <4>2, <3>3
      <3> QED
        BY <3>1, <3>2, <3>3, <1>1
    <2> QED
      BY <2>6, <2>7
  <1>6. \A j \in 1..Len(list) : list[j] # x
    BY <1>1 DEF ToSet
  <1>7. Once(new)
    <2>1. ASSUME NEW j \in 1..Len(new), NEW m \in 1..Len(new), j < m PROVE new[j] # new[m]
      <3> DEFINE place(n) == IF n < k THEN n ELSE n - 1
      <3>1. j \in Int /\ m \in Int /\ k \in Int
        OBVIOUS
      <3>2. CASE j = k
        BY <2>1, <3>1, <3>2, <1>1, <1>5, <1>6
      <3>3. CASE m = k
        BY <2>1, <3>1, <3>3, <1>1, <1>5, <1>6
      <3>4. CASE j # k /\ m # k
        <4>1. /\ place(j) \in 1..Len(list) /\ place(m) \in 1..Len(list) /\ place(j) # place(m)
              /\ new[j] = list[place(j)] /\ new[m] = list[place(m)]
          BY <2>1, <3>1, <3>4, <1>1, <1>5
        <4> HIDE DEF place
        <4> QED
          BY <4>1, <1>1 DEF Once
      <3> QED
        BY <3>2, <3>3, <3>4
    <2>2. \A j, m \in 1..Len(new) : new[j] = new[m] => j = m
      <3> TAKE j, m \in 1..Len(new)
      <3>1. j \in Int /\ m \in Int
        BY <1>1, <1>5
      <3> QED
        BY <3>1, <2>1
    <2> QED
      BY <1>5, <2>2 DEF Once
  <1>8. \A j \in 1..Len(list) : \E m \in DOMAIN new : new[m] = list[j] /\ m \in {j, j + 1}
    <2> TAKE j \in 1..Len(list)
    <2>1. CASE j < k
      BY <2>1, <1>1, <1>5
    <2>2. CASE j >= k
      <3>1. j + 1 \in DOMAIN new /\ new[j + 1] = list[j]
        BY <2>2, <1>1, <1>5
      <3> QED
        BY <3>1
    <2> QED
      BY <2>1, <2>2, <1>1
  <1>9. ToSet(new) = ToSet(list) \cup {x}
    <2>1. new[k] = x /\ k \in DOMAIN new
      BY <1>1, <1>5
    <2>2. ToSet(list) = {list[m] : m \in 1..Len(list)} /\ ToSet(new) = {new[m] : m \in DOMAIN new}
      BY <1>1 DEF ToSet
    <2>3. \A j \in DOMAIN new : new[j] \in ToSet(list) \cup {x}
      <3> TAKE j \in DOMAIN new
      <3>1. CASE j < k
        <4>1. j \in 1..Len(list) /\ new[j] = list[j]
          BY <3>1, <1>1, <1>5
        <4> QED
          BY <4>1, <2>2
      <3>2. CASE j = k
        BY <3>2, <2>1, <1>5
      <3>3. CASE j > k
        <4>1. j - 1 \in 1..Len(list) /\ new[j] = list[j - 1]
          BY <3>3, <1>1, <1>5
        <4> QED
          BY <4>1, <2>2
      <3> QED
        BY <3>1, <3>2, <3>3, <1>1, <1>5
    <2> QED
      BY <1>1, <1>8, <2>1, <2>2, <2>3
  <1> QED
    BY <1>7, <1>8, <1>9 DEF new

LEMMA Removed ==
    ASSUME NEW list, Once(list), NEW k \in DOMAIN list
    PROVE  LET new == RemoveAt(list, k)
           IN  /\ Once(new) /\ ToSet(new) = ToSet(list) \ {list[k]}
               /\ \A j \in DOMAIN list : j # k => \E m \in DOMAIN new : new[m] = list[j] /\ m \in {j, j - 1}
  <1> DEFINE new == RemoveAt(list, k)
  <1>1. list \in Seq(Items) /\ Len(list) \in Nat /\ DOMAIN list = 1..Len(list) /\ k \in 1..Len(list)
    BY DEF Once
  <1>2. new = SubSeq(list, 1, k - 1) \o SubSeq(list, k + 1, Len(list))
    BY DEF RemoveAt
  <1>3. /\ SubSeq(list, 1, k - 1) \in Seq(Items) /\ Len(SubSeq(list, 1, k - 1)) = k - 1
        /\ \A j \in 1..k - 1 : SubSeq(list, 1, k - 1)[j] = list[j]
    BY <1>1
  <1>4. /\ SubSeq(list, k + 1, Len(list)) \in Seq(Items) /\ Len(SubSeq(list, k + 1, Len(list))) = Len(list) - k
        /\ \A j \in 1..Len(list) - k : SubSeq(list, k + 1, Len(list))[j] = list[j + k]
    BY <1>1
  <1> HIDE DEF new
  <1>5. /\ new \in Seq(Items) /\ Len(new) = Len(list) - 1
        /\ \A j \in 1..Len(new) : new[j] = IF j < k THEN list[j] ELSE list[j + 1]
    <2> DEFINE front == SubSeq(list, 1, k - 1)
               back == SubSeq(list, k + 1, Len(list))
    <2>1. front \in Seq(Items) /\ Len(front) = k - 1 /\ \A j \in 1..k - 1 : front[j] = list[j]
      BY <1>3
    <2>2. /\ back \in Seq(Items) /\ Len(back) = Len(list) - k
          /\ \A j \in 1..Len(list) - k : back[j] = list[j + k]
      BY <1>4
    <2>3. new = front \o back
      BY <1>2
    <2> HIDE DEF front, back
    <2>4. /\ new \in Seq(Items) /\ Len(new) = Len(list) - 1
          /\ \A j \in 1..Len(list) - 1 : new[j] = IF j <= k - 1 THEN front[j] ELSE back[j - (k - 1)]
      <3>1. /\ new \in Seq(Items) /\ Len(new) = Len(front) + Len(back)
            /\ \A j \in 1..Len(front) + Len(back) : new[j] = IF j <= Len(front) THEN front[j] ELSE back[j - Len(front)]
        BY <2>1, <2>2, <2>3, TwoParts
      <3>2. Len(front) + Len(back) = Len(list) - 1
        BY <1>1, <2>1, <2>2
      <3> QED
        BY <3>1, <3>2, <2>1
    <2>5. ASSUME NEW j \in 1..Len(list) - 1
          PROVE  new[j] = IF j < k THEN list[j] ELSE list[j + 1]
      <3>1. CASE j < k
        BY <3>1, <1>1, <2>1, <2>4
      <3>2. CASE j >= k
        <4>1. new[j] = back[j - (k - 1)] /\ j - (k - 1) \in 1..Len(list) - k
          BY <3>2, <1>1, <2>4
        <4>2. back[j - (k - 1)] = list[(j - (k - 1)) + k] /\ (j - (k - 1)) + k = j + 1
          BY <4>1, <2>2, <1>1
        <4> QED
          BY <4>1, <4>2, <3>2, <1>1
      <3> QED
        BY <3>1, <3>2, <1>1
    <2> QED
      BY <2>4, <2>5
  <1>6. Once(new)
    <2>1. \A j, m \in 1..Len(new) : new[j] = new[m] => j = m
      <3> TAKE j, m \in 1..Len(new)
      <3> DEFINE place(n) == IF n < k THEN n ELSE n + 1
      <3>1. /\ j \in Int /\ m \in Int /\ (place(j) = place(m) => j = m)
            /\ place(j) \in 1..Len(list) /\ place(m) \in 1..Len(list)
            /\ new[j] = list[place(j)] /\ new[m] = list[place(m)]
        BY <1>1, <1>5
      <3> HIDE DEF place
      <3> QED
        BY <3>1, <1>1 DEF Once
    <2> QED
      BY <1>5, <2>1 DEF Once
  <1>7. \A j \in DOMAIN list : j # k => \E m \in DOMAIN new : new[m] = list[j] /\ m \in {j, j - 1}
    <2> TAKE j \in DOMAIN list
    <2>1. CASE j < k
      <3>1. j \in DOMAIN new /\ new[j] = list[j]
        BY <2>1, <1>1, <1>5
      <3> QED
        BY <3>1
    <2>2. CASE j > k
      <3>1. j - 1 \in DOMAIN new /\ new[j - 1] = list[j]
        BY <2>2, <1>1, <1>5
      <3> QED
        BY <3>1
    <2> QED
      BY <2>1, <2>2, <1>1
  <1>8. ToSet(new) = ToSet(list) \ {list[k]}
    <2>1. ToSet(list) = {list[m] : m \in 1..Len(list)} /\ ToSet(new) = {new[m] : m \in 1..Len(new)}
      BY <1>1, <1>5 DEF ToSet
    <2>2. \A j \in 1..Len(new) : new[j] \in ToSet(list) /\ new[j] # list[k]
      <3> TAKE j \in 1..Len(new)
      <3>1. \E m \in 1..Len(list) : m # k /\ new[j] = list[m]
        <4>1. CASE j < k
          BY <4>1, <1>1, <1>5
        <4>2. CASE j >= k
          <5>1. j + 1 \in 1..Len(list) /\ new[j] = list[j + 1] /\ j + 1 # k
            BY <4>2, <1>1, <1>5
          <5> QED
            BY <5>1
        <4> QED
          BY <4>1, <4>2, <1>1
      <3> QED
        BY <3>1, <2>1, <1>1 DEF Once
    <2>3. \A m \in 1..Len(list) : list[m] # list[k] => list[m] \in ToSet(new)
      <3> TAKE m \in 1..Len(list)
      <3> HAVE list[m] # list[k]
      <3>1. \E j \in 1..Len(new) : new[j] = list[m]
        BY <1>1, <1>5, <1>7
      <3> QED
        BY <3>1, <2>1
    <2>4. \A z \in ToSet(new) : z \in ToSet(list) \ {list[k]}
      BY <2>1, <2>2
    <2>5. \A z \in ToSet(list) \ {list[k]} : z \in ToSet(new)
      BY <2>1, <2>3
    <2> QED
      BY <2>4, <2>5
  <1> QED
    BY <1>6, <1>7, <1>8 DEF new

LEMMA Fronted ==
    ASSUME NEW list, Once(list), NEW x \in Items, x \notin ToSet(list)
    PROVE  LET new == <<x>> \o list
           IN  /\ Once(new) /\ ToSet(new) = ToSet(list) \cup {x}
               /\ \A j \in DOMAIN list : j + 1 \in DOMAIN new /\ new[j + 1] = list[j]
  <1> DEFINE new == <<x>> \o list
  <1>1. list \in Seq(Items) /\ Len(list) \in Nat /\ DOMAIN list = 1..Len(list)
    BY DEF Once
  <1>2. /\ new \in Seq(Items) /\ Len(new) = Len(list) + 1
        /\ \A j \in 1..Len(new) : new[j] = IF j = 1 THEN x ELSE list[j - 1]
    BY <1>1
  <1> HIDE DEF new
  <1>3. \A j \in 1..Len(list) : list[j] # x
    BY <1>1 DEF ToSet
  <1>4. Once(new)
    <2>1. \A j, m \in 1..Len(new) : new[j] = new[m] => j = m
      <3> TAKE j, m \in 1..Len(new)
      <3>1. j \in Int /\ m \in Int
        BY <1>1, <1>2
      <3>2. CASE j = 1 \/ m = 1
        BY <3>1, <3>2, <1>1, <1>2, <1>3
      <3>3. CASE j # 1 /\ m # 1
        <4>1. /\ j - 1 \in 1..Len(list) /\ m - 1 \in 1..Len(list)
              /\ new[j] = list[j - 1] /\ new[m] = list[m - 1]
          BY <3>1, <3>3, <1>1, <1>2
        <4>2. list[j - 1] = list[m - 1] => j - 1 = m - 1
          BY <4>1, <1>1 DEF Once
        <4> QED
          BY <4>1, <4>2, <3>1
      <3> QED
        BY <3>2, <3>3
    <2> QED
      BY <1>2, <2>1 DEF Once
  <1>5. \A j \in DOMAIN list : j + 1 \in DOMAIN new /\ new[j + 1] = list[j]
    BY <1>1, <1>2
  <1>6. ToSet(new) = ToSet(list) \cup {x}
    <2>1. new[1] = x /\ 1 \in DOMAIN new
      BY <1>1, <1>2
    <2>2. \A j \in DOMAIN new : new[j] \in ToSet(list) \cup {x}
      BY <1>1, <1>2 DEF ToSet
    <2> QED
      BY <1>1, <1>5, <2>1, <2>2 DEF ToSet
  <1> QED
    BY <1>4, <1>5, <1>6 DEF new

\* The pages that are counted hold all the items.
LEMMA PagesHoldAll ==
    ASSUME NEW total \in Nat
    PROVE  Pages(total) \in Nat /\ Pages(total) > 0 /\ Pages(total) * PageSize >= total
  <1>1. MaxItems \in Nat /\ PageSize \in Nat /\ PageSize > 0
    BY ListConstants
  <1>2. CASE total = 0
    BY <1>1, <1>2 DEF Pages
  <1>3. CASE total # 0
    <2>1. ((total + PageSize - 1) \div PageSize) * PageSize >= total
      BY <1>1
    <2>2. (total + PageSize - 1) \div PageSize \in Nat
      BY <1>1
    <2>3. (total + PageSize - 1) \div PageSize # 0
      BY <1>1, <1>3, <2>1
    <2> QED
      BY <1>3, <2>1, <2>2, <2>3 DEF Pages
  <1> QED
    BY <1>2, <1>3

LEMMA ListStarts == ListInit => ListInv
  <1> SUFFICES ASSUME ListInit PROVE ListInv
    OBVIOUS
  <1>1. recent = <<>> /\ visit = NoVisit
    BY DEF ListInit
  <1>2. ListTypes
    <2>1. visit \in Sightings
      BY <1>1 DEF NoVisit, Sightings
    <2> QED
      BY <1>1, <2>1 DEF ListTypes
  <1>3. VisitFits
    BY <1>1 DEF VisitFits, Underway, NoVisit
  <1>4. FewMissed
    <2>1. visit.steady \ visit.seen = {} /\ visit.changes = 0
      BY <1>1 DEF NoVisit
    <2> QED
      BY <2>1, FS_EmptySet DEF FewMissed
  <1> QED
    BY <1>2, <1>3, <1>4 DEF ListInv

\* What is visible stands somewhere, each item at a place of its own.
LEMMA StandsOnce ==
    ASSUME ListTypes
    PROVE  /\ Visible \in SUBSET Items /\ Len(recent) \in Nat
           /\ \A i \in Visible : StandsAt(i) \in Nat /\ StandsAt(i) > 0 /\ StandsAt(i) <= Len(recent)
           /\ \A i, j \in Visible : StandsAt(i) = StandsAt(j) => i = j
  <1>1. Once(recent) /\ recent \in Seq(Items)
    BY DEF ListTypes, Once
  <1>2. /\ Visible \in SUBSET Items /\ Len(recent) \in Nat /\ Cardinality(Visible) <= Len(recent)
        /\ \A k \in DOMAIN recent : ByDateAt(recent, recent[k]) = k
    BY <1>1, PlacesByDate DEF Visible
  <1>3. Cardinality(Visible) \in Nat
    BY <1>2, ItemsFinite
  <1>4. CASE visit.of = "sitemap"
    <2>1. \A i \in Visible : StandsAt(i) = ByIdAt(Visible, i)
      BY <1>4 DEF StandsAt
    <2>2. /\ \A i \in Visible : ByIdAt(Visible, i) \in 1..Cardinality(Visible)
          /\ \A i, j \in Visible : ByIdAt(Visible, i) = ByIdAt(Visible, j) => i = j
      BY <1>2, PlacesById
    <2> QED
      BY <1>2, <1>3, <2>1, <2>2
  <1>5. CASE visit.of # "sitemap"
    <2>1. \A i \in Visible : \E k \in DOMAIN recent : recent[k] = i /\ StandsAt(i) = k
      BY <1>2, <1>5 DEF StandsAt, Visible, ToSet
    <2>2. DOMAIN recent = 1..Len(recent)
      BY <1>1
    <2> QED
      BY <1>2, <2>1, <2>2
  <1> QED
    BY <1>4, <1>5

StandsSomewhere ==
    \A i \in Visible : StandsAt(i) \in Nat /\ StandsAt(i) > 0 /\ StandsAt(i) <= Len(recent)

LEMMA StandsThen == ListTypes' => StandsSomewhere'
  <1>1. ListTypes => StandsSomewhere
    BY StandsOnce DEF StandsSomewhere
  <1> QED
    BY <1>1, PTL

\* A change of the list: what is passed by or out of reach grows by one, or not at all.
LEMMA ChangeKeeps ==
    ASSUME ListInv, NEW list, Change(list), Once(list), NEW C, \A x, y \in C : x = y,
           Underway => \/ Passed' \subseteq Passed \cup C /\ Ahead' \subseteq Ahead
                       \/ Passed' \subseteq Passed /\ Ahead' \subseteq Ahead \cup C
    PROVE  ListInv'
  <1> USE DEF ListInv
  <1>1. recent' = list /\ ListTypes
    BY DEF Change
  <1>2. CASE ~Underway
    <2>1. visit' = visit
      BY <1>2 DEF Change
    <2> QED
      BY <1>1, <1>2, <2>1 DEF ListTypes, Once, VisitFits, Underway, FewMissed
  <1>3. CASE Underway
    <2>1. visit' = [visit EXCEPT !.changes = @ + 1, !.steady = @ \cap ToSet(list)]
      BY <1>3 DEF Change
    <2>2. /\ visit' \in Sightings /\ visit'.of = visit.of /\ visit'.step = visit.step
          /\ visit'.page = visit.page /\ visit'.last = visit.last /\ visit'.seen = visit.seen
          /\ visit'.steady = visit.steady \cap ToSet(list) /\ visit'.changes = visit.changes + 1
      <3>1. visit \in Sightings
        BY <1>1 DEF ListTypes
      <3>2. visit.changes + 1 \in Nat /\ visit.steady \cap ToSet(list) \in SUBSET Items
        BY <3>1 DEF Sightings
      <3> QED
        BY <2>1, <3>1, <3>2 DEF Sightings
    <2>3. ListTypes'
      BY <1>1, <2>2 DEF ListTypes, Once
    <2>4. visit'.steady \subseteq Visible'
      BY <1>1, <2>2 DEF Visible
    <2>5. visit.steady \in SUBSET Items /\ visit.changes \in Nat
      BY <1>1 DEF ListTypes, Sightings
    <2>6. Passed \in SUBSET Items /\ Ahead \in SUBSET Items
      BY <2>5 DEF Passed, Ahead
    <2>7. /\ IsFiniteSet(Passed) /\ Cardinality(Passed) \in Nat
          /\ IsFiniteSet(Ahead) /\ Cardinality(Ahead) \in Nat
      BY <2>6, ItemsFinite
    <2>8. Cardinality(Passed) + Cardinality(Ahead) <= visit.changes
      BY <1>3 DEF VisitFits
    <2>9. Cardinality(Passed') + Cardinality(Ahead') <= visit.changes + 1
      <3>1. CASE Passed' \subseteq Passed \cup C /\ Ahead' \subseteq Ahead
        <4>1. Cardinality(Passed') \in Nat /\ Cardinality(Passed') <= Cardinality(Passed) + 1
          BY <2>7, <3>1, OneMore
        <4>2. Cardinality(Ahead') \in Nat /\ Cardinality(Ahead') <= Cardinality(Ahead)
          BY <2>7, <3>1, NoMore
        <4> QED
          BY <2>5, <2>7, <2>8, <4>1, <4>2
      <3>2. CASE Passed' \subseteq Passed /\ Ahead' \subseteq Ahead \cup C
        <4>1. Cardinality(Passed') \in Nat /\ Cardinality(Passed') <= Cardinality(Passed)
          BY <2>7, <3>2, NoMore
        <4>2. Cardinality(Ahead') \in Nat /\ Cardinality(Ahead') <= Cardinality(Ahead) + 1
          BY <2>7, <3>2, OneMore
        <4> QED
          BY <2>5, <2>7, <2>8, <4>1, <4>2
      <3> QED
        BY <1>3, <3>1, <3>2
    <2>10. VisitFits'
      BY <1>3, <2>2, <2>4, <2>9 DEF VisitFits
    <2>11. FewMissed'
      BY <1>3, <2>2 DEF FewMissed, Underway
    <2> QED
      BY <2>3, <2>10, <2>11
  <1> QED
    BY <1>2, <1>3

\* What changes while a visit is under way.
LEMMA Changed ==
    ASSUME ListInv, NEW list, Change(list), Once(list), Underway
    PROVE  /\ recent' = list /\ Visible' = ToSet(list)
           /\ visit'.of = visit.of /\ visit'.seen = visit.seen /\ visit'.last = visit.last
           /\ visit'.steady = visit.steady \cap ToSet(list)
           /\ visit.steady \subseteq Visible /\ Behind' = Behind
           /\ Behind \in Int /\ visit.last * PageSize \in Int /\ visit.of \in {"sitemap", "list"}
  <1>1. visit \in Sightings /\ visit.steady \subseteq Visible /\ visit.of # "none"
    BY DEF ListInv, ListTypes, VisitFits
  <1>2. visit' = [visit EXCEPT !.changes = @ + 1, !.steady = @ \cap ToSet(list)] /\ recent' = list
    BY DEF Change
  <1>3. /\ visit'.of = visit.of /\ visit'.step = visit.step
        /\ visit'.page = visit.page /\ visit'.last = visit.last /\ visit'.seen = visit.seen
        /\ visit'.steady = visit.steady \cap ToSet(list)
    BY <1>1, <1>2 DEF Sightings
  <1>4. Behind' = Behind
    BY <1>3 DEF Behind
  <1>5. visit.page \in Int /\ visit.last \in Int /\ PageSize \in Int
    BY <1>1, ListConstants DEF Sightings
  <1>6. Behind \in Int /\ visit.last * PageSize \in Int
    BY <1>5 DEF Behind
  <1> QED
    BY <1>1, <1>2, <1>3, <1>4, <1>6 DEF Visible, Sightings

\* All items of the visit move up a place, or stay.
LEMMA MovedUp ==
    ASSUME ListInv, NEW list, Change(list), Once(list),
           Underway => \A i \in visit'.steady : StandsAt(i)' \in {StandsAt(i), StandsAt(i) + 1}
    PROVE  ListInv'
  <1> DEFINE C == {i \in visit.steady : Underway /\ StandsAt(i) = visit.last * PageSize}
  <1>1. ASSUME Underway
        PROVE  Passed' \subseteq Passed /\ Ahead' \subseteq Ahead \cup C
    <2>1. \A i \in visit'.steady : /\ StandsAt(i) \in Nat /\ StandsAt(i)' \in {StandsAt(i), StandsAt(i) + 1}
                                   /\ i \in visit.steady
      BY <1>1, Changed, StandsOnce DEF ListInv
    <2>2. Passed' \subseteq Passed
      <3>1. Passed' = {i \in visit'.steady \ visit'.seen : StandsAt(i)' <= Behind'}
        BY DEF Passed
      <3> QED
        BY <2>1, <3>1, <1>1, Changed DEF Passed
    <2>3. Ahead' \subseteq Ahead \cup C
      <3>1. Ahead' = IF visit'.of = "sitemap" THEN {i \in visit'.steady : StandsAt(i)' > visit'.last * PageSize} ELSE {}
        BY DEF Ahead
      <3> QED
        BY <2>1, <3>1, <1>1, Changed DEF Ahead
    <2> QED
      BY <2>2, <2>3
  <1>2. \A x, y \in C : x = y
    <2>1. Underway => visit.steady \subseteq Visible
      BY DEF ListInv, VisitFits
    <2> QED
      BY <2>1, StandsOnce DEF ListInv
  <1> HIDE DEF C
  <1> QED
    BY <1>1, <1>2, ChangeKeeps

LEMMA MovedDown ==
    ASSUME ListInv, NEW list, Change(list), Once(list),
           Underway => \A i \in visit'.steady : StandsAt(i)' \in {StandsAt(i), StandsAt(i) - 1}
    PROVE  ListInv'
  <1> DEFINE C == {i \in visit.steady : Underway /\ StandsAt(i) = Behind + 1}
  <1>1. ASSUME Underway
        PROVE  Passed' \subseteq Passed \cup C /\ Ahead' \subseteq Ahead
    <2>1. \A i \in visit'.steady : /\ StandsAt(i) \in Nat /\ StandsAt(i)' \in {StandsAt(i), StandsAt(i) - 1}
                                   /\ i \in visit.steady
      BY <1>1, Changed, StandsOnce DEF ListInv
    <2>2. Passed' \subseteq Passed \cup C
      <3>1. Passed' = {i \in visit'.steady \ visit'.seen : StandsAt(i)' <= Behind'}
        BY DEF Passed
      <3> QED
        BY <2>1, <3>1, <1>1, Changed DEF Passed
    <2>3. Ahead' \subseteq Ahead
      <3>1. Ahead' = IF visit'.of = "sitemap" THEN {i \in visit'.steady : StandsAt(i)' > visit'.last * PageSize} ELSE {}
        BY DEF Ahead
      <3> QED
        BY <2>1, <3>1, <1>1, Changed DEF Ahead
    <2> QED
      BY <2>2, <2>3
  <1>2. \A x, y \in C : x = y
    <2>1. Underway => visit.steady \subseteq Visible
      BY DEF ListInv, VisitFits
    <2> QED
      BY <2>1, StandsOnce DEF ListInv
  <1> HIDE DEF C
  <1> QED
    BY <1>1, <1>2, ChangeKeeps

LEMMA ShowKeeps ==
    ASSUME ListInv, NEW x \in Items, Show(x)
    PROVE  ListInv'
  <1>1. PICK k \in 1..Len(recent) + 1 : Change(InsertAt(recent, k, x))
    BY DEF Show
  <1> DEFINE list == InsertAt(recent, k, x)
  <1>2. Once(recent) /\ x \notin ToSet(recent)
    BY DEF Show, Visible, ListInv, ListTypes, Once
  <1>3. /\ Once(list) /\ ToSet(list) = ToSet(recent) \cup {x}
        /\ \A j \in 1..Len(recent) : \E m \in DOMAIN list : list[m] = recent[j] /\ m \in {j, j + 1}
    BY <1>2, Inserted
  <1>4. Change(list)
    BY <1>1
  <1> HIDE DEF list
  <1>5. ASSUME Underway, NEW i \in visit'.steady PROVE StandsAt(i)' \in {StandsAt(i), StandsAt(i) + 1}
    <2>1. i \in Visible /\ i \in Items /\ Visible' = Visible \cup {x} /\ x \notin Visible /\ Visible \in SUBSET Items
      BY <1>2, <1>3, <1>4, <1>5, Changed, StandsOnce DEF Visible, ListInv
    <2>2. visit'.of = visit.of /\ recent' = list
      BY <1>3, <1>4, <1>5, Changed
    <2>3. CASE visit.of = "sitemap"
      <3>1. StandsAt(i) = ByIdAt(Visible, i) /\ StandsAt(i)' = ByIdAt(Visible', i)
        BY <2>2, <2>3 DEF StandsAt
      <3>2. ByIdAt(Visible \cup {x}, i) \in {ByIdAt(Visible, i), ByIdAt(Visible, i) + 1}
        BY <2>1, PlacesShiftById
      <3> QED
        BY <2>1, <3>1, <3>2
    <2>4. CASE visit.of # "sitemap"
      <3>1. PICK j \in DOMAIN recent : recent[j] = i
        BY <2>1 DEF Visible, ToSet
      <3>2. PICK m \in DOMAIN list : list[m] = i /\ m \in {j, j + 1}
        BY <1>2, <1>3, <3>1 DEF Once
      <3>3. ByDateAt(recent, i) = j /\ ByDateAt(list, i) = m
        BY <1>2, <1>3, <3>1, <3>2, PlacesByDate
      <3>4. StandsAt(i) = j /\ StandsAt(i)' = m
        BY <2>2, <2>4, <3>3 DEF StandsAt
      <3> QED
        BY <3>2, <3>4
    <2> QED
      BY <2>3, <2>4
  <1> QED
    BY <1>3, <1>4, <1>5, MovedUp

LEMMA HideKeeps ==
    ASSUME ListInv, NEW x \in Items, Hide(x)
    PROVE  ListInv'
  <1>1. PICK k \in DOMAIN recent : recent[k] = x /\ Change(RemoveAt(recent, k))
    BY DEF Hide
  <1> DEFINE list == RemoveAt(recent, k)
  <1>2. Once(recent)
    BY DEF ListInv, ListTypes, Once
  <1>3. /\ Once(list) /\ ToSet(list) = ToSet(recent) \ {x}
        /\ \A j \in DOMAIN recent : j # k => \E m \in DOMAIN list : list[m] = recent[j] /\ m \in {j, j - 1}
    BY <1>1, <1>2, Removed
  <1>4. Change(list)
    BY <1>1
  <1> HIDE DEF list
  <1>5. ASSUME Underway, NEW i \in visit'.steady PROVE StandsAt(i)' \in {StandsAt(i), StandsAt(i) - 1}
    <2>1. /\ i \in Visible /\ i # x /\ i \in Items /\ Visible' = Visible \ {x} /\ x \in Visible
          /\ Visible \in SUBSET Items
      <3>1. visit'.steady = visit.steady \cap ToSet(list) /\ visit.steady \subseteq Visible /\ Visible' = ToSet(list)
        BY <1>3, <1>4, <1>5, Changed
      <3>2. Visible \in SUBSET Items /\ x \in Visible
        BY <1>1, StandsOnce DEF ListInv, Visible, ToSet
      <3> QED
        BY <1>3, <3>1, <3>2 DEF Visible
    <2>2. visit'.of = visit.of /\ recent' = list
      BY <1>3, <1>4, <1>5, Changed
    <2>3. CASE visit.of = "sitemap"
      <3>1. StandsAt(i) = ByIdAt(Visible, i) /\ StandsAt(i)' = ByIdAt(Visible', i)
        BY <2>2, <2>3 DEF StandsAt
      <3>2. ByIdAt(Visible \ {x}, i) \in {ByIdAt(Visible, i), ByIdAt(Visible, i) - 1}
        BY <2>1, PlacesShiftById
      <3> QED
        BY <2>1, <3>1, <3>2
    <2>4. CASE visit.of # "sitemap"
      <3>1. PICK j \in DOMAIN recent : recent[j] = i
        BY <2>1 DEF Visible, ToSet
      <3>2. PICK m \in DOMAIN list : list[m] = i /\ m \in {j, j - 1}
        BY <1>1, <1>3, <2>1, <3>1
      <3>3. ByDateAt(recent, i) = j /\ ByDateAt(list, i) = m
        BY <1>2, <1>3, <3>1, <3>2, PlacesByDate
      <3>4. StandsAt(i) = j /\ StandsAt(i)' = m
        BY <2>2, <2>4, <3>3 DEF StandsAt
      <3> QED
        BY <3>2, <3>4
    <2> QED
      BY <2>3, <2>4
  <1> QED
    BY <1>3, <1>4, <1>5, MovedDown

\* An item that is the latest again passes by a reader of the list; the others stand where they stood
\* or one place on.
LEMMA BumpKeeps ==
    ASSUME ListInv, NEW x \in Items, Bump(x)
    PROVE  ListInv'
  <1>1. PICK k \in DOMAIN recent : recent[k] = x /\ Change(<<x>> \o RemoveAt(recent, k))
    BY DEF Bump
  <1> DEFINE less == RemoveAt(recent, k)
             list == <<x>> \o less
  <1>2. Once(recent)
    BY DEF ListInv, ListTypes, Once
  <1>3. /\ Once(less) /\ ToSet(less) = ToSet(recent) \ {x}
        /\ \A j \in DOMAIN recent : j # k => \E m \in DOMAIN less : less[m] = recent[j] /\ m \in {j, j - 1}
    BY <1>1, <1>2, Removed
  <1> HIDE DEF less
  <1>4. /\ Once(list) /\ ToSet(list) = ToSet(less) \cup {x}
        /\ \A j \in DOMAIN less : j + 1 \in DOMAIN list /\ list[j + 1] = less[j]
    BY <1>3, Fronted
  <1>5. Change(list)
    BY <1>1 DEF less
  <1> HIDE DEF list
  <1>6. ToSet(list) = ToSet(recent) /\ x \in ToSet(recent)
    BY <1>1, <1>3, <1>4 DEF ToSet
  <1>7. ASSUME Underway PROVE Passed' \subseteq Passed \cup {x} /\ Ahead' \subseteq Ahead
    <2>1. /\ Visible' = Visible /\ recent' = list /\ visit'.of = visit.of /\ visit'.seen = visit.seen
          /\ visit'.steady = visit.steady /\ visit'.last = visit.last /\ Behind' = Behind
          /\ visit.steady \subseteq Visible /\ Behind \in Int
      BY <1>4, <1>5, <1>6, <1>7, Changed DEF Visible
    <2>2. Passed' = {i \in visit'.steady \ visit'.seen : StandsAt(i)' <= Behind'}
      BY DEF Passed
    <2>3. Ahead' = IF visit'.of = "sitemap" THEN {i \in visit'.steady : StandsAt(i)' > visit'.last * PageSize} ELSE {}
      BY DEF Ahead
    <2>4. CASE visit.of = "sitemap"
      <3>1. \A i : StandsAt(i)' = StandsAt(i)
        BY <2>1, <2>4 DEF StandsAt
      <3> QED
        BY <2>1, <2>2, <2>3, <3>1 DEF Passed, Ahead
    <2>5. CASE visit.of # "sitemap"
      <3>1. ASSUME NEW i \in visit.steady, i # x
            PROVE  StandsAt(i) \in Nat /\ StandsAt(i)' \in {StandsAt(i), StandsAt(i) + 1}
        <4>1. PICK j \in DOMAIN recent : recent[j] = i
          BY <2>1 DEF Visible, ToSet
        <4>2. PICK m \in DOMAIN less : less[m] = i /\ m \in {j, j - 1}
          BY <1>1, <1>3, <3>1, <4>1
        <4>3. j \in Nat /\ m + 1 \in DOMAIN list /\ list[m + 1] = i
          BY <1>2, <1>4, <4>2 DEF Once
        <4>4. ByDateAt(recent, i) = j /\ ByDateAt(list, i) = m + 1
          BY <1>2, <1>4, <4>1, <4>3, PlacesByDate
        <4>5. StandsAt(i) = j /\ StandsAt(i)' = m + 1
          BY <2>1, <2>5, <4>4 DEF StandsAt
        <4> QED
          BY <4>2, <4>3, <4>5
      <3> QED
        BY <2>1, <2>2, <2>3, <2>5, <3>1 DEF Passed, Ahead
    <2> QED
      BY <2>4, <2>5
  <1>8. \A y, z \in {x} : y = z
    OBVIOUS
  <1> QED
    BY <1>4, <1>5, <1>7, <1>8, ChangeKeeps

\* A visit begins: nothing is behind, and the pages the crawler knows of hold all the items.
LEMMA OpeningKeeps ==
    ASSUME ListInv, ReadIndex \/ OpenList
    PROVE  ListInv'
  <1>1. ListTypes /\ recent' = recent /\ Visible' = Visible
    BY DEF ListInv, ReadIndex, OpenList, Visible
  <1>2. Visible \in SUBSET Items /\ Len(recent) \in Nat /\ PageSize \in Nat
    BY <1>1, StandsOnce, ListConstants
  <1>3. /\ Pages(Len(recent)) \in Nat /\ Pages(Len(recent)) > 0
        /\ Pages(Len(recent)) * PageSize >= Len(recent) /\ Pages(Len(recent)) * PageSize \in Int
    BY <1>2, PagesHoldAll
  <1>4. /\ visit' \in Sightings /\ visit'.step = "items" /\ visit'.page = 1 /\ visit'.steady = Visible
        /\ visit'.changes = 0 /\ visit'.of \in {"sitemap", "list"}
        /\ visit'.of = "sitemap" => visit'.last = Pages(Len(recent))
    <2>1. CASE ReadIndex
      <3>1. visit' = [NoVisit EXCEPT !.of = "sitemap", !.step = "items", !.page = 1,
                                !.last = Pages(Len(recent)), !.steady = Visible]
        BY <2>1 DEF ReadIndex
      <3> QED
        BY <3>1, <1>2, <1>3 DEF NoVisit, Sightings
    <2>2. CASE OpenList
      <3>1. visit' = [NoVisit EXCEPT !.of = "list", !.step = "items", !.page = 1, !.steady = Visible]
        BY <2>2 DEF OpenList
      <3> QED
        BY <3>1, <1>2 DEF NoVisit, Sightings
    <2> QED
      BY <2>1, <2>2
  <1>5. ListTypes'
    BY <1>1, <1>4 DEF ListTypes
  <1>6. \A i \in Visible : StandsAt(i)' \in Nat /\ StandsAt(i)' > 0 /\ StandsAt(i)' <= Len(recent)
    <2>1. \A i \in Visible' : StandsAt(i)' \in Nat /\ StandsAt(i)' > 0 /\ StandsAt(i)' <= Len(recent')
      BY <1>5, StandsThen DEF StandsSomewhere
    <2> QED
      BY <1>1, <2>1
  <1>7. Behind' = 0
    BY <1>2, <1>4 DEF Behind
  <1>8. Passed' = {}
    <2>1. Passed' = {i \in visit'.steady \ visit'.seen : StandsAt(i)' <= Behind'}
      BY DEF Passed
    <2> QED
      BY <1>4, <1>6, <1>7, <2>1
  <1>9. Ahead' = {}
    <2>1. Ahead' = IF visit'.of = "sitemap" THEN {i \in visit'.steady : StandsAt(i)' > visit'.last * PageSize} ELSE {}
      BY DEF Ahead
    <2>2. CASE visit'.of = "sitemap"
      <3>1. \A i \in Visible : ~(StandsAt(i)' > visit'.last * PageSize)
        BY <1>2, <1>3, <1>4, <1>6, <2>2
      <3> QED
        BY <1>4, <2>1, <3>1
    <2>3. CASE visit'.of # "sitemap"
      BY <2>1, <2>3
    <2> QED
      BY <2>2, <2>3
  <1>10. VisitFits'
    <2>1. Cardinality(Passed') = 0 /\ Cardinality(Ahead') = 0
      BY <1>8, <1>9, FS_EmptySet
    <2> QED
      BY <1>1, <1>3, <1>4, <2>1 DEF VisitFits
  <1>11. FewMissed'
    BY <1>4 DEF FewMissed
  <1> QED
    BY <1>5, <1>10, <1>11 DEF ListInv

\* A page is read: what stands on it is seen.
LEMMA PageIsSeen ==
    ASSUME ListInv, visit.step = "items", NEW now, now = visit.seen \cup (IF visit.of = "sitemap" THEN ById(visit.page) ELSE ByDate(visit.page))
    PROVE  /\ now \in SUBSET Items
           /\ \A i \in visit.steady : i \notin now /\ StandsAt(i) <= visit.page * PageSize => i \in Passed
  <1>1. /\ ListTypes /\ visit \in Sightings /\ visit.steady \subseteq Visible
        /\ Visible \in SUBSET Items /\ visit.of \in {"sitemap", "list"}
    BY StandsOnce DEF ListInv, ListTypes, VisitFits, Underway, Sightings
  <1>2. visit.page * PageSize \in Int /\ (visit.page - 1) * PageSize \in Int
    BY <1>1, ListConstants DEF Sightings
  <1>3. \A i \in visit.steady : i \notin now /\ StandsAt(i) <= visit.page * PageSize => i \in Passed
    <2> SUFFICES ASSUME NEW i \in visit.steady, i \notin now, StandsAt(i) <= visit.page * PageSize
                 PROVE  i \in Passed
      OBVIOUS
    <2>1. i \in Visible /\ StandsAt(i) \in Nat /\ i \notin visit.seen
      BY <1>1, StandsOnce
    <2>2. ~InPage(StandsAt(i), visit.page)
      <3>1. CASE visit.of = "sitemap"
        <4>1. i \notin ById(visit.page)
          BY <3>1
        <4>2. StandsAt(i) = Cardinality({j \in Visible : j <= i})
          BY <3>1 DEF StandsAt, ByIdAt
        <4> QED
          BY <2>1, <4>1, <4>2 DEF ById
      <3>2. CASE visit.of # "sitemap"
        <4>1. i \notin ByDate(visit.page)
          BY <3>2
        <4>2. PICK k \in DOMAIN recent : recent[k] = i
          BY <2>1 DEF Visible, ToSet
        <4>3. StandsAt(i) = k
          <5>1. ByDateAt(recent, recent[k]) = k
            BY <1>1, PlacesByDate DEF ListTypes, Once
          <5> QED
            BY <3>2, <4>2, <5>1 DEF StandsAt
        <4> QED
          BY <4>1, <4>2, <4>3 DEF ByDate
      <3> QED
        BY <3>1, <3>2
    <2>3. StandsAt(i) <= (visit.page - 1) * PageSize
      BY <2>1, <2>2, <1>2 DEF InPage
    <2>4. Behind = (visit.page - 1) * PageSize
      BY DEF Behind
    <2> QED
      BY <2>1, <2>3, <2>4 DEF Passed
  <1>4. now \in SUBSET Items
    <2>1. ById(visit.page) \subseteq Items
      BY <1>1 DEF ById
    <2>2. ByDate(visit.page) \subseteq Items
      BY <1>1 DEF ByDate, ListTypes
    <2> QED
      BY <1>1, <2>1, <2>2 DEF Sightings
  <1> QED
    BY <1>3, <1>4

\* A step of the visit itself: what is passed by and out of reach does not grow.
LEMMA StepKeeps ==
    ASSUME ListInv, Underway, recent' = recent, visit' \in Sightings,
           visit'.of = visit.of, visit'.steady = visit.steady, visit'.changes = visit.changes,
           visit'.step # "done" =>
               /\ visit'.page > 0 /\ (visit'.step = "count" => visit'.of = "list")
               /\ visit'.of = "sitemap" => visit'.page <= visit'.last
               /\ Passed' \subseteq Passed /\ Ahead' \subseteq Ahead,
           visit'.step = "done" => visit'.steady \ visit'.seen \subseteq Passed \cup Ahead
    PROVE  ListInv'
  <1>1. ListTypes' /\ Visible' = Visible
    BY DEF ListInv, ListTypes, Visible
  <1>2. /\ visit.of # "none" /\ visit.steady \subseteq Visible /\ visit.changes \in Nat
        /\ Cardinality(Passed) + Cardinality(Ahead) <= visit.changes
        /\ visit.steady \in SUBSET Items
    BY DEF ListInv, ListTypes, VisitFits, Sightings
  <1>3. Passed \in SUBSET Items /\ Ahead \in SUBSET Items
    BY <1>2 DEF Passed, Ahead
  <1>4. /\ IsFiniteSet(Passed) /\ Cardinality(Passed) \in Nat
        /\ IsFiniteSet(Ahead) /\ Cardinality(Ahead) \in Nat
    BY <1>3, ItemsFinite
  <1>5. VisitFits'
    <2> SUFFICES ASSUME visit'.step # "done"
                 PROVE  Cardinality(Passed') + Cardinality(Ahead') <= visit.changes
      BY <1>1, <1>2 DEF VisitFits, Underway
    <2>1. /\ Cardinality(Passed') \in Nat /\ Cardinality(Passed') <= Cardinality(Passed)
          /\ Cardinality(Ahead') \in Nat /\ Cardinality(Ahead') <= Cardinality(Ahead)
      BY <1>4, NoMore
    <2> QED
      BY <1>2, <1>4, <2>1
  <1>6. FewMissed'
    <2> SUFFICES ASSUME visit'.step = "done"
                 PROVE  Cardinality(visit'.steady \ visit'.seen) <= visit.changes
      BY DEF FewMissed
    <2>1. /\ IsFiniteSet(Passed \cup Ahead) /\ IsFiniteSet(Passed \cap Ahead)
          /\ Cardinality(Passed \cup Ahead) = Cardinality(Passed) + Cardinality(Ahead) - Cardinality(Passed \cap Ahead)
      BY <1>4, FS_Union, FS_Intersection
    <2>2. Cardinality(Passed \cap Ahead) \in Nat
      BY <2>1, FS_CardinalityType
    <2> DEFINE missed == visit'.steady \ visit'.seen
    <2>3. missed \subseteq Passed \cup Ahead
      OBVIOUS
    <2> HIDE DEF missed
    <2>4. Cardinality(missed) \in Nat /\ Cardinality(missed) <= Cardinality(Passed \cup Ahead)
      BY <2>1, <2>3, NoMore
    <2>5. Cardinality(missed) <= visit.changes
      BY <1>2, <1>4, <2>1, <2>2, <2>4
    <2> QED
      BY <2>5 DEF missed
  <1> QED
    BY <1>1, <1>5, <1>6 DEF ListInv

LEMMA StandsStill ==
    ASSUME recent' = recent, visit'.of = visit.of
    PROVE  /\ \A i : StandsAt(i)' = StandsAt(i)
           /\ Passed' = {i \in visit'.steady \ visit'.seen : StandsAt(i) <= Behind'}
           /\ Ahead' = IF visit'.of = "sitemap" THEN {i \in visit'.steady : StandsAt(i) > visit'.last * PageSize} ELSE {}
  <1>1. \A i : StandsAt(i)' = StandsAt(i)
    BY DEF StandsAt, Visible
  <1> QED
    BY <1>1 DEF Passed, Ahead

LEMMA SitemapKeeps ==
    ASSUME ListInv, ReadSitemap
    PROVE  ListInv'
  <1> DEFINE now == visit.seen \cup ById(visit.page)
  <1>1. /\ visit.of = "sitemap" /\ visit.step = "items" /\ recent' = recent /\ Underway
        /\ visit \in Sightings /\ visit.page <= visit.last /\ visit.page > 0
        /\ visit.page \in Nat /\ visit.last \in Nat
        /\ visit.steady \subseteq Visible
    BY DEF ReadSitemap, Underway, ListInv, ListTypes, VisitFits, Sightings
  <1>2. /\ now \in SUBSET Items
        /\ \A i \in visit.steady : i \notin now /\ StandsAt(i) <= visit.page * PageSize => i \in Passed
    BY <1>1, PageIsSeen
  <1>3. visit' = Turn([visit EXCEPT !.seen = now])
    BY DEF ReadSitemap
  <1> HIDE DEF now
  <1>4. CASE visit.page < visit.last
    <2>1. visit' = [[visit EXCEPT !.seen = now] EXCEPT !.step = "items", !.page = @ + 1]
      BY <1>1, <1>3, <1>4 DEF Turn, Sightings
    <2>2. /\ visit' \in Sightings /\ visit'.of = visit.of /\ visit'.steady = visit.steady
          /\ visit'.changes = visit.changes /\ visit'.step = "items" /\ visit'.page = visit.page + 1
          /\ visit'.last = visit.last /\ visit'.seen = now
      <3> DEFINE v == [visit EXCEPT !.seen = now]
      <3>1. /\ v \in Sightings /\ v.of = visit.of /\ v.steady = visit.steady /\ v.changes = visit.changes
            /\ v.page = visit.page /\ v.last = visit.last /\ v.seen = now /\ v.page + 1 \in Nat
        BY <1>1, <1>2 DEF Sightings
      <3>2. visit' = [v EXCEPT !.step = "items", !.page = v.page + 1]
        BY <2>1
      <3> HIDE DEF v
      <3> QED
        BY <3>1, <3>2 DEF Sightings
    <2>3. Behind' = visit.page * PageSize
      BY <1>1, <2>2 DEF Behind
    <2>4. Passed' \subseteq Passed /\ Ahead' \subseteq Ahead
      BY <1>1, <1>2, <2>2, <2>3, StandsStill DEF Ahead
    <2> QED
      BY <1>1, <1>4, <2>2, <2>4, StepKeeps
  <1>5. CASE ~(visit.page < visit.last)
    <2>1. visit' = [[visit EXCEPT !.seen = now] EXCEPT !.step = "done"]
      BY <1>1, <1>3, <1>5 DEF Turn, Sightings
    <2>2. /\ visit' \in Sightings /\ visit'.of = visit.of /\ visit'.steady = visit.steady
          /\ visit'.changes = visit.changes /\ visit'.step = "done" /\ visit'.seen = now
      BY <1>1, <1>2, <2>1 DEF Sightings
    <2>3. visit.page = visit.last
      BY <1>1, <1>5
    <2>4. visit'.steady \ visit'.seen \subseteq Passed \cup Ahead
      <3>1. ASSUME NEW i \in visit.steady, i \notin now PROVE i \in Passed \cup Ahead
        <4>1. StandsAt(i) \in Nat /\ visit.last * PageSize \in Int
          BY <1>1, StandsOnce, ListConstants DEF ListInv
        <4>2. CASE StandsAt(i) <= visit.last * PageSize
          BY <1>2, <2>3, <3>1, <4>2
        <4>3. CASE StandsAt(i) > visit.last * PageSize
          BY <1>1, <4>3 DEF Ahead
        <4> QED
          BY <4>1, <4>2, <4>3
      <3> QED
        BY <2>2, <3>1
    <2> QED
      BY <1>1, <2>2, <2>4, StepKeeps
  <1> QED
    BY <1>4, <1>5

LEMMA ItemsKeep ==
    ASSUME ListInv, ReadItems
    PROVE  ListInv'
  <1> DEFINE now == visit.seen \cup ByDate(visit.page)
  <1>1. /\ visit.of = "list" /\ visit.step = "items" /\ recent' = recent /\ Underway
        /\ visit \in Sightings /\ visit.page > 0
    BY DEF ReadItems, Underway, ListInv, ListTypes, VisitFits
  <1>2. /\ now \in SUBSET Items
        /\ \A i \in visit.steady : i \notin now /\ StandsAt(i) <= visit.page * PageSize => i \in Passed
    BY <1>1, PageIsSeen
  <1>3. visit' = [visit EXCEPT !.seen = now, !.step = "count"]
    BY DEF ReadItems
  <1> HIDE DEF now
  <1>4. /\ visit' \in Sightings /\ visit'.of = visit.of /\ visit'.steady = visit.steady
        /\ visit'.changes = visit.changes /\ visit'.step = "count" /\ visit'.page = visit.page
        /\ visit'.last = visit.last /\ visit'.seen = now
    BY <1>1, <1>2, <1>3 DEF Sightings
  <1>5. Behind' = visit.page * PageSize
    BY <1>4 DEF Behind
  <1>6. Passed' \subseteq Passed /\ Ahead' \subseteq Ahead
    BY <1>1, <1>2, <1>4, <1>5, StandsStill DEF Ahead
  <1> QED
    BY <1>1, <1>4, <1>6, StepKeeps

\* The count is of the rows as they are now, so at the end nothing stands beyond the last page.
LEMMA CountKeeps ==
    ASSUME ListInv, CountItems
    PROVE  ListInv'
  <1> DEFINE last == Pages(Len(recent))
  <1>1. /\ visit.step = "count" /\ visit.of = "list" /\ recent' = recent /\ Underway
        /\ visit \in Sightings /\ visit.page > 0 /\ visit.page \in Nat /\ visit.steady \subseteq Visible
        /\ Len(recent) \in Nat /\ PageSize \in Nat
    BY StandsOnce, ListConstants DEF CountItems, Underway, ListInv, ListTypes, VisitFits, Sightings
  <1>2. last \in Nat /\ last * PageSize >= Len(recent)
    BY <1>1, PagesHoldAll
  <1>3. visit' = Turn([visit EXCEPT !.last = last])
    BY DEF CountItems
  <1>4. Behind = visit.page * PageSize
    BY <1>1 DEF Behind
  <1> HIDE DEF last
  <1>5. CASE visit.page < last
    <2>1. visit' = [[visit EXCEPT !.last = last] EXCEPT !.step = "items", !.page = @ + 1]
      BY <1>1, <1>3, <1>5 DEF Turn, Sightings
    <2>2. /\ visit' \in Sightings /\ visit'.of = visit.of /\ visit'.steady = visit.steady
          /\ visit'.changes = visit.changes /\ visit'.step = "items" /\ visit'.page = visit.page + 1
          /\ visit'.seen = visit.seen
      <3> DEFINE v == [visit EXCEPT !.last = last]
      <3>1. /\ v \in Sightings /\ v.of = visit.of /\ v.steady = visit.steady /\ v.changes = visit.changes
            /\ v.page = visit.page /\ v.seen = visit.seen /\ v.page + 1 \in Nat
        BY <1>1, <1>2 DEF Sightings
      <3>2. visit' = [v EXCEPT !.step = "items", !.page = v.page + 1]
        BY <2>1
      <3> HIDE DEF v
      <3> QED
        BY <3>1, <3>2 DEF Sightings
    <2>3. Behind' = Behind
      BY <1>1, <1>4, <2>2 DEF Behind
    <2>4. Passed' \subseteq Passed /\ Ahead' \subseteq Ahead
      BY <1>1, <2>2, <2>3, StandsStill DEF Passed, Ahead
    <2> QED
      BY <1>1, <2>2, <2>4, StepKeeps
  <1>6. CASE ~(visit.page < last)
    <2>1. visit' = [[visit EXCEPT !.last = last] EXCEPT !.step = "done"]
      BY <1>1, <1>3, <1>6 DEF Turn, Sightings
    <2>2. /\ visit' \in Sightings /\ visit'.of = visit.of /\ visit'.steady = visit.steady
          /\ visit'.changes = visit.changes /\ visit'.step = "done" /\ visit'.seen = visit.seen
      BY <1>1, <1>2, <2>1 DEF Sightings
    <2>3. last * PageSize <= visit.page * PageSize
      BY <1>1, <1>2, <1>6
    <2>4. visit'.steady \ visit'.seen \subseteq Passed \cup Ahead
      <3>1. ASSUME NEW i \in visit.steady, i \notin visit.seen PROVE i \in Passed
        <4>1. StandsAt(i) \in Nat /\ StandsAt(i) <= Len(recent)
          BY <1>1, StandsOnce DEF ListInv
        <4>2. last * PageSize \in Int /\ visit.page * PageSize \in Int
          BY <1>1, <1>2
        <4>3. StandsAt(i) <= Behind
          BY <1>1, <1>2, <1>4, <2>3, <4>1, <4>2
        <4> QED
          BY <3>1, <4>3 DEF Passed
      <3> QED
        BY <2>2, <3>1
    <2> QED
      BY <1>1, <2>2, <2>4, StepKeeps
  <1> QED
    BY <1>5, <1>6

LEMMA ListKeeps == ListInv /\ [ListNext]_listVars => ListInv'
  <1> SUFFICES ASSUME ListInv, [ListNext]_listVars PROVE ListInv'
    OBVIOUS
  <1>1. CASE UNCHANGED listVars
    <2>1. recent' = recent /\ visit' = visit
      BY <1>1 DEF listVars
    <2>2. Passed' = Passed /\ Ahead' = Ahead /\ Visible' = Visible
      BY <2>1 DEF Passed, Ahead, StandsAt, Behind, Visible
    <2> QED
      BY <2>1, <2>2 DEF ListInv, ListTypes, VisitFits, Underway, FewMissed
  <1>2. CASE ListNext
    BY <1>2, OpeningKeeps, SitemapKeeps, ItemsKeep, CountKeeps, ShowKeeps, BumpKeeps, HideKeeps DEF ListNext
  <1> QED
    BY <1>1, <1>2

\* app/sitemap and [section]/page.tsx, which read the items a page at a time: however many are
\* published, raised to the front and hidden meanwhile, each change costs a visit one item at most.
THEOREM FewAreMissed == ListSpec => []FewMissed
  <1>1. ListInv => FewMissed
    BY DEF ListInv
  <1> QED
    BY <1>1, ListStarts, ListKeeps, PTL DEF ListSpec

-----------------------------------------------------------------------------
(***************************************************************************)
(* Sitemaps, heads and links                                               *)
(***************************************************************************)

\* The rows have their types, and no category comes back.
SiteInv ==
    /\ work \in [Works -> [published : BOOLEAN, public : BOOLEAN, deleted : BOOLEAN, of : SUBSET Genres]]
    /\ leaf \in [Leaves -> [published : BOOLEAN, deleted : BOOLEAN]]
    /\ genres \subseteq Genres

LEMMA SiteInvariant == SiteSpec => []SiteInv
<1>1. SiteInit => SiteInv
  BY DEF SiteInit, SiteInv
<1>2. SiteInv /\ [SiteNext]_siteVars => SiteInv'
  <2> SUFFICES ASSUME SiteInv, [SiteNext]_siteVars PROVE SiteInv'
    OBVIOUS
  <2>1. ASSUME NEW c \in Works, EditWork(c) \/ ModerateWork(c) PROVE SiteInv'
    <3> DEFINE Values == [published : BOOLEAN, public : BOOLEAN, deleted : BOOLEAN, of : SUBSET Genres]
    <3>1. work[c] \in Values /\ genres \subseteq Genres
      BY DEF SiteInv
    <3>2. PICK r \in Values : Write(c, r)
      <4>1. \A chosen \in SUBSET genres : [work[c] EXCEPT !.of = chosen] \in Values
        BY <3>1
      <4>2. /\ [work[c] EXCEPT !.published = TRUE, !.public = TRUE] \in Values
            /\ [work[c] EXCEPT !.published = FALSE] \in Values
            /\ [work[c] EXCEPT !.public = ~@] \in Values
            /\ [work[c] EXCEPT !.published = FALSE, !.deleted = TRUE] \in Values
            /\ [work[c] EXCEPT !.published = ~@] \in Values
            /\ [work[c] EXCEPT !.deleted = FALSE] \in Values
        BY <3>1
      <4> HIDE DEF Values
      <4> QED BY <2>1, <4>1, <4>2 DEF EditWork, ModerateWork
    <3> QED BY <3>2 DEF Write, SiteInv
  <2>2. ASSUME NEW p \in Leaves, EditLeaf(p) PROVE SiteInv'
    <3> DEFINE Values == [published : BOOLEAN, deleted : BOOLEAN]
    <3>1. leaf[p] \in Values
      BY DEF SiteInv
    <3>2. PICK r \in Values : leaf' = [leaf EXCEPT ![p] = r]
      BY <2>2, <3>1 DEF EditLeaf
    <3> QED BY <2>2, <3>2 DEF EditLeaf, SiteInv
  <2>3. ASSUME NEW g \in Genres, DropGenre(g) PROVE SiteInv'
    BY <2>3 DEF DropGenre, SiteInv
  <2>4. CASE UNCHANGED siteVars
    BY <2>4 DEF siteVars, SiteInv
  <2> QED BY <2>1, <2>2, <2>3, <2>4 DEF SiteNext
<1> QED BY <1>1, <1>2, PTL DEF SiteSpec

\* What the pages of each kind answer.
LEMMA WhatPagesSay ==
  ASSUME NEW r, NEW n
  PROVE  /\ Found(PageAt("item", r, n)) <=> Public(r)
         /\ Found(PageAt("chapter", r, n)) <=> (Public(StoryOf[r]) /\ r \in ChaptersOf(StoryOf[r]))
         /\ Found(PageAt("genre", r, n)) <=> (r \in genres)
         /\ \A type \in {"home", "section", "creator", "creators", "genres", "tag"} :
               Found(PageAt(type, r, n))
         /\ SaysIndex(PageAt("item", r, n)) <=> Public(r)
         /\ SaysIndex(PageAt("chapter", r, n)) <=> ChapterHead(r)
         /\ SaysIndex(PageAt("genre", r, n)) <=> GenreHead(r)
         /\ SaysIndex(PageAt("tag", r, n)) <=> TagHead(r)
         /\ \A type \in {"home", "section", "creator", "creators", "genres"} :
               SaysIndex(PageAt(type, r, n))
  BY DEF Found, SaysIndex, PageAt

LEMMA StaticOnes ==
  ASSUME NEW page \in StaticPages
  PROVE  Found(page) /\ SaysIndex(page)
  BY WhatPagesSay DEF StaticPages, Home, Others

LEMMA SitemapsAreExact == SiteInv => SitemapsExact
<1> SUFFICES ASSUME SiteInv, NEW page
             PROVE  page \in InSitemap <=> page \in AllPages /\ Found(page) /\ SaysIndex(page)
  BY DEF SitemapsExact
<1> DEFINE Indexed == Found(page) /\ SaysIndex(page)
<1>1. page \in ItemEntries <=> page \in PagesFor("item", Works) /\ Indexed
  <2>1. OfType("STORY") \cup OfType("ARTICLE") = {c \in Works : Public(c)}
    BY DEF OfType, Works
  <2> QED BY <2>1, WhatPagesSay DEF ItemEntries, PagesFor
<1>2. page \in ChapterEntries <=> page \in PagesFor("chapter", Leaves) /\ Indexed
  <2>1. \A p \in Leaves : Public(StoryOf[p]) /\ p \in ChaptersOf(StoryOf[p]) => ChapterHead(p)
    BY DEF Public, ChaptersOf, ChapterHead
  <2>2. \A p \in Leaves : Found(PageAt("chapter", p, 1)) /\ SaysIndex(PageAt("chapter", p, 1))
                            <=> Public(StoryOf[p]) /\ p \in ChaptersOf(StoryOf[p])
    BY <2>1, WhatPagesSay
  <2> QED BY <2>2 DEF ChapterEntries, PagesFor
<1>3. page \in CreatorEntries <=> page \in PagesFor("creator", CreatorsAtWork) /\ Indexed
  BY WhatPagesSay DEF CreatorEntries, PagesFor
<1>4. page \in GenreEntries <=> page \in PagesFor("genre", Genres) /\ Indexed
  <2>1. \A g \in Genres : Found(PageAt("genre", g, 1)) /\ SaysIndex(PageAt("genre", g, 1))
                            <=> g \in genres /\ Cardinality(InGenre(g)) >= MinToIndex
    BY WhatPagesSay DEF GenreHead
  <2>2. genres \subseteq Genres
    BY DEF SiteInv
  <2> QED BY <2>1, <2>2 DEF GenreEntries, PagesFor
<1>5. page \in TagEntries <=> page \in PagesFor("tag", Tags) /\ Indexed
  <2>1. \A t \in Tags : Found(PageAt("tag", t, 1)) /\ SaysIndex(PageAt("tag", t, 1))
                          <=> Cardinality(Tagged(t)) >= MinToIndex
    BY WhatPagesSay DEF TagHead
  <2> QED BY <2>1 DEF TagEntries, PagesFor
<1>6. page \in StaticPages => Indexed
  BY StaticOnes
<1> HIDE DEF Indexed
<1>7. page \in InSitemap <=> page \in AllPages /\ Indexed
  BY <1>1, <1>2, <1>3, <1>4, <1>5, <1>6 DEF InSitemap, AllPages
<1> QED BY <1>7 DEF Indexed

-----------------------------------------------------------------------------
(***************************************************************************)
(* A crawler                                                               *)
(***************************************************************************)

\* As deep as the site may be: all stories one to a page, and all chapters of the last
\* of them one to a page; or all articles.
EnoughClicks ==
    /\ Clicks >= Cardinality(Stories) + Cardinality(Leaves) + 2
    /\ Clicks >= Cardinality(Articles) + 1

\* A crawler that clicks once more knows what it knew, and the links on it.
LEMMA OneMoreClick ==
  /\ Known[0] = {Home}
  /\ \A k \in 1..Clicks : Known[k] = Follow(Known[k - 1])
<1> DEFINE table(t) == [k \in 0..Clicks |-> IF k = 0 THEN {Home} ELSE Follow(t[k - 1])]
           Built(t, n) == \A k \in 0..n : t[k] = IF k = 0 THEN {Home} ELSE Follow(t[k - 1])
           built == {n \in Nat : \E t : Built(t, n)}
<1>1. Clicks \in Nat
  BY DiscoveryAssumption
<1>2. ASSUME NEW n \in Nat, \A k \in Nat : k < n => k \in built
      PROVE  n \in built
  <2>1. CASE n = 0
    <3> DEFINE t == [k \in 0..0 |-> {Home}]
    <3>1. Built(t, 0)
      OBVIOUS
    <3> HIDE DEF t, Built
    <3> QED BY <2>1, <3>1
  <2>2. CASE n # 0
    <3>1. n - 1 \in Nat /\ n - 1 < n
      BY <2>2
    <3>2. n - 1 \in built
      <4> HIDE DEF built
      <4> QED BY <1>2, <3>1
    <3>3. PICK t : Built(t, n - 1)
      BY <3>2
    <3> DEFINE u == [k \in 0..n |-> IF k = n THEN Follow(t[n - 1]) ELSE t[k]]
    <3>4. Built(u, n)
      <4> SUFFICES ASSUME NEW k \in 0..n
                   PROVE  u[k] = IF k = 0 THEN {Home} ELSE Follow(u[k - 1])
        OBVIOUS
      <4>1. CASE k = n
        <5>1. n - 1 \in 0..n /\ n - 1 # n
          BY <3>1
        <5>2. u[n - 1] = t[n - 1] /\ u[n] = Follow(t[n - 1])
          BY <5>1
        <5> HIDE DEF u
        <5> QED BY <2>2, <4>1, <5>2
      <4>2. CASE k # n
        <5>1. k \in 0..(n - 1) /\ (k # 0 => k - 1 \in 0..n /\ k - 1 # n)
          BY <4>2
        <5>2. u[k] = t[k] /\ (k # 0 => u[k - 1] = t[k - 1])
          BY <4>2, <5>1
        <5>3. t[k] = IF k = 0 THEN {Home} ELSE Follow(t[k - 1])
          BY <3>3, <5>1
        <5> HIDE DEF u
        <5> QED BY <5>2, <5>3
      <4> QED BY <4>1, <4>2
    <3> HIDE DEF u, Built
    <3> QED BY <3>4
  <2> QED BY <2>1, <2>2
<1>3. \A n \in Nat : n \in built
  <2> HIDE DEF built
  <2> QED BY <1>2, FirstGap
<1>4. PICK t : Built(t, Clicks)
  BY <1>1, <1>3
<1>5. [k \in 0..Clicks |-> t[k]] = table([k \in 0..Clicks |-> t[k]])
  <2> SUFFICES ASSUME NEW k \in 0..Clicks
               PROVE  t[k] = IF k = 0 THEN {Home} ELSE Follow([j \in 0..Clicks |-> t[j]][k - 1])
    OBVIOUS
  <2>1. k # 0 => k - 1 \in 0..Clicks
    BY <1>1
  <2>2. k # 0 => [j \in 0..Clicks |-> t[j]][k - 1] = t[k - 1]
    BY <2>1
  <2>3. t[k] = IF k = 0 THEN {Home} ELSE Follow(t[k - 1])
    BY <1>4
  <2> QED BY <2>2, <2>3
<1>6. Known = table(Known)
  <2>1. Known = CHOOSE f : f = table(f)
    BY DEF Known
  <2> HIDE DEF table
  <2> QED BY <1>5, <2>1
<1>7. \A k \in 0..Clicks : Known[k] = IF k = 0 THEN {Home} ELSE Follow(Known[k - 1])
  BY <1>6
<1> QED BY <1>1, <1>7

\* It forgets nothing.
LEMMA NothingForgotten ==
  ASSUME NEW j \in 0..Clicks, NEW k \in 0..Clicks, j <= k
  PROVE  Known[j] \subseteq Known[k]
<1> DEFINE kept == {n \in Nat : j + n <= Clicks => Known[j] \subseteq Known[j + n]}
<1>1. Clicks \in Nat
  BY DiscoveryAssumption
<1>2. ASSUME NEW n \in Nat, \A m \in Nat : m < n => m \in kept
      PROVE  n \in kept
  <2> SUFFICES ASSUME j + n <= Clicks PROVE Known[j] \subseteq Known[j + n]
    OBVIOUS
  <2>1. CASE n = 0
    BY <2>1
  <2>2. CASE n # 0
    <3>1. n - 1 \in Nat /\ n - 1 < n /\ j + (n - 1) <= Clicks /\ j + n \in 1..Clicks
          /\ (j + n) - 1 = j + (n - 1)
      BY <1>1, <2>2
    <3>2. n - 1 \in kept
      <4> HIDE DEF kept
      <4> QED BY <1>2, <3>1
    <3>3. Known[j] \subseteq Known[j + (n - 1)]
      BY <3>1, <3>2
    <3>4. Known[j + n] = Follow(Known[j + (n - 1)])
      BY <3>1, OneMoreClick
    <3> QED BY <3>3, <3>4 DEF Follow
  <2> QED BY <2>1, <2>2
<1>3. \A n \in Nat : n \in kept
  <2> HIDE DEF kept
  <2> QED BY <1>2, FirstGap
<1>4. k - j \in Nat /\ j + (k - j) = k /\ k <= Clicks
  BY <1>1
<1>5. k - j \in kept
  <2> HIDE DEF kept
  <2> QED BY <1>3, <1>4
<1> QED BY <1>4, <1>5

\* It knows the links on a page one click after the page.
LEMMA LinkKnown ==
  ASSUME NEW k \in 0..Clicks, k + 1 <= Clicks, NEW page \in Known[k], Found(page),
         NEW link \in LinksOn(page)
  PROVE  link \in Known[k + 1]
<1>1. k + 1 \in 1..Clicks /\ (k + 1) - 1 = k
  BY DiscoveryAssumption
<1>2. Known[k + 1] = Follow(Known[k])
  BY <1>1, OneMoreClick
<1> QED BY <1>2 DEF Follow

\* The header is on the home page.
LEMMA HeaderKnown ==
  ASSUME EnoughClicks
  PROVE  2 <= Clicks /\ Header \subseteq Known[1]
<1>1. 2 <= Clicks /\ Clicks \in Nat
  <2>1. Cardinality(Stories) \in Nat /\ Cardinality(Leaves) \in Nat /\ Clicks \in Nat
    BY DiscoveryAssumption, FS_Subset, FS_CardinalityType DEF Works
  <2> QED BY <2>1 DEF EnoughClicks
<1>2. Home \in Known[0] /\ Found(Home) /\ Header \subseteq LinksOn(Home)
  BY OneMoreClick, WhatPagesSay DEF Home, LinksOn
<1>3. 0 \in 0..Clicks /\ 0 + 1 <= Clicks /\ 0 + 1 = 1
  BY <1>1
<1>4. \A link \in Header : link \in Known[0 + 1]
  BY <1>2, <1>3, LinkKnown
<1> QED BY <1>1, <1>3, <1>4

-----------------------------------------------------------------------------

\* Each of a finite number of rows is on one of the pages of their list.
LEMMA RowOnPage ==
  ASSUME NEW set, IsFiniteSet(set), NEW x \in set
  PROVE  \E j \in PagesOf(set) : x \in Rows(set, j)
<1> DEFINE n == Cardinality(set)
           list == SetToSeq(set)
<1>1. n \in Nat
  BY FS_CardinalityType
<1>2. PerPage \in Nat /\ PerPage # 0
  BY DiscoveryAssumption
<1>3. list \in [1..n -> set] /\ IsInjective(list)
  <2>1. PICK f \in Bijection(1..n, set) : TRUE
    BY FS_CardinalityType DEF ExistsBijection
  <2>2. f \in [1..n -> set] /\ IsInjective(f)
    BY DEF Bijection, Injection
  <2> QED BY <2>2 DEF SetToSeq
<1>4. PICK i \in 1..n : list[i] = x
  <2> HIDE DEF list
  <2>1. list \in Injection(1..n, set)
    BY <1>3 DEF Injection
  <2>2. IsFiniteSet(1..n) /\ Cardinality(1..n) = n
    <3> DEFINE a == 1
    <3> HIDE DEF n
    <3>1. a \in Int /\ n \in Int /\ n >= 0
      BY <1>1
    <3>2. IsFiniteSet(a..n) /\ Cardinality(a..n) = IF a > n THEN 0 ELSE n - a + 1
      <4> HIDE DEF a
      <4> QED BY <3>1, FS_Interval
    <3> QED BY <1>1, <3>2
  <2>3. list \in Surjection(1..n, set)
    BY <2>1, <2>2, FS_Injection
  <2> QED BY <2>3 DEF Surjection
<1> HIDE DEF list, n
<1> DEFINE q == (i - 1) \div PerPage
<1>5. q \in Nat /\ PerPage * q <= i - 1 /\ i - 1 < PerPage * q + PerPage /\ i - 1 \in Nat
  <2> DEFINE b == i - 1
  <2>1. b \in Nat
    BY <1>1
  <2> HIDE DEF b
  <2>2. b \div PerPage \in Nat /\ PerPage * (b \div PerPage) <= b /\ b < PerPage * (b \div PerPage) + PerPage
    BY <1>2, <2>1, DivisionLeaves
  <2> QED BY <2>1, <2>2 DEF b
<1> HIDE DEF q
<1>6. PerPage * q \in Nat /\ q <= PerPage * q /\ i \in Int /\ i <= n
  <2>1. PerPage * q \in Nat
    BY <1>2, <1>5
  <2>2. q * 1 <= q * PerPage
    BY <1>2, <1>5, ScaleUp
  <2> QED BY <1>1, <1>2, <1>5, <2>1, <2>2
<1>7. ((q + 1) - 1) * PerPage = PerPage * q /\ (q + 1) * PerPage = PerPage * q + PerPage
  BY <1>2, <1>5
<1>8. q + 1 \in PagesOf(set)
  <2>1. PerPage * q < n /\ q + 1 \in 1..n
    BY <1>1, <1>5, <1>6
  <2> QED BY <1>7, <2>1 DEF PagesOf, n
<1>9. x \in Rows(set, q + 1)
  <2>1. i \in DOMAIN list
    BY <1>3
  <2>2. PerPage * q < i /\ i <= PerPage * q + PerPage
    <3> DEFINE pq == PerPage * q
    <3>1. pq \in Int /\ pq <= i - 1 /\ i - 1 < pq + PerPage /\ i \in Int
      BY <1>5, <1>6
    <3> HIDE DEF pq
    <3>2. pq < i /\ i <= pq + PerPage
      BY <1>2, <3>1
    <3> QED BY <3>2 DEF pq
  <2> QED BY <1>4, <1>7, <2>1, <2>2 DEF Rows, list
<1> QED BY <1>8, <1>9

\* A crawler that knows the first page of a list turns one page with each click.
LEMMA PagesTurned ==
  ASSUME NEW set, IsFiniteSet(set), NEW type, NEW r, NEW k \in 0..Clicks,
         PageAt(type, r, 1) \in Known[k],
         \A j \in PagesOf(set) : /\ Found(PageAt(type, r, j))
                                 /\ Turns(PageAt(type, r, j), set) \subseteq LinksOn(PageAt(type, r, j)),
         NEW j \in PagesOf(set), k + j - 1 <= Clicks
  PROVE  PageAt(type, r, j) \in Known[k + j - 1]
<1> DEFINE turned == {n \in Nat : n + 1 \in PagesOf(set) /\ k + n <= Clicks
                                    => PageAt(type, r, n + 1) \in Known[k + n]}
<1>1. Clicks \in Nat /\ PerPage \in Nat /\ PerPage # 0 /\ Cardinality(set) \in Nat
  BY DiscoveryAssumption, FS_CardinalityType
<1>2. ASSUME NEW n \in Nat, \A m \in Nat : m < n => m \in turned
      PROVE  n \in turned
  <2> SUFFICES ASSUME n + 1 \in PagesOf(set), k + n <= Clicks
               PROVE  PageAt(type, r, n + 1) \in Known[k + n]
    OBVIOUS
  <2>1. CASE n = 0
    BY <2>1
  <2>2. CASE n # 0
    <3>1. n - 1 \in Nat /\ n - 1 < n /\ k + (n - 1) \in 0..Clicks /\ (k + (n - 1)) + 1 = k + n
          /\ (n - 1) + 1 = n /\ k + (n - 1) <= Clicks
      BY <1>1, <2>2
    <3>2. n \in PagesOf(set)
      <4> DEFINE size == Cardinality(set)
      <4>1. n + 1 \in 1..size /\ n * PerPage < size /\ size \in Nat
        <5>1. (n + 1) - 1 = n
          OBVIOUS
        <5> QED BY <1>1, <5>1 DEF PagesOf
      <4>2. n * PerPage = (n - 1) * PerPage + PerPage
        BY <1>1, <3>1
      <4>3. (n - 1) * PerPage \in Nat
        BY <1>1, <3>1
      <4>4. (n - 1) * PerPage < size /\ n \in 1..size
        <5> DEFINE np == (n - 1) * PerPage
        <5> HIDE DEF size, np
        <5>1. np \in Nat /\ np + PerPage < size
          BY <4>1, <4>2, <4>3 DEF np
        <5>2. np < size
          BY <1>1, <4>1, <5>1
        <5> QED BY <2>2, <4>1, <5>2 DEF np
      <4> QED BY <4>4 DEF PagesOf
    <3>3. n - 1 \in turned
      <4> HIDE DEF turned
      <4> QED BY <1>2, <3>1
    <3>4. PageAt(type, r, n) \in Known[k + (n - 1)]
      BY <3>1, <3>2, <3>3
    <3>5. PageAt(type, r, n + 1) \in Turns(PageAt(type, r, n), set)
      BY DEF Turns, PageAt
    <3>6. PageAt(type, r, n + 1) \in Known[(k + (n - 1)) + 1]
      BY <2>2, <3>1, <3>2, <3>4, <3>5, LinkKnown
    <3> QED BY <3>1, <3>6
  <2> QED BY <2>1, <2>2
<1>3. \A n \in Nat : n \in turned
  <2> HIDE DEF turned
  <2> QED BY <1>2, FirstGap
<1>4. j - 1 \in Nat /\ (j - 1) + 1 = j /\ k + (j - 1) = k + j - 1
  BY DEF PagesOf
<1>5. j - 1 \in turned
  <2> HIDE DEF turned
  <2> QED BY <1>3, <1>4
<1> QED BY <1>4, <1>5

\* A row of the list one click after its page.
LEMMA ItemKnown ==
  ASSUME EnoughClicks, NEW c \in Works, Public(c)
  PROVE  /\ c \in Stories => /\ Cardinality(Stories) + 1 \in 0..Clicks
                             /\ PageAt("item", c, 1) \in Known[Cardinality(Stories) + 1]
         /\ PageAt("item", c, 1) \in Known[Clicks]
<1> DEFINE type == IF c \in Stories THEN "STORY" ELSE "ARTICLE"
           all == IF c \in Stories THEN Stories ELSE Articles
           set == OfType(type)
<1>1. /\ c \in set /\ set \subseteq all /\ IsFiniteSet(all) /\ Cardinality(all) \in Nat
      /\ IsFiniteSet(set) /\ Cardinality(set) \in Nat /\ Cardinality(set) <= Cardinality(all)
  <2>1. c \in set /\ set \subseteq all /\ all \subseteq Works
    BY DEF OfType, Works
  <2>2. IsFiniteSet(all) /\ Cardinality(all) \in Nat
    BY <2>1, DiscoveryAssumption, FS_Subset, FS_CardinalityType
  <2> HIDE DEF all, set
  <2> QED BY <2>1, <2>2, FS_Subset, FS_CardinalityType
<1>2. Clicks \in Nat /\ Cardinality(all) + 1 <= Clicks
  <2>1. Cardinality(Stories) \in Nat /\ Cardinality(Leaves) \in Nat /\ Clicks \in Nat
        /\ Cardinality(Articles) \in Nat
    BY DiscoveryAssumption, FS_Subset, FS_CardinalityType DEF Works
  <2> QED BY <2>1 DEF EnoughClicks
<1>3. PageAt("section", type, 1) \in Known[1]
  <2>1. PageAt("section", type, 1) \in Header
    BY DEF Header, Sections, PagesFor
  <2> QED BY <2>1, HeaderKnown
<1>4. PICK j \in PagesOf(set) : c \in Rows(set, j)
  <2> HIDE DEF set
  <2> QED BY <1>1, RowOnPage
<1>5. \A i \in PagesOf(set) :
         /\ Found(PageAt("section", type, i))
         /\ SectionLinks(PageAt("section", type, i)) \subseteq LinksOn(PageAt("section", type, i))
         /\ Turns(PageAt("section", type, i), set) \subseteq SectionLinks(PageAt("section", type, i))
         /\ PagesFor("item", Rows(set, i)) \subseteq SectionLinks(PageAt("section", type, i))
  <2> HIDE DEF type
  <2> QED BY WhatPagesSay DEF LinksOn, SectionLinks, PageAt
<1>6. j \in 1..Cardinality(set) /\ 1 \in 0..Clicks /\ 1 + j - 1 = j /\ j \in 0..Clicks /\ j + 1 \in 0..Clicks
      /\ j + 1 <= Clicks /\ j + 1 <= Cardinality(all) + 1 /\ j <= Clicks
  <2>1. j \in 1..Cardinality(set)
    BY DEF PagesOf
  <2> HIDE DEF set, all
  <2> QED BY <1>1, <1>2, <2>1
<1>7. PageAt("section", type, j) \in Known[j]
  <2>1. PageAt("section", type, j) \in Known[1 + j - 1]
    <3> HIDE DEF set, type
    <3> QED BY <1>1, <1>3, <1>5, <1>6, PagesTurned
  <2> QED BY <1>6, <2>1
<1>8. PageAt("item", c, 1) \in Known[j + 1]
  <2>1. PageAt("item", c, 1) \in LinksOn(PageAt("section", type, j))
    BY <1>4, <1>5 DEF PagesFor
  <2> HIDE DEF set, type
  <2> QED BY <1>5, <1>6, <1>7, <2>1, LinkKnown
<1> HIDE DEF set, type
<1>9. PageAt("item", c, 1) \in Known[Clicks]
  <2>1. Clicks \in 0..Clicks
    BY <1>2
  <2> QED BY <1>6, <1>8, <2>1, NothingForgotten
<1>10. ASSUME c \in Stories
       PROVE  /\ Cardinality(Stories) + 1 \in 0..Clicks
              /\ PageAt("item", c, 1) \in Known[Cardinality(Stories) + 1]
  <2>1. all = Stories
    BY <1>10
  <2> HIDE DEF all
  <2>2. Cardinality(all) + 1 \in 0..Clicks
    BY <1>1, <1>2
  <2>3. PageAt("item", c, 1) \in Known[Cardinality(all) + 1]
    BY <1>6, <1>8, <2>2, NothingForgotten
  <2> QED BY <2>1, <2>2, <2>3
<1> QED BY <1>9, <1>10

\* A chapter of a public story is on one of the pages of the story.
LEMMA ChapterKnown ==
  ASSUME EnoughClicks, NEW p \in Leaves, Public(StoryOf[p]), p \in ChaptersOf(StoryOf[p])
  PROVE  PageAt("chapter", p, 1) \in Known[Clicks]
<1> DEFINE c == StoryOf[p]
           set == ChaptersOf(c)
           k == Cardinality(Stories) + 1
<1>1. c \in Stories /\ c \in Works /\ c \notin Articles
  BY DiscoveryAssumption DEF Works
<1>2. k \in 0..Clicks /\ PageAt("item", c, 1) \in Known[k]
  BY <1>1, ItemKnown
<1>3. IsFiniteSet(set) /\ Cardinality(set) \in Nat /\ Cardinality(set) <= Cardinality(Leaves)
      /\ Cardinality(Leaves) \in Nat
  <2>1. set \subseteq Leaves /\ IsFiniteSet(Leaves)
    BY DiscoveryAssumption DEF ChaptersOf
  <2> HIDE DEF set
  <2> QED BY <2>1, FS_Subset, FS_CardinalityType
<1>4. \A i \in PagesOf(set) :
         /\ Found(PageAt("item", c, i))
         /\ ItemLinks(PageAt("item", c, i)) \subseteq LinksOn(PageAt("item", c, i))
         /\ Turns(PageAt("item", c, i), set) \subseteq ItemLinks(PageAt("item", c, i))
         /\ PagesFor("chapter", Rows(set, i)) \subseteq ItemLinks(PageAt("item", c, i))
  <2>1. Public(c)
    OBVIOUS
  <2> HIDE DEF c
  <2> QED BY <1>1, <2>1, WhatPagesSay, ZenonT(60) DEF LinksOn, ItemLinks, PageAt
<1>5. PICK j \in PagesOf(set) : p \in Rows(set, j)
  <2>1. p \in set
    OBVIOUS
  <2> HIDE DEF set
  <2> QED BY <1>3, <2>1, RowOnPage
<1>6. /\ j \in 1..Cardinality(set) /\ k + j - 1 \in 0..Clicks /\ k + j - 1 <= Clicks
      /\ (k + j - 1) + 1 <= Clicks /\ (k + j - 1) + 1 \in 0..Clicks /\ Clicks \in 0..Clicks
  <2>1. j \in 1..Cardinality(set)
    BY DEF PagesOf
  <2>2. Cardinality(Stories) \in Nat /\ Clicks \in Nat
        /\ Cardinality(Stories) + Cardinality(Leaves) + 2 <= Clicks
    <3>1. Cardinality(Stories) \in Nat /\ Clicks \in Nat
      BY DiscoveryAssumption, FS_Subset, FS_CardinalityType DEF Works
    <3> QED BY <1>3, <3>1 DEF EnoughClicks
  <2> HIDE DEF set
  <2> QED BY <1>3, <2>1, <2>2
<1>7. PageAt("item", c, j) \in Known[k + j - 1]
  <2> HIDE DEF set, c, k
  <2> QED BY <1>2, <1>3, <1>4, <1>6, PagesTurned
<1>8. PageAt("chapter", p, 1) \in LinksOn(PageAt("item", c, j))
  BY <1>4, <1>5 DEF PagesFor
<1>9. PageAt("chapter", p, 1) \in Known[(k + j - 1) + 1]
  <2> HIDE DEF set, c, k
  <2> QED BY <1>4, <1>6, <1>7, <1>8, LinkKnown
<1> HIDE DEF set, c, k
<1> QED BY <1>6, <1>9, NothingForgotten

\* A tag is on the stories that have it.
LEMMA TagKnown ==
  ASSUME EnoughClicks, NEW t, Tagged(t) \cap Stories # {}
  PROVE  PageAt("tag", t, 1) \in Known[Clicks]
<1> DEFINE k == Cardinality(Stories) + 1
<1>1. PICK c \in Stories : c \in Works /\ Public(c) /\ t \in TagsOf[c] /\ c \notin Articles
  BY DiscoveryAssumption DEF Tagged
<1>2. k \in 0..Clicks /\ PageAt("item", c, 1) \in Known[k]
  BY <1>1, ItemKnown
<1>3. k + 1 <= Clicks /\ k + 1 \in 0..Clicks /\ Clicks \in 0..Clicks
  <2>1. Cardinality(Stories) \in Nat /\ Cardinality(Leaves) \in Nat /\ Clicks \in Nat
    BY DiscoveryAssumption, FS_Subset, FS_CardinalityType DEF Works
  <2> QED BY <2>1 DEF EnoughClicks
<1>4. Found(PageAt("item", c, 1)) /\ PageAt("tag", t, 1) \in LinksOn(PageAt("item", c, 1))
  <2>1. ItemLinks(PageAt("item", c, 1)) \subseteq LinksOn(PageAt("item", c, 1))
    BY DEF LinksOn, PageAt
  <2>2. PagesFor("tag", TagsOf[c]) \subseteq ItemLinks(PageAt("item", c, 1))
    BY <1>1 DEF ItemLinks, PageAt
  <2> QED BY <1>1, <2>1, <2>2, WhatPagesSay DEF PagesFor
<1>5. PageAt("tag", t, 1) \in Known[k + 1]
  <2> HIDE DEF k
  <2> QED BY <1>2, <1>3, <1>4, LinkKnown
<1> HIDE DEF k
<1> QED BY <1>3, <1>5, NothingForgotten

\* The header leads to the lists of creators and categories.
LEMMA ListedKnown ==
  ASSUME EnoughClicks
  PROVE  CreatorEntries \cup GenreEntries \cup StaticPages \subseteq Known[Clicks]
<1>1. 2 <= Clicks /\ Clicks \in Nat /\ Header \subseteq Known[1]
  BY HeaderKnown, DiscoveryAssumption
<1>2. 1 \in 0..Clicks /\ 2 \in 0..Clicks /\ Clicks \in 0..Clicks /\ 1 + 1 = 2 /\ 1 <= Clicks
  BY <1>1
<1>3. Known[1] \subseteq Known[Clicks] /\ Known[2] \subseteq Known[Clicks]
  BY <1>1, <1>2, NothingForgotten
<1> DEFINE creators == PageAt("creators", "all", 1)
           categories == PageAt("genres", "all", 1)
<1>4. StaticPages \subseteq Header /\ creators \in Header /\ categories \in Header
  BY DEF StaticPages, Header, Sections, PagesFor, Others
<1>5. /\ Found(creators) /\ CreatorListLinks \subseteq LinksOn(creators)
      /\ Found(categories) /\ GenreListLinks \subseteq LinksOn(categories)
  BY WhatPagesSay DEF LinksOn, PageAt
<1>6. CreatorEntries \subseteq CreatorListLinks /\ GenreEntries \subseteq GenreListLinks
  BY DEF CreatorEntries, CreatorListLinks, GenreEntries, GenreListLinks, PagesFor
<1> HIDE DEF creators, categories
<1>7. CreatorListLinks \subseteq Known[2] /\ GenreListLinks \subseteq Known[2]
  BY <1>1, <1>2, <1>4, <1>5, LinkKnown
<1> QED BY <1>1, <1>3, <1>4, <1>6, <1>7

LEMMA CrawlersArrive == EnoughClicks => CrawlerArrives
<1> SUFFICES ASSUME EnoughClicks, NEW page \in InSitemap, ~Orphan(page)
             PROVE  page \in Known[Clicks]
  BY DEF CrawlerArrives, Reached
<1>1. CASE page \in StaticPages \cup CreatorEntries \cup GenreEntries
  BY <1>1, ListedKnown
<1>2. CASE page \in ItemEntries
  <2>1. PICK c \in Works : Public(c) /\ page = PageAt("item", c, 1)
    BY <1>2 DEF ItemEntries, PagesFor, OfType, Works
  <2> QED BY <2>1, ItemKnown
<1>3. CASE page \in ChapterEntries
  <2>1. PICK p \in Leaves : Public(StoryOf[p]) /\ p \in ChaptersOf(StoryOf[p]) /\ page = PageAt("chapter", p, 1)
    BY <1>3 DEF ChapterEntries, PagesFor
  <2> QED BY <2>1, ChapterKnown
<1>4. CASE page \in TagEntries
  <2>1. PICK t \in Tags : page = PageAt("tag", t, 1)
    BY <1>4 DEF TagEntries, PagesFor
  <2>2. Tagged(t) \cap Stories # {}
    BY <2>1 DEF Orphan, PageAt
  <2> QED BY <2>1, <2>2, TagKnown
<1> QED BY <1>1, <1>2, <1>3, <1>4 DEF InSitemap

\* docs/SEO.md: at every moment the sitemaps name exactly the pages that exist and say
\* "index", and whoever follows the links from the home page gets to each of them,
\* however many stories, chapters, pages of a list and categories there are.
THEOREM SitemapsAlwaysAgree == EnoughClicks => (SiteSpec => []SitemapsAgree)
<1> SUFFICES ASSUME EnoughClicks PROVE SiteSpec => []SitemapsAgree
  OBVIOUS
<1>1. SiteInv => SitemapsAgree
  BY SitemapsAreExact, CrawlersArrive DEF SitemapsAgree
<1> QED BY <1>1, SiteInvariant, PTL

\* The same of the site among the small systems.
THEOREM SiteAlwaysAgrees == EnoughClicks => (Spec => []SiteAgrees)
<1> SUFFICES ASSUME EnoughClicks PROVE Spec => []SiteAgrees
  OBVIOUS
<1>1. Init => SiteInit
  BY DEF Init
<1>2. [Next]_vars => [SiteNext]_siteVars
  BY DEF Next, vars
<1>3. SiteSpec => []SitemapsAgree
  BY SitemapsAlwaysAgree
<1>4. SitemapsAgree => SiteAgrees
  BY DEF SiteAgrees
<1> QED BY <1>1, <1>2, <1>3, <1>4, PTL DEF Spec, SiteSpec

=============================================================================

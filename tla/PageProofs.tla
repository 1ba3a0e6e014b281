----------------------------- MODULE PageProofs -----------------------------
(***************************************************************************)
(* Proofs about Links and Page: what a reference that ReduceURL wrote      *)
(* leads to, and what Download makes of the tokens of a page, for every    *)
(* set of tokens, every site and every page.                               *)
(***************************************************************************)
EXTENDS Page, SequenceTheorems, WellFoundedInduction, TLAPS

----------------------------------------------------------------------------
(* Numbers.                                                                *)

LEMMA Least ==
  ASSUME NEW T \in SUBSET Nat, T # {}
  PROVE  \E m \in T : \A k \in T : m <= k
<1>1. PICK m \in T : \A k \in T : ~(<<k, m>> \in OpToRel(<, Nat))
  BY NatLessThanWellFounded, WFMin
<1>2. ASSUME NEW k \in T PROVE m <= k
  <2>1. ~(<<k, m>> \in OpToRel(<, Nat))
    BY <1>1
  <2>2. k \in Nat /\ m \in Nat
    OBVIOUS
  <2>3. ~(k < m)
    BY <2>1, <2>2 DEF OpToRel
  <2> QED BY <2>2, <2>3
<1> QED BY <1>2

LEMMA Greatest ==
  ASSUME NEW n \in Nat, NEW T \in SUBSET (0 .. n), T # {}
  PROVE  \E m \in T : \A k \in T : k <= m
<1> DEFINE U == {j \in 0 .. n : n - j \in T}
<1>1. U \in SUBSET Nat
  OBVIOUS
<1>2. ASSUME NEW k \in T PROVE n - k \in U
  OBVIOUS
<1>3. U # {}
  BY <1>2
<1> HIDE DEF U
<1>4. PICK u \in U : \A v \in U : u <= v
  BY <1>1, <1>3, Least
<1>5. u \in 0 .. n /\ n - u \in T
  BY DEF U
<1>6. ASSUME NEW k \in T PROVE k <= n - u
  <2>1. u <= n - k
    BY <1>2, <1>4
  <2> QED BY <1>5, <2>1
<1> QED BY <1>5, <1>6

----------------------------------------------------------------------------
(* What stays of a page (Kept).                                            *)

Step(before, t) == IF IsKept(t) THEN Append(before, t) ELSE before

\* A function that has what is kept of the first tokens.
Keeps(tokens, n, kept) ==
    kept = [m \in 0 .. n |-> IF m = 0 THEN <<>> ELSE Step(kept[m - 1], tokens[m])]

LEMMA KeepsExists ==
  ASSUME NEW tokens, NEW n \in Nat
  PROVE  \E kept : Keeps(tokens, n, kept)
<1> DEFINE T == {m \in Nat : ~(\E kept : Keeps(tokens, m, kept))}
<1>1. SUFFICES ASSUME T # {} PROVE FALSE
  OBVIOUS
<1>2. PICK m \in T : \A k \in T : m <= k
  BY <1>1, Least
<1>3. m # 0
  <2>1. Keeps(tokens, 0, [k \in 0 .. 0 |-> <<>>])
    BY DEF Keeps
  <2> QED BY <2>1
<1>4. m - 1 \in Nat /\ m - 1 \notin T
  BY <1>2, <1>3
<1>5. PICK before : Keeps(tokens, m - 1, before)
  BY <1>4
<1> DEFINE kept == [k \in 0 .. m |-> IF k = m THEN Step(before[m - 1], tokens[m])
                                     ELSE before[k]]
<1>6. Keeps(tokens, m, kept)
  <2>1. ASSUME NEW k \in 0 .. m
        PROVE  kept[k] = IF k = 0 THEN <<>> ELSE Step(kept[k - 1], tokens[k])
    <3>1. CASE k = 0
      BY <1>3, <1>5, <3>1 DEF Keeps
    <3>2. CASE k # 0 /\ k # m
      <4>1. before[k] = Step(before[k - 1], tokens[k])
        BY <1>5, <3>2 DEF Keeps
      <4>2. kept[k] = before[k] /\ kept[k - 1] = before[k - 1]
        BY <3>2
      <4> QED BY <3>2, <4>1, <4>2
    <3>3. CASE k = m
      <4>1. kept[k - 1] = before[m - 1]
        BY <1>3, <3>3
      <4> QED BY <1>3, <3>3, <4>1
    <3> QED BY <3>1, <3>2, <3>3
  <2> HIDE DEF kept
  <2>2. kept = [k \in 0 .. m |-> kept[k]]
    BY DEF kept
  <2> QED BY <2>1, <2>2 DEF Keeps
<1> QED BY <1>6

LEMMA KeepsUnique ==
  ASSUME NEW tokens, NEW n \in Nat, NEW f, NEW g, Keeps(tokens, n, f), Keeps(tokens, n, g)
  PROVE  f = g
<1> DEFINE T == {m \in 0 .. n : f[m] # g[m]}
<1>1. f = [m \in 0 .. n |-> f[m]] /\ g = [m \in 0 .. n |-> g[m]]
  BY DEF Keeps
<1>2. SUFFICES ASSUME T # {} PROVE FALSE
  <2>1. T = {} => \A m \in 0 .. n : f[m] = g[m]
    OBVIOUS
  <2> QED BY <1>1, <2>1, <1>2
<1>3. PICK m \in T : \A k \in T : m <= k
  <2>1. T \in SUBSET Nat
    OBVIOUS
  <2> HIDE DEF T
  <2> QED BY <1>2, <2>1, Least
<1>4. m # 0
  BY DEF Keeps
<1>5. m - 1 \in 0 .. n /\ m - 1 \notin T
  BY <1>3, <1>4
<1>6. f[m] = Step(f[m - 1], tokens[m]) /\ g[m] = Step(g[m - 1], tokens[m])
  BY <1>4 DEF Keeps
<1> QED BY <1>5, <1>6

LEMMA KeptIs ==
  ASSUME NEW S, NEW tokens \in Seq(S)
  PROVE  \E kept : Keeps(tokens, Len(tokens), kept) /\ Kept(tokens) = kept[Len(tokens)]
<1> DEFINE kept == CHOOSE kept : Keeps(tokens, Len(tokens), kept)
<1>1. Keeps(tokens, Len(tokens), kept)
  BY KeepsExists
<1>2. Kept(tokens) = kept[Len(tokens)]
  BY DEF Kept, Keeps, Step
<1> QED BY <1>1, <1>2

LEMMA KeptEmpty == Kept(<<>>) = <<>>
<1>1. <<>> \in Seq({}) /\ Len(<<>>) = 0
  OBVIOUS
<1>2. PICK kept : Keeps(<<>>, 0, kept) /\ Kept(<<>>) = kept[0]
  BY <1>1, KeptIs
<1> QED BY <1>2 DEF Keeps

LEMMA KeptAppend ==
  ASSUME NEW S, NEW tokens \in Seq(S), NEW t \in S
  PROVE  Kept(Append(tokens, t)) = Step(Kept(tokens), t)
<1> DEFINE n == Len(tokens)
           longer == Append(tokens, t)
<1>1. longer \in Seq(S) /\ Len(longer) = n + 1 /\ n \in Nat
  OBVIOUS
<1>2. longer[n + 1] = t /\ \A m \in 1 .. n : longer[m] = tokens[m]
  OBVIOUS
<1> HIDE DEF longer
<1>3. PICK f : Keeps(tokens, n, f) /\ Kept(tokens) = f[n]
  BY KeptIs
<1>4. PICK g : Keeps(longer, n + 1, g) /\ Kept(longer) = g[n + 1]
  BY <1>1, KeptIs
<1> DEFINE h == [m \in 0 .. n |-> g[m]]
<1> HIDE DEF n
<1>5. Keeps(tokens, n, h)
  <2>1. ASSUME NEW m \in 0 .. n
        PROVE  h[m] = IF m = 0 THEN <<>> ELSE Step(h[m - 1], tokens[m])
    <3>1. g[m] = IF m = 0 THEN <<>> ELSE Step(g[m - 1], longer[m])
      BY <1>1, <1>4 DEF Keeps
    <3>2. m # 0 => h[m - 1] = g[m - 1] /\ longer[m] = tokens[m]
      BY <1>1, <1>2
    <3> QED BY <3>1, <3>2
  <2> HIDE DEF h
  <2>2. h = [m \in 0 .. n |-> h[m]]
    BY DEF h
  <2> QED BY <2>1, <2>2 DEF Keeps
<1>6. g[n] = f[n]
  <2>1. h = f
    BY <1>1, <1>3, <1>5, KeepsUnique
  <2> QED BY <1>1, <2>1
<1>7. g[n + 1] = Step(g[n], longer[n + 1])
  BY <1>1, <1>4 DEF Keeps
<1> QED BY <1>2, <1>3, <1>4, <1>6, <1>7 DEF longer

----------------------------------------------------------------------------
(* References (Links).                                                     *)

LEMMA CommonPartsIs ==
  ASSUME NEW x \in Seq(Names), NEW y \in Seq(Names), x # <<>>, y # <<>>
  PROVE  /\ CommonParts(x, y) \in 0 .. Len(x) - 1 /\ CommonParts(x, y) < Len(y)
         /\ \A i \in 1 .. CommonParts(x, y) : x[i] = y[i]
         /\ x[1] = y[1] /\ Len(x) > 1 /\ Len(y) > 1 => CommonParts(x, y) >= 1
<1> DEFINE S == PrefixesOf(x, y)
<1>1. Len(x) \in Nat \ {0} /\ Len(y) \in Nat \ {0}
  OBVIOUS
<1>2. S \in SUBSET (0 .. Len(x) - 1)
  BY DEF PrefixesOf
<1>3. 0 \in S
  BY <1>1 DEF PrefixesOf
<1>4. \E m \in S : \A k \in S : k <= m
  <2>1. Len(x) - 1 \in Nat /\ S # {}
    BY <1>1, <1>3
  <2> HIDE DEF S
  <2> QED BY <1>2, <2>1, Greatest
<1>5. CommonParts(x, y) \in S /\ \A k \in S : k <= CommonParts(x, y)
  BY <1>4 DEF CommonParts
<1>6. x[1] = y[1] /\ Len(x) > 1 /\ Len(y) > 1 => 1 \in S
  BY <1>1 DEF PrefixesOf
<1> QED BY <1>1, <1>5, <1>6 DEF PrefixesOf

LEMMA OneIsSeq ==
  ASSUME NEW S, NEW e \in S
  PROVE  <<e>> \in Seq(S) /\ Len(<<e>>) = 1 /\ <<e>>[1] = e
<1>1. <<e>> \in [1 .. 1 -> S]
  OBVIOUS
<1> QED BY <1>1, SeqDef

LEMMA Prefixed ==
  ASSUME NEW S, NEW e \in S, NEW path \in Seq(S)
  PROVE  /\ <<e>> \o path \in Seq(S) /\ <<e>> \o path # <<>>
         /\ Len(<<e>> \o path) = Len(path) + 1
         /\ (<<e>> \o path)[1] = e
         /\ \A i \in 1 .. Len(path) : (<<e>> \o path)[i + 1] = path[i]
<1> DEFINE root == <<e>>
           whole == root \o path
<1>1. root \in Seq(S) /\ Len(root) = 1 /\ root[1] = e
  BY OneIsSeq
<1> HIDE DEF root
<1>2. /\ whole \in Seq(S)
      /\ Len(whole) = Len(root) + Len(path)
      /\ \A i \in 1 .. Len(root) + Len(path) :
            whole[i] = IF i <= Len(root) THEN root[i] ELSE path[i - Len(root)]
  BY <1>1, ConcatProperties
<1>3. Len(path) \in Nat
  OBVIOUS
<1> HIDE DEF whole
<1>4. whole[1] = e
  BY <1>1, <1>2, <1>3
<1>5. ASSUME NEW i \in 1 .. Len(path) PROVE whole[i + 1] = path[i]
  <2>1. /\ i + 1 \in 1 .. Len(root) + Len(path)
        /\ ~(i + 1 <= Len(root)) /\ (i + 1) - Len(root) = i
    BY <1>1, <1>3
  <2> QED BY <1>2, <2>1
<1>6. Len(whole) = Len(path) + 1
  BY <1>1, <1>2, <1>3
<1>7. whole # <<>>
  BY <1>3, <1>6
<1> QED BY <1>2, <1>4, <1>5, <1>6, <1>7 DEF whole, root

LEMMA PartsIs ==
  ASSUME NEW path \in Seq(Names), NEW x, x = Parts(path)
  PROVE  /\ x \in Seq(Names) /\ x # <<>>
         /\ Len(x) = Len(path) + 1
         /\ \A other \in Seq(Names) : x[1] = Parts(other)[1]
         /\ \A i \in 1 .. Len(path) : x[i + 1] = path[i]
<1> DEFINE e == ""
<1>1. e \in Names
  BY SitesAssumption
<1>2. \A p \in Seq(Names) : Parts(p) = <<e>> \o p
  BY DEF Parts
<1> HIDE DEF e
<1>3. ASSUME NEW p \in Seq(Names)
      PROVE  /\ Parts(p) \in Seq(Names) /\ Parts(p) # <<>>
             /\ Len(Parts(p)) = Len(p) + 1 /\ Parts(p)[1] = e
             /\ \A i \in 1 .. Len(p) : Parts(p)[i + 1] = p[i]
  <2> DEFINE whole == <<e>> \o p
  <2>1. /\ whole \in Seq(Names) /\ whole # <<>>
        /\ Len(whole) = Len(p) + 1 /\ whole[1] = e
        /\ \A i \in 1 .. Len(p) : whole[i + 1] = p[i]
    BY <1>1, Prefixed
  <2>2. Parts(p) = whole
    BY <1>2
  <2> HIDE DEF whole
  <2> QED BY <2>1, <2>2
<1> QED BY <1>3

\* The path that a relative reference leads to.
PathOf(path, ref) == SubSeq(path, 1, Len(path) - 1 - ref.ups) \o ref.names

Below(dir, path) == dir \o path

\* A reference leaves what two paths do not share and enters the rest of the other.
LeavesFor(from, to, ref) ==
    \E n \in Nat \ {0} :
        /\ n <= Len(from) /\ n <= Len(to)
        /\ \A i \in 1 .. n - 1 : from[i] = to[i]
        /\ ref.ups = Len(from) - n
        /\ ref.names = SubSeq(to, n, Len(to))

LEMMA Rejoin ==
  ASSUME NEW from \in Seq(Names), NEW to \in Seq(Names), NEW dir \in Seq(Names),
         NEW ref, LeavesFor(from, to, ref)
  PROVE  PathOf(Below(dir, from), ref) = Below(dir, to)
<1>p. PICK n \in Nat \ {0} :
          /\ n <= Len(from) /\ n <= Len(to)
          /\ \A i \in 1 .. n - 1 : from[i] = to[i]
          /\ ref.ups = Len(from) - n
          /\ ref.names = SubSeq(to, n, Len(to))
  BY DEF LeavesFor
<1> DEFINE shown == dir \o from
           len == Len(dir) + n - 1
           kept == SubSeq(shown, 1, len)
           rest == SubSeq(to, n, Len(to))
           whole == dir \o to
<1>1. /\ Len(from) \in Nat /\ Len(to) \in Nat /\ Len(dir) \in Nat
      /\ n <= Len(from) /\ n <= Len(to)
  BY <1>p
<1>2. /\ shown \in Seq(Names) /\ Len(shown) = Len(dir) + Len(from)
      /\ \A i \in 1 .. Len(shown) :
            shown[i] = IF i <= Len(dir) THEN dir[i] ELSE from[i - Len(dir)]
  BY ConcatProperties
<1>3. /\ whole \in Seq(Names) /\ Len(whole) = Len(dir) + Len(to)
      /\ \A i \in 1 .. Len(whole) :
            whole[i] = IF i <= Len(dir) THEN dir[i] ELSE to[i - Len(dir)]
  BY ConcatProperties
<1>4. /\ rest \in Seq(Names) /\ Len(rest) = Len(to) - n + 1
      /\ \A i \in 1 .. Len(to) - n + 1 : rest[i] = to[n - 1 + i]
  BY <1>1
<1> HIDE DEF shown, whole, rest
<1>5. /\ kept \in Seq(Names) /\ Len(kept) = len
      /\ \A i \in 1 .. len : kept[i] = shown[i]
  <2>1. len \in Nat /\ len <= Len(shown)
    BY <1>1, <1>2
  <2> QED BY <1>2, <2>1
<1> HIDE DEF kept
<1>6. /\ kept \o rest \in Seq(Names) /\ Len(kept \o rest) = Len(kept) + Len(rest)
      /\ \A i \in 1 .. Len(kept) + Len(rest) :
            (kept \o rest)[i] = IF i <= Len(kept) THEN kept[i] ELSE rest[i - Len(kept)]
  <2>1. kept \in Seq(Names) /\ rest \in Seq(Names)
    BY <1>4, <1>5
  <2> QED BY <2>1, ConcatProperties
<1>l. Len(kept) + Len(rest) = Len(whole) /\ Len(kept) = len
  BY <1>1, <1>3, <1>4, <1>5
<1>7. ASSUME NEW i \in 1 .. Len(whole) PROVE (kept \o rest)[i] = whole[i]
  <2>1. (kept \o rest)[i] = IF i <= len THEN kept[i] ELSE rest[i - len]
    BY <1>6, <1>l
  <2>2. CASE i <= len
    <3>1. i \in 1 .. len /\ i \in 1 .. Len(shown)
      BY <1>1, <1>2, <2>2
    <3>2. ~(i <= Len(dir)) => i - Len(dir) \in 1 .. n - 1
      BY <1>1, <3>1
    <3>3. ~(i <= Len(dir)) => from[i - Len(dir)] = to[i - Len(dir)]
      BY <1>p, <3>2
    <3> QED BY <1>2, <1>3, <1>5, <2>1, <2>2, <3>1, <3>3
  <2>3. CASE ~(i <= len)
    <3>1. i - len \in 1 .. Len(to) - n + 1
      BY <1>1, <1>3, <2>3
    <3>2. rest[i - len] = to[n - 1 + (i - len)]
      BY <1>4, <3>1
    <3>3. n - 1 + (i - len) = i - Len(dir) /\ ~(i <= Len(dir))
      BY <1>1, <2>3
    <3> QED BY <1>3, <2>1, <2>3, <3>2, <3>3
  <2> QED BY <2>2, <2>3
<1>8. kept \o rest = whole
  BY <1>3, <1>6, <1>l, <1>7, SeqEqual
<1>9. Len(shown) - 1 - ref.ups = len
  BY <1>p, <1>1, <1>2
<1>10. PathOf(Below(dir, from), ref) = kept \o rest
  BY <1>p, <1>9 DEF PathOf, Below, kept, rest, shown
<1> QED BY <1>8, <1>10 DEF whole, Below

\* No path is the root.
Named(path) == IF path = <<>> THEN <<"">> ELSE path

LEMMA NamedIs ==
  ASSUME NEW path \in Seq(Names)
  PROVE  Named(path) \in Seq(Names) /\ Named(path) # <<>>
<1>1. <<"">> \in Seq(Names) /\ <<"">> # <<>>
  BY SitesAssumption, OneIsSeq
<1> QED BY <1>1 DEF Named

LEMMA ReducePathIs ==
  ASSUME NEW from \in Seq(Names), NEW to \in Seq(Names),
         NEW n \in Nat, n = CommonParts(Parts(from), Parts(to))
  PROVE  ReducePath(from, to)
             = Relative(Len(Parts(from)) - n - 1,
                        IF to = <<>> THEN <<"">>
                        ELSE IF n = 0 THEN to ELSE SubSeq(to, n, Len(to)))
<1>1. n = 0 \/ n > 0
  OBVIOUS
<1>2. CASE to = <<>>
  BY <1>2 DEF ReducePath, Ups
<1>3. CASE to # <<>> /\ n = 0
  BY <1>3 DEF ReducePath, Ups
<1>4. CASE to # <<>> /\ n > 0
  BY <1>4 DEF ReducePath, Ups
<1> QED BY <1>1, <1>2, <1>3, <1>4

\* ReduceURL's reference, resolved in the page for which it was written, leads to
\* the url it was written for, also where the mirror shows both below one directory.
THEOREM ReducedResolves ==
  ASSUME NEW from \in Seq(Names), NEW to \in Seq(Names), NEW dir \in Seq(Names),
         from # <<>>, to # <<>> \/ Len(dir) = 0,
         NEW ref, ref = ReducePath(from, to)
  PROVE  PathOf(Below(dir, from), ref) = Below(dir, Named(to))
<1> DEFINE shown == dir \o from
           x == Parts(from)
           y == Parts(to)
           n == CommonParts(x, y)
<1>x. /\ x \in Seq(Names) /\ x # <<>> /\ Len(x) = Len(from) + 1 /\ x[1] = y[1]
      /\ \A i \in 1 .. Len(from) : x[i + 1] = from[i]
  BY PartsIs
<1>y. /\ y \in Seq(Names) /\ y # <<>> /\ Len(y) = Len(to) + 1
      /\ \A i \in 1 .. Len(to) : y[i + 1] = to[i]
  BY PartsIs
<1> HIDE DEF x, y
<1>1. /\ x \in Seq(Names) /\ x # <<>> /\ Len(x) = Len(from) + 1
      /\ y \in Seq(Names) /\ y # <<>> /\ Len(y) = Len(to) + 1
      /\ x[1] = y[1]
      /\ \A i \in 1 .. Len(from) : x[i + 1] = from[i]
      /\ \A i \in 1 .. Len(to) : y[i + 1] = to[i]
  BY <1>x, <1>y
<1>2. /\ n \in 0 .. Len(x) - 1 /\ n < Len(y)
      /\ \A i \in 1 .. n : x[i] = y[i]
      /\ x[1] = y[1] /\ Len(x) > 1 /\ Len(y) > 1 => n >= 1
  BY <1>1, CommonPartsIs
<1>3. Len(from) \in Nat \ {0} /\ Len(to) \in Nat /\ Len(dir) \in Nat
  OBVIOUS
<1> DEFINE ups == Len(x) - n - 1
           names == IF to = <<>> THEN <<"">>
                    ELSE IF n = 0 THEN to ELSE SubSeq(to, n, Len(to))
<1>n. n \in Nat
  BY <1>1, <1>2
<1>4. ref.ups = ups /\ ref.names = names
  <2> HIDE DEF names, ups, n
  <2>1. ref = Relative(ups, names)
    BY <1>n, ReducePathIs, ZenonT(30) DEF names, ups, n, x, y
  <2> QED BY <2>1 DEF Relative
<1>5. Len(shown) = Len(dir) + Len(from)
  OBVIOUS
<1> HIDE DEF n
<1>6. CASE to = <<>>
  <2>1. n = 0 /\ dir = <<>> /\ shown = from
    BY <1>1, <1>2, <1>6
  <2>2. Len(shown) - 1 - ups = -1
    BY <1>1, <1>3, <2>1
  <2>3. SubSeq(shown, 1, -1) = <<>>
    BY <2>1
  <2>4. names = Named(to) /\ Named(to) \in Seq(Names)
    BY <1>6, NamedIs DEF Named
  <2> HIDE DEF names, ups
  <2> QED BY <1>4, <2>1, <2>2, <2>3, <2>4 DEF PathOf, Below
<1>7. CASE to # <<>>
  <2>1. n \in Nat \ {0} /\ n <= Len(from) /\ n <= Len(to)
    BY <1>1, <1>2, <1>3, <1>7
  <2>2. ASSUME NEW i \in 1 .. n - 1 PROVE from[i] = to[i]
    <3>1. i + 1 \in 1 .. n /\ i \in 1 .. Len(from) /\ i \in 1 .. Len(to)
      BY <1>3, <2>1
    <3>2. x[i + 1] = y[i + 1]
      BY <1>2, <3>1
    <3> QED BY <1>1, <3>1, <3>2
  <2>3. ups = Len(from) - n
    BY <1>1, <1>3, <2>1
  <2>4. names = SubSeq(to, n, Len(to)) /\ Named(to) = to
    BY <1>7, <2>1 DEF Named
  <2> HIDE DEF names, ups
  <2>5. ref.ups = Len(from) - n /\ ref.names = SubSeq(to, n, Len(to))
    BY <1>4, <2>3, <2>4
  <2>6. PathOf(Below(dir, from), ref) = Below(dir, to)
    <3>1. LeavesFor(from, to, ref)
      BY <2>1, <2>2, <2>5 DEF LeavesFor
    <3> QED BY <3>1, Rejoin
  <2> QED BY <2>4, <2>6
<1> QED BY <1>6, <1>7

\* ReduceURL writes a relative reference.
LEMMA ReducedIsRelative ==
  ASSUME NEW from \in Seq(Names), NEW to \in Seq(Names)
  PROVE  ReducePath(from, to) \in [kind : {"relative"}, ups : Nat, names : Seq(Names)]
<1> DEFINE x == Parts(from)
           y == Parts(to)
           n == CommonParts(x, y)
           ups == Len(x) - n - 1
           names == IF to = <<>> THEN <<"">>
                    ELSE IF n = 0 THEN to ELSE SubSeq(to, n, Len(to))
<1>x. x \in Seq(Names) /\ x # <<>> /\ Len(x) = Len(from) + 1
  BY PartsIs
<1>y. y \in Seq(Names) /\ y # <<>> /\ Len(y) = Len(to) + 1
  BY PartsIs
<1> HIDE DEF x, y
<1>1. n \in 0 .. Len(x) - 1 /\ n < Len(y)
  BY <1>x, <1>y, CommonPartsIs
<1>2. n \in Nat /\ n <= Len(to)
  BY <1>x, <1>y, <1>1
<1> HIDE DEF n
<1>3. ups \in Nat
  BY <1>x, <1>1
<1>4. names \in Seq(Names)
  <2>1. <<"">> \in Seq(Names)
    BY SitesAssumption, OneIsSeq
  <2>2. n # 0 => SubSeq(to, n, Len(to)) \in Seq(Names)
    BY <1>2
  <2> QED BY <2>1, <2>2
<1> HIDE DEF ups, names
<1>5. ReducePath(from, to) = Relative(ups, names)
  BY <1>2, ReducePathIs DEF ups, names, n, x, y
<1> QED BY <1>3, <1>4, <1>5 DEF Relative

----------------------------------------------------------------------------
(* The urls of a page.                                                     *)

LEMMA ResolveIsURL ==
  ASSUME NEW from \in URLSet, NEW ref \in References, Meaningful(ref)
  PROVE  Resolve(from, ref) \in URLSet
<1>1. CASE ref.kind = "absolute"
  <2>1. ref \in [kind : {"absolute"}, url : URLSet]
    BY <1>1 DEF References, Foreign, Invalid
  <2> QED BY <1>1, <2>1 DEF Resolve
<1>2. CASE ref.kind = "rooted"
  <2>1. ref \in [kind : {"rooted"}, path : Seq(Names)]
    BY <1>2 DEF References, Foreign, Invalid
  <2> QED BY <1>2, <2>1 DEF Resolve, URL, URLSet
<1>3. CASE ref.kind = "relative"
  <2>1. ref \in [kind : {"relative"}, ups : Nat, names : Seq(Names)]
    BY <1>3 DEF References, Foreign, Invalid
  <2> DEFINE path == from.path
             n == Len(path) - 1 - ref.ups
  <2>2. path \in Seq(Names) /\ ref.ups \in Nat /\ ref.names \in Seq(Names)
    BY <2>1 DEF URLSet
  <2>3. SubSeq(path, 1, n) \in Seq(Names)
    <3>1. n \in Int /\ n <= Len(path)
      BY <2>2
    <3> HIDE DEF n, path
    <3>2. \A i \in 1 .. n : path[i] \in Names
      BY <2>2, <3>1
    <3> QED BY <3>1, <3>2, SubSeqProperties
  <2>4. SubSeq(path, 1, n) \o ref.names \in Seq(Names)
    BY <2>2, <2>3, ConcatProperties
  <2>5. Resolve(from, ref) = URL(from.site, SubSeq(path, 1, n) \o ref.names)
    BY <1>3 DEF Resolve
  <2> HIDE DEF n, path
  <2> QED BY <2>4, <2>5 DEF URL, URLSet
<1> QED BY <1>1, <1>2, <1>3 DEF Meaningful

LEMMA RewrittenIs ==
  ASSUME NEW ref \in References
  PROVE  Rewritten(ref) \in References /\ Rewritten(ref).kind = ref.kind
<1>1. CASE ref.kind = "absolute"
  <2>1. ref \in [kind : {"absolute"}, url : URLSet]
    BY <1>1 DEF References, Foreign, Invalid
  <2>2. URL(Rewrites[ref.url.site], ref.url.path) \in URLSet
    BY <2>1, PageAssumption DEF URL, URLSet
  <2> QED BY <1>1, <2>2 DEF Rewritten, Absolute, References
<1> QED BY <1>1 DEF Rewritten

\* cross.localhost is no site that is mirrored, but has paths like one.
LEMMA CrossHostIs ==
  ASSUME NEW url \in URLSet, NEW dir, dir = <<url.site.scheme, url.site.host>>
  PROVE  /\ dir \in Seq(Names) /\ Len(dir) = 2
         /\ CrossHostOf(url) = URL(Cross, dir \o url.path)
         /\ CrossHostOf(url).path \in Seq(Names)
         /\ Len(CrossHostOf(url).path) = 2 + Len(url.path)
<1>1. url.site.scheme \in Names /\ url.site.host \in Names /\ url.path \in Seq(Names)
  BY SitesAssumption DEF URLSet
<1>2. dir \in Seq(Names) /\ Len(dir) = 2
  <2>1. dir \in [1 .. 2 -> Names]
    BY <1>1
  <2> QED BY <2>1, SeqDef
<1>3. CrossHostOf(url) = URL(Cross, dir \o url.path)
  BY DEF CrossHostOf
<1>4. dir \o url.path \in Seq(Names) /\ Len(dir \o url.path) = Len(dir) + Len(url.path)
  BY <1>1, <1>2, ConcatProperties
<1>5. CrossHostOf(url).path = dir \o url.path
  BY <1>3 DEF URL
<1>6. Len(url.path) \in Nat
  BY <1>1
<1> QED BY <1>2, <1>3, <1>4, <1>5, <1>6

LEMMA ReduceIs ==
  ASSUME NEW from \in URLSet, NEW noCross \in BOOLEAN, NEW url \in URLSet
  PROVE  Reduce(from, noCross, url)
             = IF NeedsCrossHost(from, noCross, url)
               THEN ReducePath(CrossHostOf(from).path, CrossHostOf(url).path)
               ELSE IF from.site = url.site THEN ReducePath(from.path, url.path)
               ELSE Absolute(url)
BY DEF Reduce, ReduceURL, CrossHostOf, URL

LEMMA ReduceIsReference ==
  ASSUME NEW from \in URLSet, NEW noCross \in BOOLEAN, NEW url \in URLSet
  PROVE  Reduce(from, noCross, url) \in References
<1>1. from.path \in Seq(Names) /\ url.path \in Seq(Names)
  BY DEF URLSet
<1>2. CrossHostOf(from).path \in Seq(Names) /\ CrossHostOf(url).path \in Seq(Names)
  BY CrossHostIs
<1>3. /\ ReducePath(from.path, url.path) \in References
      /\ ReducePath(CrossHostOf(from).path, CrossHostOf(url).path) \in References
  BY <1>1, <1>2, ReducedIsRelative DEF References
<1>4. Absolute(url) \in References
  BY DEF Absolute, References
<1> QED BY <1>3, <1>4, ReduceIs

----------------------------------------------------------------------------
(* What a step does to the page that is written.                           *)

Handled(t) == WriteProcessed(t)
Copied(t) == WriteRaw(t) /\ ~HoldsLink(t)

Loops == {"html", "css", "script", "style"}

\* The loops read one token each time round.
TokenRead(t) ==
    /\ phase \in Loops /\ phase' \in Loops
    /\ read' = Append(read, t)
    /\ UNCHANGED <<input, ended>>
    /\ \/ IsKept(t) /\ (Handled(t) \/ Copied(t))
       \/ ~IsKept(t) /\ UNCHANGED output
    /\ \/ /\ IsBase(t) /\ t.form = "selfClosing"
          /\ base' = Resolve(base, t.ref)
          /\ NoteBase(t)
       \/ IsBase(t) /\ t.form = "start" /\ UNCHANGED base /\ NoteBase(t)
       \/ ~IsBase(t) /\ UNCHANGED <<base, docBase>>

Quiet ==
    /\ UNCHANGED <<input, base, read, output, docBase>>
    /\ phase' \in Phases /\ ended' \in BOOLEAN
    /\ phase' \in {"request", "returned"} \/ phase # "returned"
    /\ phase' = "request" => phase = "request"

Steps ==
    \/ Quiet
    \/ \E ref \in Locations : Redirect(ref)
    \/ \E t \in Tokens : TokenRead(t)

LEMMA TokenFacts ==
  ASSUME NEW t \in Tokens
  PROVE  /\ t.tag \in Tags /\ t.form \in Forms /\ t.attr \in Attributes
         /\ t.ref \in References
         /\ t.tag = "base" => t.ref.kind # "foreign"
         /\ t.form = "end" => t.attr = "none"
         /\ t.attr = "getBase" => t.form = "text"
BY PageAssumption, TokensAssumption

LEMMA StepsAre ==
  ASSUME TypeOK, [Next]_vars
  PROVE  Steps
<1>1. CASE NothingToParse \/ ParseBody \/ EndOfInput \/ Return \/ UNCHANGED vars
  BY <1>1 DEF NothingToParse, ParseBody, EndOfInput, Return, Enter, Quiet, Steps, vars,
              input, output, TypeOK, Phases, LoopsThatEnd
<1>2. CASE \E ref \in Locations : Redirect(ref)
  BY <1>2 DEF Steps
<1>3. ASSUME NEW t \in Tokens, Tag(t) PROVE TokenRead(t)
  BY <1>3, TokenFacts
  DEF Tag, Read, Enter, IsTag, Inline, IsBase, Handles, HoldsLink, IsKept, StartTags,
      TokenRead, Loops, Handled, Copied, input, NoteBase, Tags
<1>4. ASSUME NEW t \in Tokens, Base(t) PROVE TokenRead(t)
  BY <1>4, TokenFacts
  DEF Base, Read, Enter, IsTag, IsBase, IsKept, TokenRead, Loops, input
<1>5. ASSUME NEW t \in Tokens, InlineTag(t) PROVE TokenRead(t)
  BY <1>5, TokenFacts
  DEF InlineTag, Inline, Read, Enter, IsTag, IsBase, HoldsLink, StartTags, IsKept,
      TokenRead, Loops, Handled, Copied, input
<1>6. ASSUME NEW t \in Tokens, Other(t) PROVE TokenRead(t)
  BY <1>6, TokenFacts
  DEF Other, Read, Enter, IsTag, IsBase, HoldsLink, StartTags, IsKept,
      TokenRead, Loops, Handled, Copied, input, Tags
<1>7. ASSUME NEW t \in Tokens, ScriptText(t) PROVE TokenRead(t)
  BY <1>7, TokenFacts
  DEF ScriptText, FirstText, Drops, Read, Enter, IsTag, IsBase, HoldsLink, StartTags,
      IsKept, TokenRead, Loops, Handled, Copied, input, Tags
<1>8. ASSUME NEW t \in Tokens, CSSToken(t) PROVE TokenRead(t)
  BY <1>8, TokenFacts
  DEF CSSToken, FirstText, Read, Enter, IsTag, IsBase, HoldsLink, StartTags,
      IsKept, TokenRead, Loops, Handled, Copied, input, Tags
<1>9. ASSUME NEW t \in Tokens, EndInline(t) PROVE TokenRead(t)
  BY <1>9, TokenFacts
  DEF EndInline, Read, Enter, IsTag, IsBase, HoldsLink, StartTags, IsKept,
      TokenRead, Loops, Handled, Copied, input, Tags, TypeOK, Phases
<1> QED BY <1>1, <1>2, <1>3, <1>4, <1>5, <1>6, <1>7, <1>8, <1>9 DEF Next, Steps

----------------------------------------------------------------------------
(* Types.                                                                  *)

\* What a step appends to the page.
Appends(t, ref) ==
    \E entry \in Entries :
        /\ body' = Append(body, entry)
        /\ entry.token = t /\ entry.ref = ref
        /\ Meaningful(t.ref) => entry.original = Resolve(docBase, Rewritten(t.ref))

LEMMA OriginalIsURL ==
  ASSUME TypeOK, NEW ref \in References, Meaningful(ref)
  PROVE  /\ Resolve(docBase, Rewritten(ref)) \in URLSet
         /\ FullURL(ref) \in URLSet
<1>1. Rewritten(ref) \in References /\ Meaningful(Rewritten(ref))
  BY RewrittenIs DEF Meaningful
<1> QED BY <1>1, ResolveIsURL DEF TypeOK, FullURL

LEMMA ProcessedIs ==
  ASSUME TypeOK, NEW ref \in References
  PROVE  Processed(ref) \in References
<1>1. page \in URLSet
  BY PageAssumption DEF TypeOK
<1> QED BY <1>1, OriginalIsURL, ReduceIsReference DEF Processed, TypeOK

LEMMA WritesEntry ==
  ASSUME TypeOK, NEW t \in Tokens \cup {LocationToken(ref) : ref \in Locations},
         NEW new \in References, WriteAs(t, new)
  PROVE  Appends(t, new)
<1>1. t.ref \in References
  BY PageAssumption, TokenFacts DEF LocationToken, Token
<1> DEFINE original == IF Meaningful(t.ref) THEN Resolve(docBase, Rewritten(t.ref)) ELSE page
           entry == [token |-> t, ref |-> new, original |-> original]
<1>2. original \in URLSet
  BY <1>1, OriginalIsURL, PageAssumption DEF TypeOK
<1>3. body' = Append(body, entry)
  BY DEF WriteAs
<1> HIDE DEF original
<1>4. entry \in Entries
  BY <1>2 DEF Entries
<1>5. Meaningful(t.ref) => entry.original = Resolve(docBase, Rewritten(t.ref))
  BY DEF original
<1> QED BY <1>3, <1>4, <1>5 DEF Appends

LEMMA Writes ==
  ASSUME TypeOK, NEW t \in Tokens \cup {LocationToken(ref) : ref \in Locations}
  PROVE  /\ WriteRaw(t) => Appends(t, t.ref)
         /\ WriteProcessed(t) => Appends(t, Processed(t.ref))
         /\ WriteProcessed(t) => /\ links' \in [discovered : SUBSET URLSet,
                                                assets : SUBSET URLSet]
                                 /\ crossRef' \in BOOLEAN
<1>1. t.ref \in References
  BY PageAssumption, TokenFacts DEF LocationToken, Token
<1>2. FoundIn(t) \subseteq URLSet
  BY <1>1, OriginalIsURL DEF FoundIn
<1> QED BY <1>1, <1>2, ProcessedIs, WritesEntry
        DEF WriteRaw, WriteProcessed, TypeOK, NeedsCrossHost

LEMMA PageTypeInit == Init => TypeOK
<1> SUFFICES ASSUME Init PROVE TypeOK
  OBVIOUS
<1>1. <<>> \in Seq(Tokens) /\ <<>> \in Seq(Entries)
  OBVIOUS
<1> QED BY <1>1, PageAssumption DEF Init, TypeOK, Phases

LEMMA PageTypeNext == TypeOK /\ [Next]_vars => TypeOK'
<1> SUFFICES ASSUME TypeOK, [Next]_vars PROVE TypeOK'
  OBVIOUS
<1>1. Steps
  BY StepsAre
<1>2. CASE Quiet
  BY <1>2 DEF Quiet, TypeOK, input, output
<1>3. ASSUME NEW ref \in Locations, Redirect(ref) PROVE TypeOK'
  <2> DEFINE t == LocationToken(ref)
  <2>1. WriteProcessed(t) /\ t \in {LocationToken(r) : r \in Locations}
    BY <1>3 DEF Redirect
  <2> HIDE DEF t
  <2>2. /\ Appends(t, Processed(t.ref))
        /\ links' \in [discovered : SUBSET URLSet, assets : SUBSET URLSet]
        /\ crossRef' \in BOOLEAN
    BY <2>1, Writes
  <2>3. body' \in Seq(Entries)
    BY <2>2, AppendProperties DEF Appends, TypeOK
  <2> QED BY <1>3, <2>2, <2>3 DEF Redirect, Enter, TypeOK, input, Phases
<1>4. ASSUME NEW t \in Tokens, TokenRead(t) PROVE TypeOK'
  <2>1. read' \in Seq(Tokens)
    BY <1>4, AppendProperties DEF TokenRead, TypeOK
  <2>2. /\ body' \in Seq(Entries)
        /\ links' \in [discovered : SUBSET URLSet, assets : SUBSET URLSet]
        /\ crossRef' \in BOOLEAN
    <3>1. CASE UNCHANGED output
      BY <3>1 DEF output, TypeOK
    <3>2. CASE WriteProcessed(t) \/ WriteRaw(t)
      <4>1. \E new : Appends(t, new)
        BY <3>2, Writes
      <4>2. body' \in Seq(Entries)
        BY <4>1, AppendProperties DEF Appends, TypeOK
      <4> QED BY <3>2, <4>2, Writes DEF WriteRaw, TypeOK
    <3> QED BY <1>4, <3>1, <3>2 DEF TokenRead, Handled, Copied
  <2>3. base' \in URLSet /\ docBase' \in URLSet
    <3>1. page \in URLSet /\ base \in URLSet /\ docBase \in URLSet
      BY PageAssumption DEF TypeOK
    <3>2. t.ref \in References
      BY TokenFacts
    <3>3. IsBase(t) => Resolve(page, t.ref) \in URLSet /\ Resolve(base, t.ref) \in URLSet
      BY <3>1, <3>2, ResolveIsURL DEF IsBase
    <3> QED BY <1>4, <3>1, <3>3 DEF TokenRead, NoteBase
  <2> QED BY <1>4, <2>1, <2>2, <2>3 DEF TokenRead, Loops, TypeOK, input, Phases
<1> QED BY <1>1, <1>2, <1>3, <1>4 DEF Steps

\* The types of a Downloaded while it is filled, whatever the tokenizers deliver.
THEOREM PageTypeCorrect == Spec => []TypeOK
<1>1. Init => TypeOK
  BY PageTypeInit
<1>2. TypeOK /\ [Next]_vars => TypeOK'
  BY PageTypeNext
<1> QED BY <1>1, <1>2, PTL DEF Spec

----------------------------------------------------------------------------
(* Nothing is lost, doubled or moved.                                      *)

Written == [i \in 1 .. Len(body) |-> body[i].token]

KeptInv ==
    /\ phase = "request" => read = <<>> /\ body = <<>>
    /\ phase # "returned" \/ read # <<>> => Written = Kept(read)

LEMMA WrittenAppend ==
  ASSUME TypeOK, NEW t, NEW ref, Appends(t, ref)
  PROVE  Written' = Append(Written, t)
<1>1. PICK entry \in Entries : body' = Append(body, entry) /\ entry.token = t
  BY DEF Appends
<1>2. body \in Seq(Entries) /\ Len(body) \in Nat
  BY DEF TypeOK
<1>3. /\ Len(body') = Len(body) + 1
      /\ \A i \in 1 .. Len(body) : body'[i] = body[i]
      /\ body'[Len(body) + 1] = entry
  BY <1>1, <1>2, AppendProperties
<1> DEFINE Any == {body[i].token : i \in 1 .. Len(body)} \cup {t}
<1>4. Written \in Seq(Any) /\ Len(Written) = Len(body)
  <2>1. Written \in [1 .. Len(body) -> Any]
    BY DEF Written
  <2> QED BY <1>2, <2>1, SeqDef DEF Written
<1>5. t \in Any
  OBVIOUS
<1> HIDE DEF Any
<1>6. /\ Append(Written, t) \in Seq(Any) /\ Len(Append(Written, t)) = Len(Written) + 1
      /\ \A i \in 1 .. Len(Written) : Append(Written, t)[i] = Written[i]
      /\ Append(Written, t)[Len(Written) + 1] = t
  BY <1>4, <1>5, AppendProperties
<1>7. Written' = [i \in 1 .. Len(body) + 1 |-> body'[i].token]
  BY <1>3 DEF Written
<1>8. ASSUME NEW i \in 1 .. Len(body) + 1
      PROVE  body'[i].token = Append(Written, t)[i]
  <2>1. CASE i = Len(body) + 1
    BY <1>1, <1>3, <1>4, <1>6, <2>1
  <2>2. CASE i # Len(body) + 1
    <3>1. i \in 1 .. Len(body)
      BY <1>2, <2>2
    <3>2. Written[i] = body[i].token
      BY <3>1 DEF Written
    <3> QED BY <1>3, <1>4, <1>6, <3>1, <3>2
  <2> QED BY <2>1, <2>2
<1>9. Append(Written, t) = [i \in 1 .. Len(body) + 1 |-> Append(Written, t)[i]]
  <2>1. DOMAIN Append(Written, t) = 1 .. Len(body) + 1
    BY <1>4, <1>6, LenProperties
  <2> QED BY <1>6, <2>1, LenProperties
<1> QED BY <1>7, <1>8, <1>9

LEMMA KeptNext == TypeOK /\ KeptInv /\ [Next]_vars => KeptInv'
<1> SUFFICES ASSUME TypeOK, KeptInv, [Next]_vars PROVE KeptInv'
  OBVIOUS
<1>1. Steps
  BY StepsAre
<1>2. CASE Quiet
  <2>1. Written' = Written /\ UNCHANGED <<read, body>>
    BY <1>2 DEF Quiet, output, Written
  <2> QED BY <1>2, <2>1 DEF Quiet, KeptInv
<1>3. ASSUME NEW ref \in Locations, Redirect(ref) PROVE KeptInv'
  BY <1>3 DEF Redirect, Enter, KeptInv
<1>4. ASSUME NEW t \in Tokens, TokenRead(t) PROVE KeptInv'
  <2>1. Written = Kept(read)
    BY <1>4 DEF TokenRead, Loops, KeptInv
  <2>2. Kept(read') = Step(Kept(read), t)
    BY <1>4, KeptAppend DEF TokenRead, TypeOK
  <2>3. CASE IsKept(t) /\ (Handled(t) \/ Copied(t))
    <3>1. \E ref : Appends(t, ref)
      BY <2>3, Writes DEF Handled, Copied
    <3>2. Written' = Append(Written, t)
      BY <3>1, WrittenAppend
    <3>3. Written' = Kept(read)'
      BY <2>1, <2>2, <2>3, <3>2 DEF Step
    <3> QED BY <1>4, <3>3 DEF TokenRead, Loops, KeptInv
  <2>4. CASE ~IsKept(t) /\ UNCHANGED output
    <3>1. Written' = Written
      BY <2>4 DEF output, Written
    <3>2. Written' = Kept(read)'
      BY <2>1, <2>2, <2>4, <3>1 DEF Step
    <3> QED BY <1>4, <3>2 DEF TokenRead, Loops, KeptInv
  <2> QED BY <1>4, <2>3, <2>4 DEF TokenRead
<1> QED BY <1>1, <1>2, <1>3, <1>4 DEF Steps

LEMMA KeptInit == Init => KeptInv
<1> SUFFICES ASSUME Init PROVE KeptInv
  OBVIOUS
<1>1. body = <<>> /\ read = <<>> /\ phase = "request"
  BY DEF Init
<1>2. Written = <<>>
  BY <1>1 DEF Written
<1> QED BY <1>1, <1>2, KeptEmpty DEF KeptInv

\* For any document, the tokens that are written are those that were read, in their
\* order, without base elements that close themselves and scripts that look for one.
THEOREM KeepsOrder == Spec => []KeptInOrder
<1>1. Init => KeptInv
  BY KeptInit
<1>2. TypeOK /\ KeptInv /\ [Next]_vars => KeptInv'
  BY KeptNext
<1>3. KeptInv => KeptInOrder
  BY DEF KeptInv, KeptInOrder, Written
<1> QED BY <1>1, <1>2, <1>3, PageTypeCorrect, PTL DEF Spec

----------------------------------------------------------------------------
(* Following a reference.                                                  *)

LEMMA RelativeResolves ==
  ASSUME NEW from \in Seq(Names), from # <<>>, NEW to \in Seq(Names), NEW dir \in Seq(Names),
         to # <<>> \/ Len(dir) = 0,
         NEW site
  PROVE  Resolve(URL(site, Below(dir, from)), ReducePath(from, to))
             = URL(site, Below(dir, Named(to)))
<1> DEFINE ref == ReducePath(from, to)
<1>1. ref.kind = "relative" /\ ref = ReducePath(from, to)
  BY ReducedIsRelative
<1> HIDE DEF ref
<1>2. PathOf(Below(dir, from), ref) = Below(dir, Named(to))
  BY <1>1, ReducedResolves
<1>3. Resolve(URL(site, Below(dir, from)), ref) = URL(site, PathOf(Below(dir, from), ref))
  BY <1>1 DEF Resolve, URL, PathOf
<1> QED BY <1>2, <1>3 DEF ref

LEMMA RelativeResolvesHere ==
  ASSUME NEW from \in Seq(Names), from # <<>>, NEW to \in Seq(Names), NEW site
  PROVE  Resolve(URL(site, from), ReducePath(from, to)) = URL(site, Named(to))
<1> DEFINE nothing == SubSeq(from, 1, 0)
           there == Named(to)
<1>1. nothing \in Seq(Names) /\ Len(nothing) = 0
  OBVIOUS
<1>2. from = Below(nothing, from) /\ there = Below(nothing, Named(to))
  BY <1>1, NamedIs, ConcatEmptySeq DEF Below
<1> HIDE DEF nothing, there
<1>d. to # <<>> \/ Len(nothing) = 0
  BY <1>1
<1>e. nothing \in Seq(Names)
  BY <1>1
<1>3. Resolve(URL(site, Below(nothing, from)), ReducePath(from, to))
          = URL(site, Below(nothing, Named(to)))
  BY <1>d, <1>e, RelativeResolves
<1> QED BY <1>2, <1>3 DEF there

LEMMA HomeIs ==
  ASSUME NEW url \in URLSet
  PROVE  /\ Home(url) = URL(url.site, Named(url.path))
         /\ url.path # <<>> => Home(url) = url
         /\ Home(url) \in URLSet /\ Home(url).path # <<>> /\ Home(url).site = url.site
<1>1. url = URL(url.site, url.path) /\ url.site \in Sites /\ url.path \in Seq(Names)
  BY DEF URL, URLSet
<1>2. Home(url) = URL(url.site, Named(url.path))
  BY <1>1 DEF Home, Named
<1>3. Named(url.path) \in Seq(Names) /\ Named(url.path) # <<>>
  BY <1>1, NamedIs
<1> QED BY <1>1, <1>2, <1>3 DEF URL, URLSet, Home

\* The server for every host redirects from a host without a slash.
LEMMA CrossHostRedirected ==
  ASSUME NEW url \in URLSet
  PROVE  Redirected(CrossHostOf(url)) = CrossHostOf(Home(url))
<1> DEFINE dir == <<url.site.scheme, url.site.host>>
           path == url.path
<1>1. /\ dir \in Seq(Names) /\ Len(dir) = 2 /\ path \in Seq(Names)
      /\ CrossHostOf(url) = URL(Cross, dir \o path)
      /\ CrossHostOf(Home(url)) = URL(Cross, dir \o Named(path))
  <2>1. path \in Seq(Names)
    BY DEF URLSet
  <2>2. Home(url).site = url.site /\ Home(url).path = Named(path)
    BY HomeIs DEF URL
  <2>3. /\ dir \in Seq(Names) /\ Len(dir) = 2
        /\ CrossHostOf(url) = URL(Cross, dir \o path)
    BY CrossHostIs
  <2>4. CrossHostOf(Home(url)) = URL(Cross, dir \o Named(path))
    BY <2>2 DEF CrossHostOf
  <2> QED BY <2>1, <2>3, <2>4
<1> HIDE DEF dir, path
<1>2. dir \o path \in Seq(Names) /\ Len(dir \o path) = Len(dir) + Len(path)
  BY <1>1, ConcatProperties
<1>3. Len(path) \in Nat /\ (path = <<>> <=> Len(path) = 0)
  BY <1>1
<1>4. CASE path = <<>>
  <2> DEFINE e == ""
  <2>1. e \in Names
    BY SitesAssumption
  <2>2. Named(path) = <<e>>
    BY <1>4 DEF Named
  <2>3. dir \o path = dir
    BY <1>1, <1>4, ConcatEmptySeq
  <2>4. Redirected(CrossHostOf(url)) = URL(Cross, Append(dir, e))
    BY <1>1, <2>3 DEF Redirected, URL
  <2> HIDE DEF e
  <2>5. Append(dir, e) = dir \o <<e>>
    BY <1>1, <2>1, AppendIsConcat
  <2> QED BY <1>1, <2>2, <2>4, <2>5
<1>5. CASE path # <<>>
  <2>1. Len(dir \o path) # 2 /\ dir \o path # <<>>
    BY <1>1, <1>2, <1>3, <1>5
  <2> DEFINE whole == dir \o path
             shown == CrossHostOf(url)
  <2>2. shown = URL(Cross, whole) /\ Len(whole) # 2 /\ whole # <<>>
    BY <1>1, <2>1
  <2> HIDE DEF whole, shown
  <2>3. shown.site = Cross /\ shown.path = whole
    BY <2>2 DEF URL
  <2>4. Redirected(shown) = shown
    BY <2>2, <2>3 DEF Redirected, Home
  <2>5. Named(path) = path
    BY <1>5 DEF Named
  <2> QED BY <1>1, <2>4, <2>5 DEF shown
<1> QED BY <1>4, <1>5

\* A visitor who follows a reference that Reduce wrote, wherever the mirror shows the
\* page, comes to the mirror of the url or to the url itself.
THEOREM ReferencesLead ==
  ASSUME NEW from \in URLSet, from.path # <<>>, NEW url \in URLSet, NEW noCross \in BOOLEAN,
         NEW layout \in Layouts,
         NeedsCrossHost(from, noCross, url) => layout = "cross",
         ~(layout = "cross" /\ url.site = from.site /\ url.path = <<>>)
  PROVE  Redirected(Resolve(Location(layout, from), Reduce(from, noCross, url)))
             \in {Home(url), Location(layout, url)}
<1> DEFINE ref == Reduce(from, noCross, url)
           dir == <<from.site.scheme, from.site.host>>
<1>1. /\ from.path \in Seq(Names) /\ url.path \in Seq(Names)
      /\ from = URL(from.site, from.path) /\ url = URL(url.site, url.path)
      /\ from.site \in Sites /\ url.site \in Sites /\ Cross \notin Sites
  BY SitesAssumption DEF URLSet, URL
<1>2. /\ dir \in Seq(Names)
      /\ CrossHostOf(from) = URL(Cross, dir \o from.path)
      /\ CrossHostOf(from).path \in Seq(Names) /\ CrossHostOf(from).path # <<>>
      /\ CrossHostOf(url).path \in Seq(Names) /\ CrossHostOf(url).path # <<>>
  <2>1. /\ dir \in Seq(Names)
        /\ CrossHostOf(from) = URL(Cross, dir \o from.path)
        /\ CrossHostOf(from).path \in Seq(Names)
        /\ Len(CrossHostOf(from).path) = 2 + Len(from.path)
    BY CrossHostIs
  <2>2. /\ CrossHostOf(url).path \in Seq(Names)
        /\ Len(CrossHostOf(url).path) = 2 + Len(url.path)
    BY CrossHostIs
  <2>3. Len(from.path) \in Nat /\ Len(url.path) \in Nat
    BY <1>1
  <2>4. \A path \in Seq(Names), n \in Nat : Len(path) = 2 + n => path # <<>>
    OBVIOUS
  <2> QED BY <2>1, <2>2, <2>3, <2>4
<1>3. Home(from) = from
  BY HomeIs
<1>4. Redirected(Home(url)) = Home(url) /\ Redirected(url) = Home(url)
  BY <1>1, HomeIs DEF Redirected, Home
<1> HIDE DEF dir
<1>5. CASE from.site = url.site /\ layout = "single"
  <2>1. Location(layout, from) = URL(from.site, from.path)
    BY <1>1, <1>3, <1>5 DEF Location
  <2>2. ref = ReducePath(from.path, url.path)
    BY <1>5, ReduceIs DEF NeedsCrossHost
  <2>3. Resolve(URL(from.site, from.path), ReducePath(from.path, url.path))
            = URL(from.site, Named(url.path))
    BY <1>1, RelativeResolvesHere
  <2>4. Resolve(Location(layout, from), ref) = Home(url)
    BY <1>5, <2>1, <2>2, <2>3, HomeIs
  <2> QED BY <1>4, <2>4
<1>6. CASE from.site = url.site /\ layout = "cross"
  <2>1. Location(layout, from) = URL(Cross, dir \o from.path)
    BY <1>2, <1>3, <1>6 DEF Location
  <2>2. ref = ReducePath(from.path, url.path)
    BY <1>6, ReduceIs DEF NeedsCrossHost
  <2>3. url.path # <<>>
    BY <1>6
  <2>4. Resolve(URL(Cross, Below(dir, from.path)), ReducePath(from.path, url.path))
            = URL(Cross, Below(dir, Named(url.path)))
    BY <1>1, <1>2, <2>3, RelativeResolves
  <2>5. CrossHostOf(url) = URL(Cross, dir \o Named(url.path))
    BY <1>6, <2>3 DEF CrossHostOf, Named, dir
  <2>6. Location(layout, url) = CrossHostOf(Home(url))
    BY <1>6 DEF Location
  <2> QED BY <2>1, <2>2, <2>4, <2>5, <2>6, CrossHostRedirected DEF Below
<1>7. CASE from.site # url.site /\ ~NeedsCrossHost(from, noCross, url)
  <2>1. ref = Absolute(url)
    BY <1>7, ReduceIs
  <2>2. Resolve(Location(layout, from), ref) = url
    BY <2>1 DEF Resolve, Absolute
  <2> QED BY <1>4, <2>2
<1>8. CASE from.site # url.site /\ NeedsCrossHost(from, noCross, url)
  <2> DEFINE x == CrossHostOf(from).path
             y == CrossHostOf(url).path
  <2>1. x \in Seq(Names) /\ x # <<>> /\ y \in Seq(Names) /\ y # <<>>
    BY <1>2
  <2>2. ref = ReducePath(x, y)
    BY <1>8, ReduceIs
  <2>3. Location(layout, from) = URL(Cross, x) /\ CrossHostOf(url) = URL(Cross, y)
    BY <1>3, <1>8 DEF Location, CrossHostOf, URL
  <2> HIDE DEF x, y
  <2>6. Resolve(URL(Cross, x), ReducePath(x, y)) = URL(Cross, Named(y))
    BY <2>1, RelativeResolvesHere
  <2>8. Resolve(Location(layout, from), ref) = CrossHostOf(url)
    BY <2>1, <2>2, <2>3, <2>6 DEF Named
  <2>9. Location(layout, url) = CrossHostOf(Home(url))
    BY <1>8 DEF Location
  <2> QED BY <2>8, <2>9, CrossHostRedirected
<1> QED BY <1>5, <1>6, <1>7, <1>8 DEF Layouts

----------------------------------------------------------------------------
(* The references of a page.                                               *)

NoBase == \A i \in 1 .. Len(read) : ~IsBase(read[i])

\* Download resolves references against what they are relative to, where the base
\* element is alone and left out.
BaseInv ==
    /\ NoBase => base = page /\ docBase = page
    /\ PlainBase => docBase = base

\* A link that was written is the one that Reduce writes for what the original
\* means, and the header and the links know of it.
Mirrors(entry) ==
    /\ entry.ref = Reduce(page, noCrossHost, entry.original)
    /\ NeedsCrossHost(page, noCrossHost, entry.original) => crossRef
    /\ entry.original
          \in (IF Discovers(entry.token) THEN links.discovered ELSE links.assets) \cup {page}

LinkInv ==
    PlainBase => \A i \in 1 .. Len(body) : HoldsLink(body[i].token) => Mirrors(body[i])

LEMMA ReadAppend ==
  ASSUME TypeOK, NEW t \in Tokens, read' = Append(read, t)
  PROVE  /\ Len(read') = Len(read) + 1 /\ Len(read) \in Nat
         /\ read'[Len(read) + 1] = t
         /\ \A i \in 1 .. Len(read) : read'[i] = read[i]
         /\ PlainBase' => PlainBase
         /\ NoBase' => NoBase /\ ~IsBase(t)
         /\ PlainBase' /\ IsBase(t) => NoBase /\ t.form = "selfClosing"
<1>1. read \in Seq(Tokens)
  BY DEF TypeOK
<1>2. /\ Len(read') = Len(read) + 1 /\ Len(read) \in Nat
      /\ read'[Len(read) + 1] = t
      /\ \A i \in 1 .. Len(read) : read'[i] = read[i]
  BY <1>1, AppendProperties
<1>3. ASSUME PlainBase' PROVE PlainBase
  <2>1. ASSUME NEW i \in 1 .. Len(read), NEW j \in 1 .. Len(read),
               IsBase(read[i]), IsBase(read[j])
        PROVE  i = j /\ read[i].form = "selfClosing"
    <3>1. i \in 1 .. Len(read') /\ j \in 1 .. Len(read')
      BY <1>2
    <3>2. IsBase(read'[i]) /\ IsBase(read'[j])
      BY <1>2, <2>1
    <3>3. i = j /\ read'[i].form = "selfClosing"
      BY <1>3, <3>1, <3>2 DEF PlainBase
    <3> QED BY <1>2, <3>3
  <2> QED BY <2>1 DEF PlainBase
<1>4. ASSUME NoBase' PROVE NoBase /\ ~IsBase(t)
  <2>1. ~IsBase(t)
    BY <1>2, <1>4 DEF NoBase
  <2>2. ASSUME NEW i \in 1 .. Len(read) PROVE ~IsBase(read[i])
    <3>1. i \in 1 .. Len(read') /\ read'[i] = read[i]
      BY <1>2
    <3>2. ~IsBase(read'[i])
      BY <1>4, <3>1 DEF NoBase
    <3> QED BY <3>1, <3>2
  <2> QED BY <2>1, <2>2 DEF NoBase
<1>5. ASSUME PlainBase', IsBase(t) PROVE NoBase /\ t.form = "selfClosing"
  <2> DEFINE n == Len(read) + 1
  <2>1. n \in 1 .. Len(read') /\ IsBase(read'[n]) /\ read'[n] = t
    BY <1>2, <1>5
  <2>2. t.form = "selfClosing"
    BY <1>5, <2>1 DEF PlainBase
  <2>3. ASSUME NEW i \in 1 .. Len(read), IsBase(read[i]) PROVE FALSE
    <3>1. i \in 1 .. Len(read') /\ IsBase(read'[i]) /\ i # n
      BY <1>2, <2>3
    <3> HIDE DEF n
    <3> QED BY <1>5, <2>1, <3>1 DEF PlainBase
  <2> QED BY <2>2, <2>3 DEF NoBase
<1> QED BY <1>2, <1>3, <1>4, <1>5

LEMMA BaseInit == Init => BaseInv
BY DEF Init, BaseInv

LEMMA BaseNext == TypeOK /\ BaseInv /\ [Next]_vars => BaseInv'
<1> SUFFICES ASSUME TypeOK, BaseInv, [Next]_vars PROVE BaseInv'
  OBVIOUS
<1>1. Steps
  BY StepsAre
<1>2. CASE UNCHANGED <<page, base, read, docBase>>
  BY <1>2 DEF BaseInv, NoBase, PlainBase
<1>3. ASSUME NEW t \in Tokens, TokenRead(t) PROVE BaseInv'
  <2>1. read' = Append(read, t) /\ page' = page
    BY <1>3 DEF TokenRead, input
  <2>2. /\ PlainBase' => PlainBase
        /\ NoBase' => NoBase /\ ~IsBase(t)
        /\ PlainBase' /\ IsBase(t) => NoBase /\ t.form = "selfClosing"
    BY <2>1, ReadAppend
  <2>3. CASE ~IsBase(t)
    BY <1>3, <2>1, <2>2, <2>3 DEF TokenRead, BaseInv
  <2>4. CASE IsBase(t)
    <3>1. ASSUME PlainBase' PROVE docBase' = base'
      <4>1. NoBase /\ base = page /\ t.form = "selfClosing"
        BY <2>2, <2>4, <3>1 DEF BaseInv
      <4>2. base' = Resolve(base, t.ref) /\ NoteBase(t)
        BY <1>3, <2>4, <4>1 DEF TokenRead
      <4>3. docBase' = Resolve(page, t.ref)
        BY <2>4, <4>1, <4>2 DEF NoteBase, NoBase
      <4> QED BY <4>1, <4>2, <4>3
    <3> QED BY <2>2, <2>4, <3>1 DEF BaseInv
  <2> QED BY <2>3, <2>4
<1> QED BY <1>1, <1>2, <1>3 DEF Steps, Quiet, Redirect, Enter, input

\* What is found stays found.
LEMMA LinksGrow ==
  ASSUME TypeOK, NEW t, WriteProcessed(t) \/ WriteRaw(t)
  PROVE  /\ links.discovered \subseteq links'.discovered
         /\ links.assets \subseteq links'.assets
         /\ crossRef => crossRef'
         /\ WriteProcessed(t) => FoundIn(t) \subseteq (IF Discovers(t) THEN links'.discovered
                                                     ELSE links'.assets)
<1>1. links \in [discovered : SUBSET URLSet, assets : SUBSET URLSet]
  BY DEF TypeOK
<1>2. CASE WriteRaw(t) /\ ~WriteProcessed(t)
  BY <1>2 DEF WriteRaw
<1>3. CASE WriteProcessed(t)
  <2> DEFINE found == FoundIn(t)
             discovered == links.discovered \cup found
             assets == links.assets \cup found
  <2>1. links' = IF Discovers(t) THEN [links EXCEPT !.discovered = discovered]
                 ELSE [links EXCEPT !.assets = assets]
    BY <1>3 DEF WriteProcessed
  <2>2. crossRef => crossRef'
    BY <1>3 DEF WriteProcessed
  <2>3. /\ links.discovered \subseteq discovered /\ found \subseteq discovered
        /\ links.assets \subseteq assets /\ found \subseteq assets
    OBVIOUS
  <2> HIDE DEF discovered, assets
  <2> QED BY <1>1, <2>1, <2>2, <2>3
<1> QED BY <1>2, <1>3

LEMMA StaysMirrored ==
  ASSUME TypeOK, UNCHANGED input, NEW t, WriteProcessed(t) \/ WriteRaw(t),
         NEW entry, Mirrors(entry)
  PROVE  Mirrors(entry)'
BY LinksGrow DEF Mirrors, input

LEMMA WrittenMirrors ==
  ASSUME TypeOK, UNCHANGED input, docBase = base,
         NEW t \in Tokens \cup {LocationToken(ref) : ref \in Locations},
         WriteProcessed(t), HoldsLink(t)
  PROVE  \E entry \in Entries :
            body' = Append(body, entry) /\ entry.token = t /\ Mirrors(entry)'
<1>1. Meaningful(t.ref)
  BY DEF HoldsLink
<1>a. Appends(t, Processed(t.ref))
  BY Writes
<1>2. PICK entry \in Entries :
          /\ body' = Append(body, entry)
          /\ entry.token = t /\ entry.ref = Processed(t.ref)
          /\ entry.original = FullURL(t.ref)
  BY <1>1, <1>a DEF Appends, FullURL
<1>3. FoundIn(t) \subseteq (IF Discovers(t) THEN links'.discovered ELSE links'.assets)
  BY LinksGrow
<1>4. entry.ref = Reduce(page, noCrossHost, entry.original)
  BY <1>1, <1>2 DEF Processed
<1>5. NeedsCrossHost(page, noCrossHost, entry.original) => crossRef'
  <2>1. crossRef' = (crossRef \/ (Meaningful(t.ref)
                                 /\ NeedsCrossHost(page, noCrossHost, FullURL(t.ref))))
    BY DEF WriteProcessed
  <2> QED BY <1>1, <1>2, <2>1
<1>6. entry.original
          \in (IF Discovers(t) THEN links'.discovered ELSE links'.assets) \cup {page}
  <2>1. FoundIn(t) = {entry.original} \ {page}
    BY <1>1, <1>2 DEF FoundIn
  <2> QED BY <1>3, <2>1
<1> QED BY <1>2, <1>4, <1>5, <1>6 DEF Mirrors, input

LEMMA LinkInit == Init => LinkInv
<1> SUFFICES ASSUME Init PROVE LinkInv
  OBVIOUS
<1>1. Len(body) = 0
  BY DEF Init
<1> QED BY <1>1 DEF LinkInv

LEMMA LinkNext == TypeOK /\ BaseInv /\ LinkInv /\ [Next]_vars => LinkInv'
<1> SUFFICES ASSUME TypeOK, BaseInv, LinkInv, [Next]_vars, PlainBase',
                    NEW i \in 1 .. Len(body'), NEW new, new = body'[i], HoldsLink(new.token)
             PROVE  Mirrors(new)'
  BY DEF LinkInv
<1>1. Steps
  BY StepsAre
<1>2. body \in Seq(Entries)
  BY DEF TypeOK
<1>3. PlainBase /\ UNCHANGED input
  <2>1. CASE UNCHANGED <<read, input>>
    BY <2>1 DEF PlainBase
  <2>2. ASSUME NEW t \in Tokens, TokenRead(t) PROVE PlainBase /\ UNCHANGED input
    BY <2>2, ReadAppend DEF TokenRead
  <2> QED BY <1>1, <2>1, <2>2 DEF Steps, Quiet, Redirect, Enter
<1>4. docBase = base
  BY <1>3 DEF BaseInv
<1>5. \A j \in 1 .. Len(body) : HoldsLink(body[j].token) => Mirrors(body[j])
  BY <1>3 DEF LinkInv
<1>6. CASE UNCHANGED output
  <2>1. i \in 1 .. Len(body) /\ new = body[i]
    BY <1>6 DEF output
  <2>2. Mirrors(new)
    BY <1>5, <2>1
  <2> QED BY <1>3, <1>6, <2>2 DEF output, input, Mirrors
<1>7. ASSUME NEW t \in Tokens \cup {LocationToken(ref) : ref \in Locations},
             WriteProcessed(t) \/ (WriteRaw(t) /\ ~HoldsLink(t))
      PROVE  Mirrors(new)'
  <2>1. PICK entry \in Entries :
            /\ body' = Append(body, entry) /\ entry.token = t
            /\ HoldsLink(t) => Mirrors(entry)'
    <3>1. CASE HoldsLink(t)
      BY <1>3, <1>4, <1>7, <3>1, WrittenMirrors
    <3>2. CASE ~HoldsLink(t)
      <4>1. \E ref : Appends(t, ref)
        BY <1>7, Writes
      <4> QED BY <3>2, <4>1 DEF Appends
    <3> QED BY <3>1, <3>2
  <2>2. /\ Len(body') = Len(body) + 1 /\ Len(body) \in Nat
        /\ body'[Len(body) + 1] = entry
        /\ \A j \in 1 .. Len(body) : body'[j] = body[j]
    BY <1>2, <2>1, AppendProperties
  <2>3. CASE i = Len(body) + 1
    <3>1. new = entry
      BY <2>2, <2>3
    <3>2. Mirrors(entry)'
      BY <2>1, <3>1
    <3> QED BY <3>1, <3>2 DEF Mirrors
  <2>4. CASE i # Len(body) + 1
    <3>1. i \in 1 .. Len(body) /\ new = body[i]
      BY <2>2, <2>4
    <3>2. Mirrors(new)
      BY <1>5, <3>1
    <3> QED BY <1>3, <1>7, <3>2, StaysMirrored
  <2> QED BY <2>3, <2>4
<1>8. ASSUME NEW t \in Tokens, TokenRead(t)
      PROVE  UNCHANGED output \/ WriteProcessed(t) \/ (WriteRaw(t) /\ ~HoldsLink(t))
  BY <1>8 DEF TokenRead, Handled, Copied
<1>9. ASSUME NEW ref \in Locations, Redirect(ref)
      PROVE  WriteProcessed(LocationToken(ref))
  BY <1>9 DEF Redirect
<1> QED BY <1>1, <1>6, <1>7, <1>8, <1>9 DEF Steps, Quiet

LEMMA LinkInvHolds == Spec => [](TypeOK /\ BaseInv /\ LinkInv)
<1>1. Init => BaseInv /\ LinkInv
  BY BaseInit, LinkInit
<1>2. TypeOK /\ BaseInv /\ LinkInv /\ [Next]_vars => BaseInv' /\ LinkInv'
  BY BaseNext, LinkNext
<1> QED BY <1>1, <1>2, PageTypeCorrect, PTL DEF Spec

\* Whatever a page with one closed base element at most refers to is among the links
\* the crawler gets, unless it is the page.
THEOREM LinksAreFollowed == Spec => []LinksFollowed
<1>1. LinkInv => LinksFollowed
  BY DEF LinkInv, Mirrors, LinksFollowed, Discovers
<1> QED BY <1>1, LinkInvHolds, PTL

\* A visitor who follows a reference of a page that is shown comes to the mirror of
\* what the original reference means, or to that url itself: for all sites, paths,
\* host rewrites, documents and both ways to show them.
THEOREM LinksAreKept == Spec => []LinksKept
<1>1. ASSUME TypeOK, LinkInv PROVE LinksKept
  <2> SUFFICES ASSUME PlainBase, NEW i \in 1 .. Len(body), NEW layout \in ShownIn,
                      HoldsLink(body[i].token),
                      ~(layout = "cross" /\ BareHost(body[i].original))
               PROVE  Redirected(Resolve(Location(layout, page), body[i].ref))
                          \in {Home(body[i].original), Location(layout, body[i].original)}
    BY DEF LinksKept
  <2> DEFINE url == body[i].original
  <2>1. Mirrors(body[i]) /\ url \in URLSet
    <3>1. body[i] \in Entries
      BY <1>1 DEF TypeOK
    <3>2. Mirrors(body[i])
      BY <1>1 DEF LinkInv
    <3> QED BY <3>1, <3>2 DEF Entries
  <2>2. page \in URLSet /\ noCrossHost \in BOOLEAN
    BY <1>1, PageAssumption DEF TypeOK
  <2>3. layout \in Layouts /\ page.path # <<>> /\ (crossRef => layout = "cross")
    BY DEF ShownIn
  <2>4. /\ body[i].ref = Reduce(page, noCrossHost, url)
        /\ NeedsCrossHost(page, noCrossHost, url) => layout = "cross"
        /\ ~(layout = "cross" /\ url.site = page.site /\ url.path = <<>>)
    BY <2>1, <2>3 DEF Mirrors, BareHost
  <2> HIDE DEF url
  <2>5. Redirected(Resolve(Location(layout, page), Reduce(page, noCrossHost, url)))
            \in {Home(url), Location(layout, url)}
    BY <2>1, <2>2, <2>3, <2>4, ReferencesLead
  <2> QED BY <2>4, <2>5 DEF url
<1>2. TypeOK /\ LinkInv => LinksKept
  BY <1>1
<1> QED BY <1>2, LinkInvHolds, PTL

============================================================================

---------------------------- MODULE ProgramProofs ----------------------------
(* Proofs about the program with its server and its cache files, for any   *)
(* urls, answers, command lines, times and budgets.                        *)
(*                                                                         *)
(* First what the operators on lines give: a position, a file of parts, a  *)
(* prefix, a bumped file, a scan.  Then the invariant ProgramOK, of which  *)
(* the types are a part; the files and the queue while a refresh waits;    *)
(* the lifetime of written files; the good files, which a visit may not    *)
(* spoil between reading a file and answering; whose lines the files hold  *)
(* and what a visitor gets of them; and last, what the configuration has   *)
(* of the command line, and which listeners it leads to.                   *)
(*                                                                         *)
(* Terms such as x \o y or SubSeq(x, 1, n) have names here (Joined, Prefix *)
(* and others), so that a lemma about them can be cited with arguments of  *)
(* any shape.                                                              *)
EXTENDS Program, SequenceTheorems, WellFoundedInduction, TLAPS

----------------------------------------------------------------------------
(* Positions.                                                              *)

\* A set of numbers has a least one.
LEMMA Least ==
  ASSUME NEW T \in SUBSET Nat, T # {}
  PROVE  \E m \in T : \A k \in T : m <= k
<1>1. PICK m \in T : \A k \in T : ~(<<k, m>> \in OpToRel(<, Nat))
  BY NatLessThanWellFounded, WFMin
<1>2. ASSUME NEW k \in T PROVE m <= k
  <2>1. ~(<<k, m>> \in OpToRel(<, Nat))
    BY <1>1
  <2>2. k \in Nat /\ m \in Nat
    OBVIOUS
  <2>3. ~(k < m)
    BY <2>1, <2>2 DEF OpToRel
  <2> QED BY <2>2, <2>3
<1> QED BY <1>2

\* A position is that of the first line with such a key, or 0.
LEMMA PositionIs ==
  ASSUME NEW S, NEW lines \in Seq(S), NEW keys, NEW k, k = Position(keys, lines)
  PROVE  /\ k \in 0 .. Len(lines)
         /\ k = 0 => \A i \in 1 .. Len(lines) : lines[i].key \notin keys
         /\ k # 0 => lines[k].key \in keys /\ \A i \in 1 .. k - 1 : lines[i].key \notin keys
<1> DEFINE I == {i \in 1 .. Len(lines) : lines[i].key \in keys}
<1>1. k = IF I # {} THEN CHOOSE x \in I : \A y \in I : x <= y ELSE 0
  BY DEF Position, SelectInSeq, Min
<1>2. Len(lines) \in Nat /\ I \in SUBSET Nat
  OBVIOUS
<1>3. CASE I = {}
  BY <1>1, <1>2, <1>3
<1>4. CASE I # {}
  <2> HIDE DEF I
  <2>1. k \in I /\ \A y \in I : k <= y
    BY <1>1, <1>2, <1>4, Least
  <2> USE DEF I
  <2>2. k \in 1 .. Len(lines) /\ lines[k].key \in keys
    BY <2>1
  <2>3. ASSUME NEW i \in 1 .. k - 1, lines[i].key \in keys PROVE FALSE
    <3>1. i \in I /\ ~(k <= i)
      BY <1>2, <2>2, <2>3
    <3> QED BY <2>1, <3>1
  <2> QED BY <2>2, <2>3
<1> QED BY <1>3, <1>4

LEMMA PositionAt ==
  ASSUME NEW S, NEW lines \in Seq(S), NEW keys, NEW k \in 1 .. Len(lines),
         lines[k].key \in keys, \A i \in 1 .. k - 1 : lines[i].key \notin keys
  PROVE  Position(keys, lines) = k
<1>1. PICK m : m = Position(keys, lines)
  OBVIOUS
<1>2. /\ m \in 0 .. Len(lines)
      /\ m = 0 => \A i \in 1 .. Len(lines) : lines[i].key \notin keys
      /\ m # 0 => lines[m].key \in keys /\ \A i \in 1 .. m - 1 : lines[i].key \notin keys
  BY <1>1, PositionIs
<1>3. m # 0 /\ Len(lines) \in Nat
  BY <1>2
<1>4. ~(m < k) /\ ~(k < m)
  <2>1. ~(m < k)
    BY <1>2, <1>3
  <2>2. ~(k < m)
    <3>1. k < m => k \in 1 .. m - 1
      BY <1>2, <1>3
    <3> QED BY <1>2, <1>3, <3>1
  <2> QED BY <2>1, <2>2
<1>5. m = k
  BY <1>2, <1>3, <1>4
<1> QED BY <1>1, <1>5

\* A time below half of the range is not wrapped.
LEMMA WrapIs ==
  ASSUME NEW t \in Nat, t < Half
  PROVE  Wrap(t) = t
BY TimesAssumption DEF Wrap

LEMMA OneIsSeq ==
  ASSUME NEW S, NEW e \in S
  PROVE  <<e>> \in Seq(S) /\ Len(<<e>>) = 1 /\ <<e>>[1] = e
<1>1. <<e>> \in [1 .. 1 -> S]
  OBVIOUS
<1> QED BY <1>1, SeqDef

Joined(x, y) == x \o y

Joins(S, x, y, z) ==
    /\ z \in Seq(S) /\ Len(z) = Len(x) + Len(y)
    /\ \A i \in 1 .. Len(x) : z[i] = x[i]
    /\ \A i \in 1 .. Len(y) : z[Len(x) + i] = y[i]

LEMMA JoinedIs ==
  ASSUME NEW S, NEW x \in Seq(S), NEW y \in Seq(S)
  PROVE  Joins(S, x, y, Joined(x, y))
<1> DEFINE z == Joined(x, y)
<1>1. /\ z \in Seq(S) /\ Len(z) = Len(x) + Len(y)
      /\ \A i \in 1 .. Len(x) + Len(y) : z[i] = IF i <= Len(x) THEN x[i] ELSE y[i - Len(x)]
  BY ConcatProperties DEF Joined
<1>2. Len(x) \in Nat /\ Len(y) \in Nat
  OBVIOUS
<1> HIDE DEF z
<1>3. ASSUME NEW i \in 1 .. Len(y) PROVE z[Len(x) + i] = y[i]
  <2>1. Len(x) + i \in 1 .. Len(x) + Len(y) /\ ~(Len(x) + i <= Len(x))
    BY <1>2
  <2>2. (Len(x) + i) - Len(x) = i
    BY <1>2
  <2> QED BY <1>1, <2>1, <2>2
<1>4. ASSUME NEW i \in 1 .. Len(x) PROVE z[i] = x[i]
  BY <1>1, <1>2
<1>5. Joins(S, x, y, z)
  BY <1>1, <1>3, <1>4 DEF Joins
<1> QED BY <1>5 DEF z

FileOf(status, expires, headers, length, blank, lines) ==
    <<status>> \o expires \o headers \o length \o <<blank>> \o lines

Consists(file, status, expires, headers, length, blank, lines) ==
    LET e == Len(expires)
        n == Len(headers)
        l == Len(length)
    IN  /\ Len(file) = 2 + e + n + l + Len(lines)
        /\ file[1] = status
        /\ \A i \in 1 .. e : file[1 + i] = expires[i]
        /\ \A i \in 1 .. n : file[1 + e + i] = headers[i]
        /\ \A i \in 1 .. l : file[1 + e + n + i] = length[i]
        /\ file[2 + e + n + l] = blank
        /\ \A i \in 1 .. Len(lines) : file[2 + e + n + l + i] = lines[i]

\* The lines of a file made of six parts, of which three have a line at most.
LEMMA FileIs ==
  ASSUME NEW S, NEW status \in S, NEW blank \in S,
         NEW expires \in Seq(S), NEW headers \in Seq(S), NEW length \in Seq(S), NEW lines \in Seq(S),
         NEW file, file = FileOf(status, expires, headers, length, blank, lines)
  PROVE  /\ file \in Seq(S)
         /\ Consists(file, status, expires, headers, length, blank, lines)
<1> DEFINE e == Len(expires)
           n == Len(headers)
           l == Len(length)
<1> DEFINE f1 == <<status>>
           f2 == Joined(f1, expires)
           f3 == Joined(f2, headers)
           f4 == Joined(f3, length)
           f5 == <<blank>>
           f6 == Joined(f4, f5)
           f7 == Joined(f6, lines)
<1>1. f1 \in Seq(S) /\ Len(f1) = 1 /\ f1[1] = status
  BY OneIsSeq
<1>5. f5 \in Seq(S) /\ Len(f5) = 1 /\ f5[1] = blank
  BY OneIsSeq
<1>0. Len(lines) \in Nat /\ e \in Nat /\ n \in Nat /\ l \in Nat
  OBVIOUS
<1>f. file = f7
  BY DEF Joined, FileOf
<1> HIDE DEF f1, f5
<1>2. f2 \in Seq(S) /\ Joins(S, f1, expires, f2)
  <2>1. Joins(S, f1, expires, f2)
    BY <1>1, JoinedIs
  <2> QED BY <2>1 DEF Joins
<1> HIDE DEF f2
<1>3. f3 \in Seq(S) /\ Joins(S, f2, headers, f3)
  <2>1. Joins(S, f2, headers, f3)
    BY <1>2, JoinedIs
  <2> QED BY <2>1 DEF Joins
<1> HIDE DEF f3
<1>4. f4 \in Seq(S) /\ Joins(S, f3, length, f4)
  <2>1. Joins(S, f3, length, f4)
    BY <1>3, JoinedIs
  <2> QED BY <2>1 DEF Joins
<1> HIDE DEF f4
<1>6. f6 \in Seq(S) /\ Joins(S, f4, f5, f6)
  <2>1. Joins(S, f4, f5, f6)
    BY <1>4, <1>5, JoinedIs
  <2> QED BY <2>1 DEF Joins
<1> HIDE DEF f6
<1>7. f7 \in Seq(S) /\ Joins(S, f6, lines, f7)
  <2>1. Joins(S, f6, lines, f7)
    BY <1>6, JoinedIs
  <2> QED BY <2>1 DEF Joins
<1> HIDE DEF f7
<1>l. /\ Len(f2) = 1 + e /\ Len(f3) = 1 + e + n /\ Len(f4) = 1 + e + n + l
      /\ Len(f6) = 2 + e + n + l
  BY <1>0, <1>1, <1>2, <1>3, <1>4, <1>5, <1>6 DEF Joins
<1> HIDE DEF e, n, l
<1>8. file[1] = status
  <2>1. f2[1] = status
    BY <1>0, <1>1, <1>2 DEF Joins
  <2>2. f3[1] = status
    BY <1>0, <1>3, <1>l, <2>1 DEF Joins
  <2>3. f4[1] = status
    BY <1>0, <1>4, <1>l, <2>2 DEF Joins
  <2>4. f6[1] = status
    BY <1>0, <1>6, <1>l, <2>3 DEF Joins
  <2>5. 1 \in 1 .. Len(f6)
    BY <1>0, <1>l
  <2> QED BY <1>7, <1>f, <2>4, <2>5 DEF Joins
<1>9. ASSUME NEW i \in 1 .. e PROVE file[1 + i] = expires[i]
  <2>1. f2[1 + i] = expires[i]
    BY <1>0, <1>1, <1>2 DEF Joins, e
  <2>2. 1 + i \in 1 .. Len(f2) /\ 1 + i \in 1 .. Len(f3) /\ 1 + i \in 1 .. Len(f4)
        /\ 1 + i \in 1 .. Len(f6)
    BY <1>0, <1>l
  <2> QED BY <1>0, <1>3, <1>4, <1>6, <1>7, <1>f, <2>1, <2>2 DEF Joins
<1>10. ASSUME NEW i \in 1 .. n PROVE file[1 + e + i] = headers[i]
  <2>1. f3[1 + e + i] = headers[i]
    BY <1>0, <1>3, <1>l DEF Joins
  <2>2. 1 + e + i \in 1 .. Len(f3) /\ 1 + e + i \in 1 .. Len(f4) /\ 1 + e + i \in 1 .. Len(f6)
    BY <1>0, <1>l
  <2> QED BY <1>0, <1>4, <1>6, <1>7, <1>f, <2>1, <2>2 DEF Joins
<1>11. ASSUME NEW i \in 1 .. l PROVE file[1 + e + n + i] = length[i]
  <2>1. f4[1 + e + n + i] = length[i]
    BY <1>0, <1>4, <1>l DEF Joins
  <2>2. 1 + e + n + i \in 1 .. Len(f4) /\ 1 + e + n + i \in 1 .. Len(f6)
    BY <1>0, <1>l
  <2> QED BY <1>0, <1>6, <1>7, <1>f, <2>1, <2>2 DEF Joins
<1>12. file[2 + e + n + l] = blank
  <2>1. 2 + e + n + l = Len(f4) + 1 /\ 2 + e + n + l \in 1 .. Len(f6)
    BY <1>0, <1>l
  <2>2. f6[Len(f4) + 1] = blank
    BY <1>0, <1>5, <1>6 DEF Joins
  <2> QED BY <1>0, <1>7, <1>f, <2>1, <2>2 DEF Joins
<1>13. ASSUME NEW i \in 1 .. Len(lines) PROVE file[2 + e + n + l + i] = lines[i]
  BY <1>0, <1>7, <1>f, <1>l DEF Joins
<1>14. Len(file) = 2 + e + n + l + Len(lines)
  BY <1>0, <1>7, <1>f, <1>l DEF Joins
<1> QED BY <1>7, <1>f, <1>8, <1>9, <1>10, <1>11, <1>12, <1>13, <1>14 DEF Consists, e, n, l

----------------------------------------------------------------------------
(* Lines and files.                                                        *)

\* The lines of the cache files.
Stored == {l \in Lines : l.key # "expires" => l.num \in Nat}

LEMMA PlainIs ==
  ASSUME NEW key \in Keys, NEW num \in Int, key # "expires" => num \in Nat
  PROVE  Plain(key, num) \in Stored /\ Plain(key, num).key = key /\ Plain(key, num).num = num
BY DEF Plain, Line, Lines, Stored

LEMMA ExpiresLineIs ==
  ASSUME NEW t \in Int
  PROVE  /\ ExpiresLine(t) \in Stored /\ ExpiresLine(t).key = "expires"
         /\ ExpiresLine(t).num = Wrap(t)
<1>1. Wrap(t) \in Int
  BY TimesAssumption DEF Wrap
<1> QED BY <1>1, PlainIs DEF ExpiresLine, Keys

LEMMA AnswerIs ==
  ASSUME NEW a \in Answers
  PROVE  /\ Answer[a].status \in Nat /\ Answer[a].length \in Nat
         /\ Answer[a].expires \in Int /\ Answer[a].maxAge \in Nat
         /\ Answer[a].crossRef \in BOOLEAN
BY NamesAssumption

LEMMA LifetimeIs ==
  ASSUME NEW a \in Answers, NEW t \in Nat
  PROVE  Lifetime(a, t) \in Nat
BY AnswerIs, TimesAssumption DEF Lifetime

\* No more than one line, and what is in it.
AtMost(lines, n, e) ==
    /\ lines \in Seq(Stored) /\ Len(lines) = n
    /\ \A i \in 1 .. Len(lines) : lines[i] = e

LEMMA OneOrNone ==
  ASSUME NEW e \in Stored, NEW lines, NEW b, b => lines = <<e>>, ~b => lines = <<>>
  PROVE  AtMost(lines, IF b THEN 1 ELSE 0, e)
<1>1. <<e>> \in Seq(Stored) /\ Len(<<e>>) = 1 /\ <<e>>[1] = e
  BY OneIsSeq
<1>2. <<>> \in Seq(Stored) /\ Len(<<>>) = 0
  OBVIOUS
<1>3. CASE b
  <2>1. lines \in Seq(Stored) /\ Len(lines) = 1 /\ lines[1] = e
    BY <1>1, <1>3
  <2> QED BY <1>3, <2>1 DEF AtMost
<1>4. CASE ~b
  <2>1. lines \in Seq(Stored) /\ Len(lines) = 0
    BY <1>2, <1>4
  <2> QED BY <1>4, <2>1 DEF AtMost
<1> QED BY <1>3, <1>4

\* The Content-Type or Location of an answer, which not all answers have.
HasMeta(a) == Answer[a].status \in 200 .. 399

MetaOf(u, a) == Line("meta", 0, <<u, a>>)

BodyLine(u, a, n) == Line("body", n, <<u, a>>)

\* A file that a download of the answer a has written at the time t: the status, when
\* it expires, headers, a blank line at b, and the body.
WrittenTo(file, u, a, t, b) ==
    /\ b \in 2 .. Len(file)
    /\ Len(file) = b + Answer[a].length
    /\ file[b] = Blank
    /\ \A i \in 2 .. b - 1 : file[i].key \in Keys \ {"blank", "body", "status"}
    /\ \A i \in 2 .. b - 1 : file[i].key = "length" => file[i].num = Answer[a].length
    /\ \A i \in b + 1 .. Len(file) : file[i].key = "body"
    /\ Lifetime(a, t) > 0 => file[2] = ExpiresLine(t + Lifetime(a, t))
    /\ \A i \in 2 .. b - 1 : file[i].key = "expires" => i = 2 /\ Lifetime(a, t) > 0
    /\ \A i \in 2 .. b - 1 :
          file[i].key = "meta" => file[i].of[2] = a /\ HasMeta(a) /\ file[i] = MetaOf(u, a)
    /\ HasMeta(a) => \E i \in 2 .. b - 1 : file[i].key = "meta"
    /\ Answer[a].length > 0 => \E i \in 2 .. b - 1 : file[i].key = "length"
    /\ \A i \in b + 1 .. Len(file) : file[i] = BodyLine(u, a, i - b)

WrittenBy(file, u, a, t) ==
    /\ file \in Seq(Stored)
    /\ file[1] = Plain("status", Answer[a].status)
    /\ \E b \in Nat : WrittenTo(file, u, a, t, b)

LEMMA MetaIs ==
  ASSUME NEW u \in URLs, NEW a \in Answers
  PROVE  /\ MetaOf(u, a) \in Stored /\ MetaOf(u, a).key = "meta" /\ MetaOf(u, a).of[2] = a
         /\ AtMost(MetaLines(u, a), IF HasMeta(a) THEN 1 ELSE 0, MetaOf(u, a))
<1>1. MetaOf(u, a) \in Stored /\ MetaOf(u, a).key = "meta" /\ MetaOf(u, a).of[2] = a
  BY DEF MetaOf, Line, Lines, Keys, Stored
<1>2. HasMeta(a) => MetaLines(u, a) = <<MetaOf(u, a)>>
  BY DEF MetaLines, HasMeta, MetaOf
<1>3. ~HasMeta(a) => MetaLines(u, a) = <<>>
  BY DEF MetaLines, HasMeta
<1>4. AtMost(MetaLines(u, a), IF HasMeta(a) THEN 1 ELSE 0, MetaOf(u, a))
  BY <1>1, <1>2, <1>3, OneOrNone
<1> QED BY <1>1, <1>4

LEMMA CrossRefIs ==
  ASSUME NEW a \in Answers
  PROVE  /\ CrossRefLines(a) \in Seq(Stored)
         /\ \A i \in 1 .. Len(CrossRefLines(a)) : CrossRefLines(a)[i].key = "crossRef"
<1> DEFINE m == Plain("crossRef", 0)
<1>1. m \in Stored /\ m.key = "crossRef"
  BY PlainIs DEF Keys
<1>2. Answer[a].crossRef => CrossRefLines(a) = <<m>>
  BY DEF CrossRefLines
<1>3. ~Answer[a].crossRef => CrossRefLines(a) = <<>>
  BY DEF CrossRefLines
<1> HIDE DEF m
<1>4. AtMost(CrossRefLines(a), IF Answer[a].crossRef THEN 1 ELSE 0, m)
  BY <1>1, <1>2, <1>3, OneOrNone
<1> QED BY <1>1, <1>4 DEF AtMost

LEMMA LengthIs ==
  ASSUME NEW a \in Answers
  PROVE  /\ LengthLines(a) \in Seq(Stored)
         /\ Len(LengthLines(a)) = IF Answer[a].length > 0 THEN 1 ELSE 0
         /\ \A i \in 1 .. Len(LengthLines(a)) :
               LengthLines(a)[i].key = "length" /\ LengthLines(a)[i].num = Answer[a].length
<1> DEFINE m == Plain("length", Answer[a].length)
<1>1. m \in Stored /\ m.key = "length" /\ m.num = Answer[a].length
  BY PlainIs, AnswerIs DEF Keys
<1>2. Answer[a].length > 0 => LengthLines(a) = <<m>>
  BY DEF LengthLines
<1>3. ~(Answer[a].length > 0) => LengthLines(a) = <<>>
  BY DEF LengthLines
<1> HIDE DEF m
<1>4. AtMost(LengthLines(a), IF Answer[a].length > 0 THEN 1 ELSE 0, m)
  BY <1>1, <1>2, <1>3, OneOrNone
<1> QED BY <1>1, <1>4 DEF AtMost

LEMMA ExpiresIs ==
  ASSUME NEW a \in Answers, NEW t \in Nat
  PROVE  /\ ExpiresLines(a, t) \in Seq(Stored)
         /\ Len(ExpiresLines(a, t)) = IF Lifetime(a, t) > 0 THEN 1 ELSE 0
         /\ \A i \in 1 .. Len(ExpiresLines(a, t)) :
               ExpiresLines(a, t)[i] = ExpiresLine(t + Lifetime(a, t))
<1> DEFINE m == ExpiresLine(t + Lifetime(a, t))
<1>1. m \in Stored
  BY ExpiresLineIs, LifetimeIs
<1>2. Lifetime(a, t) > 0 => ExpiresLines(a, t) = <<m>>
  BY DEF ExpiresLines
<1>3. ~(Lifetime(a, t) > 0) => ExpiresLines(a, t) = <<>>
  BY DEF ExpiresLines
<1> HIDE DEF m
<1>4. AtMost(ExpiresLines(a, t), IF Lifetime(a, t) > 0 THEN 1 ELSE 0, m)
  BY <1>1, <1>2, <1>3, OneOrNone
<1> QED BY <1>4 DEF AtMost, m

LEMMA BodyIs ==
  ASSUME NEW u \in URLs, NEW a \in Answers
  PROVE  /\ BodyLines(u, a) \in Seq(Stored) /\ Len(BodyLines(u, a)) = Answer[a].length
         /\ \A i \in 1 .. Len(BodyLines(u, a)) :
               BodyLines(u, a)[i].key = "body" /\ BodyLines(u, a)[i] = BodyLine(u, a, i)
<1>1. /\ BodyLines(u, a) \in [1 .. Answer[a].length -> Stored]
      /\ \A i \in 1 .. Answer[a].length :
            BodyLines(u, a)[i].key = "body" /\ BodyLines(u, a)[i] = BodyLine(u, a, i)
      /\ Answer[a].length \in Nat
  BY AnswerIs DEF BodyLines, BodyLine, Line, Lines, Keys, Stored
<1> QED BY <1>1, SeqDef

\* The headers of the response.
Headers(u, a, h) ==
    /\ h \in Seq(Stored)
    /\ \A i \in 1 .. Len(h) : h[i].key = "crossRef" \/ (HasMeta(a) /\ h[i] = MetaOf(u, a))

HasLine(h, m) == \E i \in 1 .. Len(h) : h[i] = m

LEMMA HeadersAre ==
  ASSUME NEW u \in URLs, NEW a \in Answers, NEW x, NEW y, Headers(u, a, x), Headers(u, a, y),
         HasMeta(a) => HasLine(x, MetaOf(u, a)) \/ HasLine(y, MetaOf(u, a))
  PROVE  /\ Headers(u, a, Joined(x, y))
         /\ HasMeta(a) => HasLine(Joined(x, y), MetaOf(u, a))
<1> DEFINE z == Joined(x, y)
<1>1. Joins(Stored, x, y, z)
  BY JoinedIs DEF Headers
<1>2. Len(x) \in Nat /\ Len(y) \in Nat
  BY DEF Headers
<1> HIDE DEF z
<1>3. ASSUME NEW i \in 1 .. Len(z)
      PROVE  z[i].key = "crossRef" \/ (HasMeta(a) /\ z[i] = MetaOf(u, a))
  <2>1. CASE i <= Len(x)
    BY <1>1, <1>2, <2>1 DEF Joins, Headers
  <2>2. CASE ~(i <= Len(x))
    <3> DEFINE j == i - Len(x)
    <3>1. j \in 1 .. Len(y) /\ i = Len(x) + j
      BY <1>1, <1>2, <2>2 DEF Joins
    <3> HIDE DEF j
    <3>2. z[i] = y[j]
      BY <1>1, <3>1 DEF Joins
    <3> QED BY <3>1, <3>2 DEF Headers
  <2> QED BY <2>1, <2>2
<1>4. Headers(u, a, z)
  BY <1>1, <1>3 DEF Headers, Joins
<1>5. ASSUME HasMeta(a) PROVE HasLine(z, MetaOf(u, a))
  <2>1. CASE HasLine(x, MetaOf(u, a))
    <3>1. PICK i \in 1 .. Len(x) : x[i] = MetaOf(u, a)
      BY <2>1 DEF HasLine
    <3>2. i \in 1 .. Len(z) /\ z[i] = MetaOf(u, a)
      BY <1>1, <1>2, <3>1 DEF Joins
    <3> QED BY <3>2 DEF HasLine
  <2>2. CASE HasLine(y, MetaOf(u, a))
    <3>1. PICK i \in 1 .. Len(y) : y[i] = MetaOf(u, a)
      BY <2>2 DEF HasLine
    <3>2. PICK j : j = Len(x) + i
      OBVIOUS
    <3>3. j \in 1 .. Len(z) /\ z[j] = MetaOf(u, a)
      BY <1>1, <1>2, <3>1, <3>2 DEF Joins
    <3> QED BY <3>3 DEF HasLine
  <2> QED BY <1>5, <2>1, <2>2
<1> QED BY <1>4, <1>5 DEF z

\* What a download writes, line by line.
LEMMA WrittenIs ==
  ASSUME NEW u \in URLs, NEW a \in Answers, NEW t \in Nat, NEW file \in WrittenFiles(u, a, t)
  PROVE  WrittenBy(file, u, a, t)
<1> DEFINE expires == ExpiresLines(a, t)
           length == LengthLines(a)
           lines == BodyLines(u, a)
           status == Plain("status", Answer[a].status)
<1>1. PICK headers : /\ Headers(u, a, headers)
                     /\ HasMeta(a) => HasLine(headers, MetaOf(u, a))
                     /\ file = FileOf(status, expires, headers, length, Blank, lines)
  <2>1. PICK m : m = MetaLines(u, a)
    OBVIOUS
  <2>2. PICK c : c = CrossRefLines(a)
    OBVIOUS
  <2>3. Headers(u, a, m) /\ Headers(u, a, c) /\ (HasMeta(a) => HasLine(m, MetaOf(u, a)))
    <3>1. AtMost(m, IF HasMeta(a) THEN 1 ELSE 0, MetaOf(u, a))
      BY <2>1, MetaIs
    <3>2. c \in Seq(Stored) /\ \A i \in 1 .. Len(c) : c[i].key = "crossRef"
      BY <2>2, CrossRefIs
    <3> QED BY <3>1, <3>2 DEF Headers, HasLine, AtMost
  <2>4. Headers(u, a, Joined(m, c)) /\ (HasMeta(a) => HasLine(Joined(m, c), MetaOf(u, a)))
    BY <2>3, HeadersAre
  <2>5. Headers(u, a, Joined(c, m)) /\ (HasMeta(a) => HasLine(Joined(c, m), MetaOf(u, a)))
    BY <2>3, HeadersAre
  <2>6. PICK headers \in {Joined(m, c), Joined(c, m)} :
          file = FileOf(status, expires, headers, length, Blank, lines)
    BY <2>1, <2>2 DEF WrittenFiles, FileOf, Joined
  <2> QED BY <2>4, <2>5, <2>6
<1>2. status \in Stored /\ status.key = "status"
  BY PlainIs, AnswerIs DEF Keys
<1>3. Blank \in Stored /\ Blank.key = "blank"
  BY PlainIs DEF Blank, Keys
<1>4. /\ expires \in Seq(Stored) /\ Len(expires) = IF Lifetime(a, t) > 0 THEN 1 ELSE 0
      /\ \A i \in 1 .. Len(expires) : expires[i] = ExpiresLine(t + Lifetime(a, t))
  BY ExpiresIs
<1>5. /\ length \in Seq(Stored) /\ Len(length) = IF Answer[a].length > 0 THEN 1 ELSE 0
      /\ \A i \in 1 .. Len(length) : length[i].key = "length" /\ length[i].num = Answer[a].length
  BY LengthIs
<1>6. /\ lines \in Seq(Stored) /\ Len(lines) = Answer[a].length
      /\ \A i \in 1 .. Len(lines) : lines[i].key = "body" /\ lines[i] = BodyLine(u, a, i)
  BY BodyIs
<1> HIDE DEF expires, length, lines
<1> DEFINE e == Len(expires)
           n == Len(headers)
           l == Len(length)
           b == 2 + e + n + l
<1>7. headers \in Seq(Stored) /\ e \in Nat /\ n \in Nat /\ l \in Nat /\ Len(lines) \in Nat
  BY <1>1, <1>4, <1>5, <1>6 DEF Headers
<1> HIDE DEF status
<1>8. file \in Seq(Stored) /\ Consists(file, status, expires, headers, length, Blank, lines)
  BY <1>1, <1>2, <1>3, <1>4, <1>5, <1>6, <1>7, FileIs
<1>9. /\ Len(file) = b + Len(lines) /\ file[1] = status /\ file[b] = Blank
      /\ \A i \in 1 .. e : file[1 + i] = expires[i]
      /\ \A i \in 1 .. n : file[1 + e + i] = headers[i]
      /\ \A i \in 1 .. l : file[1 + e + n + i] = length[i]
      /\ \A i \in 1 .. Len(lines) : file[b + i] = lines[i]
  BY <1>8 DEF Consists
<1> HIDE DEF e, n, l
<1>10. ASSUME NEW i \in 2 .. b - 1
       PROVE  \/ /\ i = 2 /\ file[i] = ExpiresLine(t + Lifetime(a, t)) /\ Lifetime(a, t) > 0
              \/ file[i].key = "crossRef"
              \/ file[i] = MetaOf(u, a) /\ HasMeta(a)
              \/ file[i].key = "length" /\ file[i].num = Answer[a].length
  <2>1. CASE i <= 1 + e
    <3>1. i - 1 \in 1 .. e /\ 1 + (i - 1) = i
      BY <1>7, <2>1
    <3>2. file[i] = expires[i - 1]
      BY <1>9, <3>1
    <3>3. Lifetime(a, t) > 0 /\ i = 2
      BY <1>4, <1>7, <3>1 DEF e
    <3> QED BY <1>4, <3>1, <3>2, <3>3 DEF e
  <2>2. CASE i > 1 + e /\ i <= 1 + e + n
    <3> DEFINE j == i - 1 - e
    <3>1. j \in 1 .. n /\ 1 + e + j = i
      BY <1>7, <2>2
    <3> HIDE DEF j
    <3>2. file[i] = headers[j]
      BY <1>9, <3>1
    <3> QED BY <1>1, <3>1, <3>2 DEF Headers, n
  <2>3. CASE i > 1 + e + n
    <3> DEFINE j == i - 1 - e - n
    <3>1. j \in 1 .. l /\ 1 + e + n + j = i
      BY <1>7, <2>3
    <3> HIDE DEF j
    <3>2. file[i] = length[j]
      BY <1>9, <3>1
    <3> QED BY <1>5, <3>1, <3>2 DEF l
  <2> QED BY <1>7, <2>1, <2>2, <2>3
<1>11. ASSUME NEW i \in b + 1 .. Len(file)
       PROVE  file[i].key = "body" /\ file[i] = BodyLine(u, a, i - b)
  <2> DEFINE j == i - b
  <2>1. j \in 1 .. Len(lines) /\ b + j = i
    BY <1>7, <1>9
  <2>2. BodyLine(u, a, j) = BodyLine(u, a, i - b)
    OBVIOUS
  <2> HIDE DEF j
  <2>3. file[i] = lines[j]
    BY <1>9, <2>1
  <2>4. lines[j].key = "body" /\ lines[j] = BodyLine(u, a, j)
    BY <1>6, <2>1
  <2> QED BY <2>2, <2>3, <2>4
<1>12. Lifetime(a, t) > 0 => file[2] = ExpiresLine(t + Lifetime(a, t))
  <2>1. SUFFICES ASSUME Lifetime(a, t) > 0 PROVE file[1 + 1] = ExpiresLine(t + Lifetime(a, t))
    OBVIOUS
  <2>2. e = 1
    BY <1>4, <2>1 DEF e
  <2>3. file[1 + 1] = expires[1]
    BY <1>9, <2>2
  <2>4. \A i \in 1 .. 1 : expires[i] = ExpiresLine(t + Lifetime(a, t))
    BY <1>4, <2>2 DEF e
  <2> QED BY <2>3, <2>4
<1>13. b \in 2 .. Len(file) /\ Len(file) = b + Answer[a].length
  <2>1. Len(file) = b + Len(lines) /\ Len(lines) = Answer[a].length
    BY <1>6, <1>9
  <2>2. b \in Nat /\ b >= 2
    BY <1>7
  <2> HIDE DEF b
  <2> QED BY <1>7, <2>1, <2>2
<1>14. ExpiresLine(t + Lifetime(a, t)).key = "expires"
  BY ExpiresLineIs, LifetimeIs
<1>15. HasMeta(a) => \E i \in 2 .. b - 1 : file[i].key = "meta"
  <2>1. SUFFICES ASSUME HasMeta(a) PROVE \E i \in 2 .. b - 1 : file[i].key = "meta"
    OBVIOUS
  <2>2. PICK j \in 1 .. n : headers[j] = MetaOf(u, a)
    BY <1>1, <2>1 DEF HasLine, n
  <2>3. PICK i : i = 1 + e + j
    OBVIOUS
  <2>4. i \in 2 .. b - 1 /\ file[i] = MetaOf(u, a)
    BY <1>7, <1>9, <2>2, <2>3
  <2> QED BY <2>4, MetaIs
<1>16. Answer[a].length > 0 => \E i \in 2 .. b - 1 : file[i].key = "length"
  <2>1. SUFFICES ASSUME Answer[a].length > 0
                 PROVE  \E i \in 2 .. b - 1 : file[i].key = "length"
    OBVIOUS
  <2>2. l = 1 /\ length[1].key = "length"
    BY <1>5, <2>1 DEF l
  <2>3. PICK i : i = 1 + e + n + 1
    OBVIOUS
  <2>4. i \in 2 .. b - 1 /\ file[i] = length[1]
    BY <1>7, <1>9, <2>2, <2>3
  <2> QED BY <2>2, <2>4
<1>17. MetaOf(u, a).key = "meta" /\ MetaOf(u, a).of[2] = a
  BY MetaIs
<1> HIDE DEF b
<1>18. WrittenTo(file, u, a, t, b)
  <2>1. \A i \in 2 .. b - 1 : file[i].key \in Keys \ {"blank", "body", "status"}
    BY <1>10, <1>14, <1>17 DEF Keys
  <2>2. \A i \in 2 .. b - 1 : file[i].key = "length" => file[i].num = Answer[a].length
    BY <1>10, <1>14, <1>17
  <2>3. \A i \in 2 .. b - 1 : file[i].key = "expires" => i = 2 /\ Lifetime(a, t) > 0
    BY <1>10, <1>14, <1>17
  <2>4. \A i \in 2 .. b - 1 :
          file[i].key = "meta" => file[i].of[2] = a /\ HasMeta(a) /\ file[i] = MetaOf(u, a)
    BY <1>10, <1>14, <1>17
  <2> QED BY <1>9, <1>11, <1>12, <1>13, <1>15, <1>16, <2>1, <2>2, <2>3, <2>4 DEF WrittenTo
<1>19. b \in Nat
  BY <1>13
<1> QED BY <1>8, <1>9, <1>18, <1>19 DEF WrittenBy, status

----------------------------------------------------------------------------
(* What can become of a file.                                              *)

\* What a failing disk leaves of a file.
Prefix(file, n) == SubSeq(file, 1, n)

LEMMA PrefixIs ==
  ASSUME NEW S, NEW file \in Seq(S), NEW n \in 0 .. Len(file)
  PROVE  /\ Prefix(file, n) \in Seq(S) /\ Len(Prefix(file, n)) = n
         /\ \A i \in 1 .. n : Prefix(file, n)[i] = file[i]
<1>1. Len(file) \in Nat /\ 1 \in 1 .. Len(file) + 1 /\ n \in 1 - 1 .. Len(file)
  OBVIOUS
<1>2. /\ SubSeq(file, 1, n) \in Seq(S)
      /\ Len(SubSeq(file, 1, n)) = IF 1 <= n THEN n - 1 + 1 ELSE 0
      /\ \A i \in 1 .. n - 1 + 1 : SubSeq(file, 1, n)[i] = file[1 + i - 1]
  BY <1>1, SubSeqProperties
<1> DEFINE g == SubSeq(file, 1, n)
<1>3. g = Prefix(file, n)
  BY DEF Prefix
<1> HIDE DEF g
<1>4. g \in Seq(S) /\ Len(g) = n /\ \A i \in 1 .. n : g[i] = file[1 + i - 1]
  BY <1>1, <1>2 DEF g
<1>5. \A i \in 1 .. n : 1 + i - 1 = i
  BY <1>1
<1>6. \A i \in 1 .. n : g[i] = file[i]
  BY <1>4, <1>5
<1> QED BY <1>3, <1>4, <1>6

\* The lines of a body come after the blank line.
Rest(file, n) == SubSeq(file, n + 1, Len(file))

LEMMA RestIs ==
  ASSUME NEW S, NEW file \in Seq(S), NEW n \in 0 .. Len(file)
  PROVE  /\ Rest(file, n) \in Seq(S) /\ Len(Rest(file, n)) = Len(file) - n
         /\ \A i \in 1 .. Len(file) - n : Rest(file, n)[i] = file[n + i]
<1>1. Len(file) \in Nat /\ n + 1 \in 1 .. Len(file) + 1 /\ Len(file) \in n + 1 - 1 .. Len(file)
  OBVIOUS
<1>2. /\ SubSeq(file, n + 1, Len(file)) \in Seq(S)
      /\ Len(SubSeq(file, n + 1, Len(file)))
            = IF n + 1 <= Len(file) THEN Len(file) - (n + 1) + 1 ELSE 0
      /\ \A i \in 1 .. Len(file) - (n + 1) + 1 :
            SubSeq(file, n + 1, Len(file))[i] = file[n + 1 + i - 1]
  BY <1>1, SubSeqProperties
<1> DEFINE g == SubSeq(file, n + 1, Len(file))
<1> HIDE DEF g
<1>3. g \in Seq(S) /\ Len(g) = Len(file) - n
  BY <1>1, <1>2 DEF g
<1>4. ASSUME NEW i \in 1 .. Len(file) - n PROVE g[i] = file[n + i]
  <2>1. i \in 1 .. Len(file) - (n + 1) + 1 /\ n + 1 + i - 1 = n + i
    BY <1>1
  <2> QED BY <1>2, <2>1 DEF g
<1>5. g = Rest(file, n)
  BY DEF g, Rest
<1> QED BY <1>3, <1>4, <1>5

FileOK(file) == file \in Seq(Stored) /\ (Len(file) > 0 => file[1].key = "status")

LEMMA WrittenFileOK ==
  ASSUME NEW file, NEW u \in URLs, NEW a \in Answers, NEW t, WrittenBy(file, u, a, t)
  PROVE  FileOK(file)
BY PlainIs, AnswerIs DEF WrittenBy, FileOK, Keys

LEMMA PrefixOK ==
  ASSUME NEW file, FileOK(file), NEW n \in 0 .. Len(file)
  PROVE  FileOK(Prefix(file, n))
<1>1. /\ Prefix(file, n) \in Seq(Stored) /\ Len(Prefix(file, n)) = n
      /\ \A i \in 1 .. n : Prefix(file, n)[i] = file[i]
  BY PrefixIs DEF FileOK
<1> DEFINE g == Prefix(file, n)
<1> HIDE DEF g
<1>2. g \in Seq(Stored) /\ Len(g) = n /\ \A i \in 1 .. n : g[i] = file[i]
  BY <1>1 DEF g
<1>3. FileOK(g)
  BY <1>2 DEF FileOK
<1> QED BY <1>3 DEF g

LEMMA ThreeIs ==
  ASSUME NEW S, NEW x \in S, NEW y \in S, NEW z \in S, NEW s, s = <<x, y, z>>
  PROVE  s \in Seq(S) /\ Len(s) = 3 /\ s[1] = x /\ s[2] = y /\ s[3] = z
<1>1. s \in [1 .. 3 -> S]
  OBVIOUS
<1> QED BY <1>1, SeqDef

LEMMA PlaceholderIs ==
  ASSUME NEW t \in Nat, NEW file, file = PlaceholderFile(t)
  PROVE  /\ FileOK(file) /\ Len(file) = 3
         /\ file[1] = PlaceholderStatus /\ file[2] = ExpiresLine(t + BumpTTL)
         /\ file[3] = Blank
<1>1. PlaceholderStatus \in Stored /\ PlaceholderStatus.key = "status"
  BY PlainIs DEF PlaceholderStatus, Keys
<1>2. Blank \in Stored
  BY PlainIs DEF Blank, Keys
<1>3. ExpiresLine(t + BumpTTL) \in Stored
  BY ExpiresLineIs, TimesAssumption
<1>4. /\ file \in Seq(Stored) /\ Len(file) = 3
      /\ file[1] = PlaceholderStatus /\ file[2] = ExpiresLine(t + BumpTTL)
      /\ file[3] = Blank
  BY <1>1, <1>2, <1>3, ThreeIs DEF PlaceholderFile
<1> QED BY <1>1, <1>4 DEF FileOK

LEMMA DeadlineIs ==
  ASSUME NEW file \in Seq(Stored)
  PROVE  /\ Deadline(file) \in 0 .. Len(file)
         /\ Deadline(file) = 0 => \A i \in 1 .. Len(file) : file[i].key \notin {"expires", "blank"}
         /\ Deadline(file) # 0 =>
               /\ file[Deadline(file)].key \in {"expires", "blank"}
               /\ \A i \in 1 .. Deadline(file) - 1 : file[i].key \notin {"expires", "blank"}
<1> DEFINE keys == {"expires", "blank"}
<1> HIDE DEF keys
<1>1. PICK k : k = Position(keys, file)
  OBVIOUS
<1>2. /\ k \in 0 .. Len(file)
      /\ k = 0 => \A i \in 1 .. Len(file) : file[i].key \notin keys
      /\ k # 0 => file[k].key \in keys /\ \A i \in 1 .. k - 1 : file[i].key \notin keys
  BY <1>1, PositionIs
<1>3. k = Deadline(file)
  BY <1>1 DEF Deadline, keys
<1> QED BY <1>2, <1>3 DEF keys

LEMMA DeadlineAt ==
  ASSUME NEW file \in Seq(Stored), NEW k \in 1 .. Len(file),
         file[k].key = "expires",
         \A i \in 1 .. k - 1 : file[i].key \notin {"expires", "blank"}
  PROVE  Deadline(file) = k /\ HasDeadline(file)
<1>1. Deadline(file) = k
  BY PositionAt DEF Deadline
<1>2. k # 0
  OBVIOUS
<1> QED BY <1>1, <1>2 DEF HasDeadline

\* One line, which is not the first, was replaced.
Replaced(file, k, e, g) ==
    /\ Len(g) = Len(file) /\ k \in 2 .. Len(file)
    /\ \A i \in 1 .. Len(file) : g[i] = IF i = k THEN e ELSE file[i]

\* Bump replaces the line of the deadline, or leaves a placeholder.
LEMMA BumpedIs ==
  ASSUME NEW file, FileOK(file), NEW t \in Nat, NEW g, g = Bumped(file, t)
  PROVE  /\ FileOK(g)
         /\ HasDeadline(file) => Replaced(file, Deadline(file), ExpiresLine(t + BumpTTL), g)
         /\ ~HasDeadline(file) => g = PlaceholderFile(t)
<1>1. CASE ~HasDeadline(file)
  <2>1. g = PlaceholderFile(t)
    BY <1>1 DEF Bumped
  <2> QED BY <1>1, <2>1, PlaceholderIs
<1>2. CASE HasDeadline(file)
  <2> DEFINE k == Deadline(file)
             e == ExpiresLine(t + BumpTTL)
  <2>1. g = [file EXCEPT ![k] = e]
    BY <1>2 DEF Bumped
  <2>2. e \in Stored
    BY ExpiresLineIs, TimesAssumption
  <2>3. file \in Seq(Stored) /\ Len(file) \in Nat /\ k \in 1 .. Len(file) /\ file[k].key = "expires"
    BY <1>2, DeadlineIs DEF HasDeadline, FileOK
  <2>4. k # 1
    BY <2>3 DEF FileOK
  <2> HIDE DEF k, e
  <2>5. /\ g \in Seq(Stored) /\ Len(g) = Len(file)
        /\ \A i \in 1 .. Len(file) : g[i] = IF i = k THEN e ELSE file[i]
    BY <2>1, <2>2, <2>3, ExceptSeq
  <2>6. FileOK(g)
    BY <2>3, <2>4, <2>5 DEF FileOK
  <2>7. k \in 2 .. Len(file)
    BY <2>3, <2>4
  <2>8. Replaced(file, k, e, g)
    BY <2>5, <2>7 DEF Replaced
  <2> QED BY <1>2, <2>6, <2>8 DEF k, e
<1> QED BY <1>1, <1>2

\* The file is not said to expire before the time t.
LastsUntil(file, t) == HasDeadline(file) => file[Deadline(file)].num >= t

LEMMA PlaceholderLasts ==
  ASSUME NEW t \in Nat, t + BumpTTL < Half, NEW n \in 0 .. 3
  PROVE  LastsUntil(Prefix(PlaceholderFile(t), n), t + BumpTTL)
<1>1. PICK file : file = PlaceholderFile(t)
  OBVIOUS
<1>2. /\ file \in Seq(Stored) /\ Len(file) = 3
      /\ file[1].key = "status" /\ file[2] = ExpiresLine(t + BumpTTL) /\ file[3] = Blank
  BY <1>1, PlaceholderIs DEF FileOK
<1>3. PICK g : g = Prefix(file, n) /\ n \in 0 .. Len(file)
  BY <1>2
<1>4. g \in Seq(Stored) /\ Len(g) = n /\ \A i \in 1 .. n : g[i] = file[i]
  BY <1>2, <1>3, PrefixIs
<1>5. file[2].key = "expires" /\ file[2].num = t + BumpTTL
  <2>1. t + BumpTTL \in Nat
    BY TimesAssumption
  <2> DEFINE d == t + BumpTTL
  <2> HIDE DEF d
  <2>2. ExpiresLine(d).key = "expires" /\ ExpiresLine(d).num = d
    BY <2>1, ExpiresLineIs, WrapIs DEF d
  <2> QED BY <1>2, <2>2 DEF d
<1>6. ASSUME HasDeadline(g) PROVE g[Deadline(g)].num >= t + BumpTTL
  <2> DEFINE k == Deadline(g)
  <2>1. k \in 1 .. n /\ g[k].key = "expires" /\ \A i \in 1 .. k - 1 : g[i].key # "expires"
    BY <1>4, <1>6, DeadlineIs DEF HasDeadline
  <2> HIDE DEF k
  <2>2. k = 2
    BY <1>2, <1>4, <1>5, <2>1 DEF Blank, Plain, Line
  <2> QED BY <1>4, <1>5, <2>1, <2>2, TimesAssumption DEF k
<1> QED BY <1>1, <1>3, <1>6 DEF LastsUntil

\* A bumped file lasts for the TTL of Bump.
LEMMA BumpedLasts ==
  ASSUME NEW file, FileOK(file), NEW t \in Nat, t + BumpTTL < Half
  PROVE  LastsUntil(Bumped(file, t), t + BumpTTL)
<1>1. PICK g : g = Bumped(file, t)
  OBVIOUS
<1>2. CASE ~HasDeadline(file)
  <2>1. g = PlaceholderFile(t)
    BY <1>1, <1>2, BumpedIs
  <2>2. PICK h : h = Prefix(g, Len(g))
    OBVIOUS
  <2>3. g \in Seq(Stored) /\ Len(g) = 3 /\ Len(g) \in 0 .. Len(g)
    BY <2>1, PlaceholderIs DEF FileOK
  <2>4. h \in Seq(Stored) /\ Len(h) = Len(g) /\ \A i \in 1 .. Len(g) : h[i] = g[i]
    BY <2>2, <2>3, PrefixIs
  <2>5. h = g
    BY <2>3, <2>4, SeqEqual
  <2> QED BY <1>1, <2>1, <2>2, <2>3, <2>5, PlaceholderLasts
<1>3. CASE HasDeadline(file)
  <2> DEFINE k == Deadline(file)
  <2>1. /\ g \in Seq(Stored) /\ Len(g) = Len(file) /\ k \in 2 .. Len(file)
        /\ \A i \in 1 .. Len(file) :
              g[i] = IF i = k THEN ExpiresLine(t + BumpTTL) ELSE file[i]
    BY <1>1, <1>3, BumpedIs DEF FileOK, Replaced
  <2>2. /\ file \in Seq(Stored) /\ Len(file) \in Nat
        /\ \A i \in 1 .. k - 1 : file[i].key \notin {"expires", "blank"}
    BY <1>3, DeadlineIs DEF HasDeadline, FileOK
  <2> HIDE DEF k
  <2>3. g[k].key = "expires" /\ g[k].num = t + BumpTTL
    BY <2>1, ExpiresLineIs, WrapIs, TimesAssumption
  <2>4. \A i \in 1 .. k - 1 : g[i].key \notin {"expires", "blank"}
    BY <2>1, <2>2
  <2>5. Deadline(g) = k
    BY <2>1, <2>2, <2>3, <2>4, DeadlineAt
  <2>6. g[Deadline(g)].num >= t + BumpTTL
    BY <2>3, <2>5, TimesAssumption
  <2> QED BY <1>1, <2>6 DEF LastsUntil
<1> QED BY <1>2, <1>3

----------------------------------------------------------------------------
(* What the server reads of a file.                                        *)

LEMMA TheIs ==
  ASSUME NEW S, NEW lines \in Seq(S), NEW key, NEW k, k = Position({key}, lines),
         NEW x, x = The(key, lines)
  PROVE  /\ x \in Seq(S)
         /\ k = 0 => x = <<>>
         /\ k # 0 => x # <<>> /\ Len(x) = 1 /\ x[1] = lines[k]
<1>1. k = 0 => x = <<>>
  BY DEF The
<1>2. ASSUME k # 0 PROVE x \in Seq(S) /\ Len(x) = 1 /\ x[1] = lines[k]
  <2> DEFINE e == lines[k]
  <2>1. x = <<e>>
    BY <1>2 DEF The
  <2>2. k \in 1 .. Len(lines)
    BY <1>2, PositionIs
  <2>3. e \in S
    BY <2>2, ElementOfSeq
  <2> HIDE DEF e
  <2>4. x \in Seq(S) /\ Len(x) = 1 /\ x[1] = e
    BY <2>1, <2>3, OneIsSeq
  <2> QED BY <2>4 DEF e
<1>3. k = 0 => x \in Seq(S)
  BY <1>1, EmptySeq
<1>4. ASSUME k # 0 PROVE x # <<>>
  <2>1. Len(x) = 1
    BY <1>2, <1>4
  <2>2. ASSUME x = <<>> PROVE FALSE
    <3>1. Len(x) = 0
      BY <2>2
    <3> QED BY <2>1, <3>1
  <2> QED BY <2>2
<1> QED BY <1>1, <1>2, <1>3, <1>4

\* Where the reading of a header stops, and the lines read until then.
Stop(file, c) == Position(IF c THEN {"blank"} ELSE {"blank", "crossRef"}, file)

HeaderOf(file, c) == Prefix(file, IF Stop(file, c) = 0 THEN Len(file) ELSE Stop(file, c) - 1)

LEMMA StopIs ==
  ASSUME NEW file \in Seq(Stored), NEW c \in BOOLEAN, NEW k, k = Stop(file, c)
  PROVE  /\ k \in 0 .. Len(file)
         /\ k = 0 => \A i \in 1 .. Len(file) : file[i].key # "blank"
         /\ k # 0 => \A i \in 1 .. k - 1 : file[i].key # "blank"
         /\ k # 0 => file[k].key = "blank" \/ (~c /\ file[k].key = "crossRef")
<1> DEFINE keys == IF c THEN {"blank"} ELSE {"blank", "crossRef"}
<1>1. "blank" \in keys /\ \A key \in keys : key = "blank" \/ (~c /\ key = "crossRef")
  OBVIOUS
<1>2. k = Position(keys, file)
  BY DEF Stop
<1> HIDE DEF keys
<1>3. /\ k \in 0 .. Len(file)
      /\ k = 0 => \A i \in 1 .. Len(file) : file[i].key \notin keys
      /\ k # 0 => file[k].key \in keys /\ \A i \in 1 .. k - 1 : file[i].key \notin keys
  BY <1>2, PositionIs
<1> QED BY <1>1, <1>3

LEMMA HeaderIs ==
  ASSUME NEW file \in Seq(Stored), NEW c \in BOOLEAN, NEW header, header = HeaderOf(file, c)
  PROVE  /\ header \in Seq(Stored)
         /\ Len(header) = IF Stop(file, c) = 0 THEN Len(file) ELSE Stop(file, c) - 1
         /\ Len(header) \in 0 .. Len(file)
         /\ \A i \in 1 .. Len(header) : header[i] = file[i] /\ file[i].key # "blank"
<1> DEFINE k == Stop(file, c)
           n == IF k = 0 THEN Len(file) ELSE k - 1
<1>1. /\ k \in 0 .. Len(file)
      /\ k = 0 => \A i \in 1 .. Len(file) : file[i].key # "blank"
      /\ k # 0 => \A i \in 1 .. k - 1 : file[i].key # "blank"
  BY StopIs
<1>2. header = Prefix(file, n)
  BY DEF HeaderOf
<1> HIDE DEF k
<1>3. n \in 0 .. Len(file)
  BY <1>1
<1> HIDE DEF n
<1>4. header \in Seq(Stored) /\ Len(header) = n /\ \A i \in 1 .. n : header[i] = file[i]
  BY <1>2, <1>3, PrefixIs
<1>5. \A i \in 1 .. n : file[i].key # "blank"
  BY <1>1 DEF n
<1> QED BY <1>3, <1>4, <1>5 DEF n, k

ScanErrors == {"none", "noStatusCode", "brokenHeader", "crossHostRef"}

\* The error, and what the server has of the body.
LEMMA ScanStops ==
  ASSUME NEW file, FileOK(file), NEW c \in BOOLEAN, NEW i, i = Scan(file, c),
         NEW k, k = Stop(file, c)
  PROVE  /\ i.error \in ScanErrors
         /\ i.error = "noStatusCode" => Len(file) = 0
         /\ i.error = "brokenHeader" => k = 0
         /\ i.error = "crossHostRef" => ~c
         /\ i.error = "none" => k # 0 /\ file[k].key = "blank" /\ i.body = Rest(file, k)
         /\ i.error # "none" => i.body = <<>>
         /\ i.status \in Nat
         /\ IF i.error = "none" THEN i.status = file[1].num ELSE i.status \in ErrorStatuses
<1>1. /\ k \in 0 .. Len(file)
      /\ k # 0 => file[k].key = "blank" \/ (~c /\ file[k].key = "crossRef")
  BY StopIs DEF FileOK
<1>2. file \in Seq(Stored) /\ (file = <<>> <=> Len(file) = 0) /\ Len(file) \in Nat
  BY DEF FileOK
<1> DEFINE error == CASE file = <<>> -> "noStatusCode"
                      [] file # <<>> /\ k = 0 -> "brokenHeader"
                      [] k # 0 /\ file[k].key = "crossRef" -> "crossHostRef"
                      [] OTHER -> "none"
<1>3. /\ i.error = error
      /\ i.body = IF error = "none" THEN Rest(file, k) ELSE <<>>
      /\ i.status = CASE error = "noStatusCode" -> 501
                      [] error = "brokenHeader" -> 500
                      [] error = "crossHostRef" -> 205
                      [] OTHER -> file[1].num
  BY DEF Scan, Stop, Rest
<1>4. /\ error \in ScanErrors
      /\ error = "noStatusCode" => Len(file) = 0
      /\ error = "brokenHeader" => k = 0
      /\ error = "crossHostRef" => ~c
      /\ error = "none" => k # 0 /\ file[k].key = "blank"
  BY <1>1, <1>2 DEF ScanErrors
<1>5. error = "none" => file[1].num \in Nat
  <2>1. SUFFICES ASSUME k # 0 PROVE file[1].num \in Nat
    BY <1>4
  <2>2. file[1] \in Stored /\ file[1].key = "status"
    BY <1>1, <1>2, <2>1 DEF FileOK
  <2> QED BY <2>2 DEF Stored
<1> HIDE DEF error
<1>6. error \in {"none", "noStatusCode", "brokenHeader", "crossHostRef"}
  BY <1>4 DEF ScanErrors
<1>7. i.status \in Nat
  BY <1>3, <1>5, <1>6
<1>8. IF error = "none" THEN i.status = file[1].num ELSE i.status \in ErrorStatuses
  BY <1>3, <1>6 DEF ErrorStatuses
<1> QED BY <1>3, <1>4, <1>7, <1>8

\* What the server notes of the header.
LEMMA ScanNotes ==
  ASSUME NEW file, FileOK(file), NEW c \in BOOLEAN, NEW i, i = Scan(file, c)
  PROVE  /\ i.headers \in Seq(Stored)
         /\ i.headers = The("meta", HeaderOf(file, c))
         /\ i.expires \in Seq(Stored)
         /\ i.expires # <<>> => HasDeadline(file) /\ i.expires[1] = file[Deadline(file)]
         /\ i.length \in Nat
         /\ i.length # 0 => \E j \in 1 .. Len(HeaderOf(file, c)) :
               file[j].key = "length" /\ file[j].num = i.length
         /\ \/ \E j \in 1 .. Len(HeaderOf(file, c)) :
                  file[j].key = "length" /\ file[j].num = i.length
            \/ /\ i.length = 0
               /\ \A j \in 1 .. Len(HeaderOf(file, c)) : file[j].key # "length"
<1> DEFINE header == HeaderOf(file, c)
           k == Position({"length"}, header)
<1>1. /\ i.headers = The("meta", header) /\ i.expires = The("expires", header)
      /\ i.length = IF k = 0 THEN 0 ELSE header[k].num
  BY DEF Scan, HeaderOf, Prefix, Stop
<1>2. /\ file \in Seq(Stored) /\ header \in Seq(Stored) /\ Len(header) \in 0 .. Len(file)
      /\ \A n \in 1 .. Len(header) : header[n] = file[n] /\ file[n].key # "blank"
  BY HeaderIs DEF FileOK
<1> HIDE DEF header
<1>3. i.headers \in Seq(Stored)
  <2>1. PICK m : m = Position({"meta"}, header)
    OBVIOUS
  <2> QED BY <1>1, <1>2, <2>1, TheIs
<1>4. PICK m : m = Position({"expires"}, header)
  OBVIOUS
<1>5. /\ i.expires \in Seq(Stored)
      /\ i.expires # <<>> => m # 0 /\ i.expires[1] = header[m]
  BY <1>1, <1>2, <1>4, TheIs
<1>6. ASSUME i.expires # <<>>
      PROVE  HasDeadline(file) /\ i.expires[1] = file[Deadline(file)]
  <2>1. m \in 1 .. Len(header) /\ header[m].key \in {"expires"}
        /\ \A n \in 1 .. m - 1 : header[n].key \notin {"expires"}
    BY <1>2, <1>4, <1>5, <1>6, PositionIs
  <2>2. Len(file) \in Nat /\ m \in 1 .. Len(file) /\ file[m].key = "expires"
    BY <1>2, <2>1
  <2>3. \A n \in 1 .. m - 1 : file[n].key \notin {"expires", "blank"}
    BY <1>2, <2>1
  <2>4. Deadline(file) = m /\ HasDeadline(file)
    BY <1>2, <2>2, <2>3, DeadlineAt
  <2> QED BY <1>2, <1>5, <1>6, <2>1, <2>4
<1>7. /\ k # 0 => k \in 1 .. Len(header) /\ header[k].key \in {"length"}
      /\ k = 0 => \A j \in 1 .. Len(header) : header[j].key \notin {"length"}
  BY <1>2, PositionIs
<1> HIDE DEF k
<1>8. k # 0 => k \in 1 .. Len(header) /\ file[k].key = "length" /\ file[k].num = header[k].num
  BY <1>2, <1>7
<1>9. k # 0 => header[k] \in Stored
  BY <1>2, <1>7
<1>10. i.length \in Nat
  BY <1>1, <1>7, <1>9 DEF Stored
<1>11. i.length # 0 => \E j \in 1 .. Len(header) : file[j].key = "length" /\ file[j].num = i.length
  BY <1>1, <1>8
<1>12. \/ \E j \in 1 .. Len(header) : file[j].key = "length" /\ file[j].num = i.length
       \/ i.length = 0 /\ \A j \in 1 .. Len(header) : file[j].key # "length"
  BY <1>1, <1>2, <1>7, <1>8
<1> QED BY <1>1, <1>3, <1>5, <1>6, <1>10, <1>11, <1>12 DEF header

----------------------------------------------------------------------------
(* The types of the state of Serving, and what has been read of a file.    *)

StoredInfos == [error : ScanErrors \cup {"cacheNotFound", "copyBody"}, status : Nat,
                headers : Seq(Stored), length : Nat, expires : Seq(Stored),
                body : Seq(Stored)]

Clients == [sent : BOOLEAN, status : Nat, headers : Seq(Stored), length : Nat,
            body : Seq(Stored)]

Queued == [url : URLs, force : BOOLEAN, at : 1 .. MaxTime]

Visits == [phase : {"none", "copy", "issue", "expiry", "download", "done"}, root : Roots,
           want : URLs \cup DOMAIN Replies \cup {"none"}, mixed : BOOLEAN]

ClockOK == now \in 1 .. MaxTime

FilesOK ==
    /\ DOMAIN files \subseteq CachePaths
    /\ \A p \in DOMAIN files : FileOK(files[p])

Refreshes == [step : {"idle", "bump", "enqueue"}, url : URLs \cup {"none"}, since : 0 .. MaxTime]

QueueOK == queue \in Seq(Queued) /\ \A i \in 1 .. Len(queue) : queue[i].at <= now

VisitOK ==
    /\ visit \in Visits
    /\ visit.phase \notin {"none", "done"} => visit.want \in URLs
    /\ (info.error # "none") = (visit.phase \in {"issue", "download"})

InfoOK == info \in StoredInfos

ClientOK == client \in Clients

\* Files do not go away.
ReadOK == visit.phase \in {"copy", "expiry"} => CachePath(visit.want) \in DOMAIN files

\* Who has an expired page refreshed has found its file, and bumped it at some time.
RefreshOK ==
    /\ refresh \in [Refreshers -> Refreshes]
    /\ \A g \in Refreshers : refresh[g].step # "idle" =>
          refresh[g].url \in URLs /\ CachePath(refresh[g].url) \in DOMAIN files
    /\ \A g \in Refreshers : refresh[g].step = "enqueue" => refresh[g].since \in 1 .. now

ServingOK ==
    ClockOK /\ FilesOK /\ QueueOK /\ VisitOK /\ InfoOK /\ ClientOK /\ ReadOK /\ RefreshOK

\* The refreshes are what they were, while files come and time goes on.
LEMMA RefreshKept ==
  ASSUME ClockOK, RefreshOK, refresh' = refresh, DOMAIN files \subseteq DOMAIN files',
         now' = now \/ now' = now + 1
  PROVE  RefreshOK'
<1>1. ASSUME NEW g \in Refreshers, refresh'[g].step = "enqueue"
      PROVE  refresh'[g].since \in 1 .. now'
  <2>1. refresh[g].since \in 1 .. now
    BY <1>1 DEF RefreshOK
  <2>2. now \in Int
    BY ServingAssumption DEF ClockOK
  <2> QED BY <2>1, <2>2
<1> QED BY <1>1 DEF RefreshOK

Inserts(f, x, y, g) ==
    /\ DOMAIN g = DOMAIN f \cup {x}
    /\ g[x] = y
    /\ \A z \in DOMAIN f : z # x => g[z] = f[z]

LEMMA InsertIs ==
  ASSUME NEW f, NEW x, NEW y
  PROVE  Inserts(f, x, y, Insert(f, x, y))
BY DEF Insert, Inserts

LEMMA FilesInsert ==
  ASSUME FilesOK, NEW u \in URLs, NEW file, FileOK(file),
         files' = Insert(files, CachePath(u), file)
  PROVE  FilesOK' /\ DOMAIN files \subseteq DOMAIN files'
<1>1. Inserts(files, CachePath(u), file, files')
  BY InsertIs
<1>2. CachePath(u) \in CachePaths
  BY DEF CachePaths
<1>3. ASSUME NEW p \in DOMAIN files' PROVE FileOK(files'[p])
  BY <1>1 DEF FilesOK, Inserts
<1>4. DOMAIN files' \subseteq CachePaths
  BY <1>1, <1>2 DEF FilesOK, Inserts
<1> QED BY <1>1, <1>3, <1>4 DEF FilesOK, Inserts

LEMMA PrefixAll ==
  ASSUME NEW file \in Seq(Stored)
  PROVE  Prefix(file, Len(file)) = file
<1>1. PICK g : g = Prefix(file, Len(file))
  OBVIOUS
<1>2. Len(file) \in 0 .. Len(file)
  OBVIOUS
<1>3. g \in Seq(Stored) /\ Len(g) = Len(file) /\ \A i \in 1 .. Len(file) : g[i] = file[i]
  BY <1>1, <1>2, PrefixIs
<1>4. g = file
  BY <1>3, SeqEqual
<1> QED BY <1>1, <1>4

\* What onDownloaded writes, n lines of a file.
Stores(u, a, file, n) ==
    /\ WrittenBy(file, u, a, now)
    /\ n \in 0 .. Len(file)
    /\ files' = Insert(files, CachePath(u), Prefix(file, n))
    /\ \/ n = Len(file) /\ excused' = excused
       \/ excused' = excused \cup {CachePath(u)}
    /\ good' = CASE IsGood(file) -> good \cup {CachePath(u)}
                 [] Answer[a].status = 204 -> good \ {CachePath(u)}
                 [] OTHER -> good
    /\ fetched' = fetched \cup {CachePath(u)}

\* A download changes one file: it has a prefix of a written response.
LEMMA StoresIs ==
  ASSUME now \in Nat, NEW u \in URLs, NEW a \in Source[u], OnDownloaded(u, a)
  PROVE  \/ Keeps(u, a) /\ UNCHANGED <<files, left, history>>
         \/ ~Keeps(u, a) /\ \E file : \E n \in Nat : Stores(u, a, file, n)
<1>1. a \in Answers
  BY NamesAssumption
<1>2. SUFFICES ASSUME ~(Keeps(u, a) /\ UNCHANGED <<files, left, history>>)
               PROVE  ~Keeps(u, a) /\ \E file : \E n \in Nat : Stores(u, a, file, n)
  OBVIOUS
<1>3. PICK file \in WrittenFiles(u, a, now) :
        /\ Store(u, file)
        /\ good' = CASE IsGood(file) -> good \cup {CachePath(u)}
                     [] Answer[a].status = 204 -> good \ {CachePath(u)}
                     [] OTHER -> good
        /\ fetched' = fetched \cup {CachePath(u)}
  BY <1>2 DEF OnDownloaded
<1>4. WrittenBy(file, u, a, now)
  BY <1>1, WrittenIs
<1>5. file \in Seq(Stored)
  BY <1>4 DEF WrittenBy
<1>6. PICK n \in 0 .. Len(file) :
        /\ files' = Insert(files, CachePath(u), Prefix(file, n))
        /\ \/ n = Len(file) /\ excused' = excused
           \/ excused' = excused \cup {CachePath(u)}
  <2>1. CASE files' = Insert(files, CachePath(u), file) /\ UNCHANGED <<left, excused>>
    <3>1. Prefix(file, Len(file)) = file /\ Len(file) \in 0 .. Len(file)
      BY <1>5, PrefixAll
    <3> QED BY <2>1, <3>1
  <2>2. CASE /\ \E n \in 0 .. Len(file) - 1 :
                   files' = Insert(files, CachePath(u), SubSeq(file, 1, n))
             /\ excused' = excused \cup {CachePath(u)}
    <3>1. PICK n \in 0 .. Len(file) - 1 :
                   files' = Insert(files, CachePath(u), SubSeq(file, 1, n))
      BY <2>2
    <3>2. n \in 0 .. Len(file) /\ files' = Insert(files, CachePath(u), Prefix(file, n))
      BY <1>5, <3>1 DEF Prefix
    <3> QED BY <2>2, <3>2
  <2> QED BY <1>3, <2>1, <2>2 DEF Store
<1>7. n \in Nat /\ Stores(u, a, file, n)
  BY <1>3, <1>4, <1>5, <1>6 DEF Stores
<1> QED BY <1>2, <1>7 DEF OnDownloaded

LEMMA DownloadedFilesOK ==
  ASSUME ClockOK, FilesOK, NEW u \in URLs, NEW a \in Source[u], OnDownloaded(u, a)
  PROVE  FilesOK' /\ DOMAIN files \subseteq DOMAIN files'
<1>1. a \in Answers /\ now \in Nat
  BY NamesAssumption, ServingAssumption DEF ClockOK
<1>2. CASE files' = files
  BY <1>2 DEF FilesOK
<1>3. ASSUME NEW file, NEW n \in Nat, Stores(u, a, file, n)
      PROVE  FilesOK' /\ DOMAIN files \subseteq DOMAIN files'
  <2>1. FileOK(file) /\ n \in 0 .. Len(file)
    BY <1>1, <1>3, WrittenFileOK DEF Stores
  <2>2. FileOK(Prefix(file, n))
    BY <2>1, PrefixOK
  <2> QED BY <1>3, <2>2, FilesInsert DEF Stores
<1> QED BY <1>1, <1>2, <1>3, StoresIs

LEMMA WithHeaderOK ==
  ASSUME NEW c \in Clients, NEW i \in StoredInfos
  PROVE  WithHeader(c, i) \in Clients
BY DEF WithHeader, Clients, StoredInfos

\* What net/http sends keeps its type.
LEMMA WithBodyOK ==
  ASSUME NEW c \in Clients, NEW lines \in Seq(Stored)
  PROVE  WithBody(c, lines) \in Clients
<1> DEFINE all == Joined(c.body, lines)
           body == IF Len(all) <= c.length THEN all ELSE Prefix(all, c.length)
<1>1. c.body \in Seq(Stored) /\ c.length \in Nat
  BY DEF Clients
<1>2. all \in Seq(Stored)
  <2>1. Joins(Stored, c.body, lines, all)
    BY <1>1, JoinedIs
  <2> QED BY <2>1 DEF Joins
<1>3. WithBody(c, lines) = [c EXCEPT !.body = body]
  BY DEF WithBody, Joined, Prefix
<1> HIDE DEF all
<1>4. body \in Seq(Stored)
  <2>1. CASE Len(all) <= c.length
    BY <1>2, <2>1
  <2>2. CASE ~(Len(all) <= c.length)
    <3>1. c.length \in 0 .. Len(all)
      BY <1>1, <1>2, <2>2
    <3>2. Prefix(all, c.length) \in Seq(Stored)
      BY <1>2, <3>1, PrefixIs
    <3> QED BY <2>2, <3>2
  <2> QED BY <2>1, <2>2
<1> HIDE DEF body
<1> QED BY <1>3, <1>4 DEF Clients

LEMMA WrittenOK ==
  ASSUME NEW c \in Clients, NEW i \in StoredInfos, NEW lines \in Seq(Stored)
  PROVE  Written(c, i, lines) \in Clients
<1>1. [i EXCEPT !.length = Len(lines)] \in StoredInfos
  <2> DEFINE n == Len(lines)
  <2>1. n \in Nat
    OBVIOUS
  <2> HIDE DEF n
  <2>2. [i EXCEPT !.length = n] \in StoredInfos
    BY <2>1 DEF StoredInfos
  <2> QED BY <2>2 DEF n
<1>2. WithHeader(c, [i EXCEPT !.length = Len(lines)]) \in Clients
  BY <1>1, WithHeaderOK
<1> DEFINE h == WithHeader(c, [i EXCEPT !.length = Len(lines)])
<1>3. Written(c, i, lines) = WithBody(h, lines) \/ Written(c, i, lines) = h
  BY DEF Written
<1> HIDE DEF h
<1>4. h \in Clients
  BY <1>2 DEF h
<1> QED BY <1>3, <1>4, WithBodyOK

LEMMA NothingOK ==
  NewInfo \in StoredInfos /\ NothingSent \in Clients /\ NewInfo.error = "none"
    /\ NewInfo.expires = <<>>
<1>1. <<>> \in Seq(Stored)
  OBVIOUS
<1> QED BY <1>1 DEF NewInfo, NothingSent, StoredInfos, Clients, ScanErrors

----------------------------------------------------------------------------
(* Each step of the server keeps the types.                                *)

LEMMA RepliesOK ==
  ASSUME NEW what \in DOMAIN Replies
  PROVE  /\ Replies[what] \in StoredInfos
         /\ Text(what) \in Seq(Stored)
<1>1. Replies[what] \in StoredInfos
  <2>1. /\ Replies["invalid"] = [NewInfo EXCEPT !.status = 400]
        /\ Replies["bareHost"] = [NewInfo EXCEPT !.status = 301]
        /\ Replies["post"] = [NewInfo EXCEPT !.status = 405]
        /\ Replies["robots"] = [NewInfo EXCEPT !.status = 200]
    BY DEF Replies
  <2>2. what \in {"invalid", "bareHost", "post", "robots"}
    BY DEF Replies
  <2>3. ASSUME NEW n \in Nat PROVE [NewInfo EXCEPT !.status = n] \in StoredInfos
    BY NothingOK DEF StoredInfos
  <2> QED BY <2>1, <2>2, <2>3
<1>2. Text(what) \in Seq(Stored)
  <2> DEFINE e == Line("body", 1, <<what>>)
  <2>1. e \in Stored
    BY DEF Line, Stored, Lines, Keys
  <2> HIDE DEF e
  <2>2. <<e>> \in Seq(Stored)
    BY <2>1, OneIsSeq
  <2> QED BY <2>2 DEF Text, e
<1> QED BY <1>1, <1>2

LEMMA ReplyOK ==
  ASSUME ServingOK, NEW root \in Roots, NEW what \in DOMAIN Replies, Reply(root, what)
  PROVE  ServingOK'
<1>1. ClockOK' /\ FilesOK' /\ QueueOK' /\ RefreshOK'
  BY DEF Reply, Arrive, ServingOK, ClockOK, FilesOK, QueueOK, RefreshOK
<1>2. visit' = [NoVisit EXCEPT !.phase = "done", !.root = root, !.want = what] /\ info' = NewInfo
  BY DEF Reply
<1>3. VisitOK' /\ ReadOK'
  <2>1. visit' = [phase |-> "done", root |-> root, want |-> what, mixed |-> FALSE]
    BY <1>2 DEF NoVisit
  <2>2. visit' \in Visits /\ visit'.phase = "done"
    BY <2>1 DEF Visits
  <2>3. info'.error = "none"
    BY <1>2, NothingOK
  <2> QED BY <2>2, <2>3 DEF VisitOK, ReadOK
<1>4. InfoOK'
  BY <1>2, NothingOK DEF InfoOK
<1>5. ClientOK'
  <2>1. /\ Written(NothingSent, Replies[what], Text(what)) \in Clients
        /\ WithHeader(NothingSent, Replies[what]) \in Clients
    BY RepliesOK, NothingOK, WrittenOK, WithHeaderOK
  <2> QED BY <2>1 DEF Reply, ClientOK
<1> QED BY <1>1, <1>3, <1>4, <1>5 DEF ServingOK

\* What a visit notes of the file it opens agrees with the file.
LEMMA OpenedIs ==
  ASSUME FilesOK, NEW root \in Roots, NEW u \in URLs, NEW i, i = Opened(root, u)
  PROVE  /\ i \in StoredInfos
         /\ CachePath(u) \in DOMAIN files => i = Scan(files[CachePath(u)], root = AllHosts)
         /\ CachePath(u) \notin DOMAIN files => i.error = "cacheNotFound"
<1>1. CASE CachePath(u) \in DOMAIN files
  <2> DEFINE file == files[CachePath(u)]
             c == (root = AllHosts)
  <2>1. i = Scan(file, c)
    BY <1>1 DEF Opened
  <2>2. FileOK(file) /\ c \in BOOLEAN
    BY <1>1 DEF FilesOK
  <2> HIDE DEF file, c
  <2>3. i.headers \in Seq(Stored) /\ i.expires \in Seq(Stored) /\ i.length \in Nat
    BY <2>1, <2>2, ScanNotes
  <2>4. PICK k : k = Stop(file, c)
    OBVIOUS
  <2>5. /\ i.error \in ScanErrors /\ i.status \in Nat
        /\ i.error = "none" => k # 0 /\ i.body = Rest(file, k)
        /\ i.error # "none" => i.body = <<>>
    BY <2>1, <2>2, <2>4, ScanStops
  <2>6. i.body \in Seq(Stored)
    <3>1. k \in 0 .. Len(file) /\ file \in Seq(Stored)
      BY <2>2, <2>4, StopIs DEF FileOK
    <3>2. Rest(file, k) \in Seq(Stored)
      BY <3>1, RestIs
    <3>3. <<>> \in Seq(Stored)
      OBVIOUS
    <3>4. CASE i.error = "none"
      BY <2>5, <3>2, <3>4
    <3>5. CASE i.error # "none"
      BY <2>5, <3>3, <3>5
    <3> QED BY <3>4, <3>5
  <2>7. i = [error |-> i.error, status |-> i.status, headers |-> i.headers,
             length |-> i.length, expires |-> i.expires, body |-> i.body]
    BY <2>1 DEF Scan
  <2>8. i \in StoredInfos
    BY <2>3, <2>5, <2>6, <2>7 DEF StoredInfos
  <2> QED BY <1>1, <2>1, <2>8 DEF file, c
<1>2. CASE CachePath(u) \notin DOMAIN files
  <2>1. i = [NewInfo EXCEPT !.error = "cacheNotFound", !.status = 404]
    BY <1>2 DEF Opened
  <2>2. NewInfo \in StoredInfos
    BY NothingOK
  <2> DEFINE x == NewInfo
             e == "cacheNotFound"
             n == 404
  <2>3. i = [x EXCEPT !.error = e, !.status = n]
    BY <2>1
  <2>4. x \in StoredInfos /\ e \in {"cacheNotFound"} /\ n \in Nat
    BY <2>2
  <2> HIDE DEF x, e, n
  <2>5. i \in StoredInfos /\ i.error = e
    BY <2>3, <2>4 DEF StoredInfos
  <2> QED BY <1>2, <2>5 DEF e
<1> QED BY <1>1, <1>2

LEMMA VisitStepOK ==
  ASSUME ServingOK, NEW root \in Roots, NEW u \in URLs, Visit(root, u)
  PROVE  ServingOK'
<1>1. ClockOK' /\ FilesOK' /\ QueueOK' /\ RefreshOK'
  BY DEF Visit, Arrive, ServingOK, ClockOK, FilesOK, QueueOK, RefreshOK
<1>2. /\ info' = Opened(root, u)
      /\ visit' = [phase |-> IF info'.error = "none" THEN "copy" ELSE "issue",
                   root |-> root, want |-> u,
                   mixed |-> info'.error # "none" /\ info'.headers # <<>>]
      /\ client' = NothingSent /\ files' = files
  BY DEF Visit, Arrive
<1>3. PICK i : i = info'
  OBVIOUS
<1>4. /\ i \in StoredInfos
      /\ CachePath(u) \in DOMAIN files => i = Scan(files[CachePath(u)], root = AllHosts)
      /\ CachePath(u) \notin DOMAIN files => i.error = "cacheNotFound"
  BY <1>2, <1>3, OpenedIs DEF ServingOK
<1>5. InfoOK' /\ ClientOK'
  BY <1>2, <1>3, <1>4, NothingOK DEF InfoOK, ClientOK
<1>6. VisitOK'
  <2> DEFINE phase == IF i.error = "none" THEN "copy" ELSE "issue"
             mixed == i.error # "none" /\ i.headers # <<>>
  <2>1. visit' = [phase |-> phase, root |-> root, want |-> u, mixed |-> mixed]
    BY <1>2, <1>3
  <2>2. /\ phase \in {"copy", "issue"} /\ mixed \in BOOLEAN
        /\ (i.error # "none") = (phase \in {"issue", "download"})
    OBVIOUS
  <2> HIDE DEF phase, mixed
  <2> QED BY <1>3, <2>1, <2>2 DEF VisitOK, Visits
<1>7. ReadOK'
  <2>1. SUFFICES ASSUME visit'.phase \in {"copy", "expiry"}
                 PROVE  CachePath(visit'.want) \in DOMAIN files'
    BY DEF ReadOK
  <2>2. i.error = "none" /\ visit'.want = u
    BY <1>2, <1>3, <2>1
  <2>3. CachePath(u) \in DOMAIN files
    BY <1>4, <2>2
  <2> QED BY <1>2, <2>2, <2>3
<1> QED BY <1>1, <1>5, <1>6, <1>7 DEF ServingOK

LEMMA CopyBodyOK ==
  ASSUME ServingOK, CopyBody
  PROVE  ServingOK'
<1> DEFINE p == CachePath(visit.want)
<1>1. /\ UNCHANGED <<now, listeners, files, queue, refresh, good, fetched>>
      /\ visit.phase = "copy" /\ info.error = "none" /\ info \in StoredInfos
  BY DEF CopyBody, ServingOK, VisitOK, InfoOK
<1>2. ClockOK' /\ FilesOK' /\ QueueOK' /\ RefreshOK'
  BY <1>1 DEF ServingOK, ClockOK, FilesOK, QueueOK, RefreshOK
<1>3. PICK fails \in BOOLEAN, mixed \in BOOLEAN :
        /\ visit' = [visit EXCEPT !.phase = IF fails THEN "issue" ELSE "expiry",
                                  !.mixed = mixed]
        /\ info' = [info EXCEPT !.error = IF fails THEN "copyBody" ELSE "none"]
  <2> DEFINE copied == IF info.length = 0 THEN client
                       ELSE WithBody(WithHeader(client, info), info.body)
             short == (Len(copied.body) < info.length)
  <2>1. \/ /\ visit' = [visit EXCEPT !.phase = IF short THEN "issue" ELSE "expiry",
                                     !.mixed = short]
           /\ info' = [info EXCEPT !.error = IF short THEN "copyBody" ELSE "none"]
        \/ /\ visit' = [visit EXCEPT !.phase = "issue", !.mixed = TRUE]
           /\ info' = [info EXCEPT !.error = "copyBody"]
    BY DEF CopyBody
  <2>2. short \in BOOLEAN
    OBVIOUS
  <2> HIDE DEF short
  <2> QED BY <2>1, <2>2
<1>4. /\ info'.error = IF fails THEN "copyBody" ELSE "none"
      /\ InfoOK'
  BY <1>1, <1>3 DEF StoredInfos, ScanErrors, InfoOK
<1>5. /\ VisitOK' /\ visit'.want = visit.want
      /\ visit'.phase = IF fails THEN "issue" ELSE "expiry"
  <2> DEFINE phase == IF fails THEN "issue" ELSE "expiry"
  <2>1. phase \in {"issue", "expiry"} /\ (phase = "issue") = fails
    OBVIOUS
  <2>2. visit' = [visit EXCEPT !.phase = phase, !.mixed = mixed]
    BY <1>3
  <2> HIDE DEF phase
  <2>3. visit' \in Visits /\ visit'.want = visit.want /\ visit'.phase = phase
    BY <2>1, <2>2 DEF ServingOK, VisitOK, Visits
  <2>4. visit.want \in URLs
    BY <1>1 DEF ServingOK, VisitOK
  <2>5. (info'.error # "none") = (phase \in {"issue", "download"})
    BY <1>4, <2>1
  <2> QED BY <2>3, <2>4, <2>5 DEF VisitOK, phase
<1>6. ReadOK'
  BY <1>1, <1>4, <1>5 DEF ServingOK, ReadOK
<1>7. ClientOK'
  <2>1. client \in Clients /\ info.body \in Seq(Stored)
    BY <1>1 DEF ServingOK, ClientOK, StoredInfos
  <2>2. WithHeader(client, info) \in Clients
    BY <1>1, <2>1, WithHeaderOK
  <2>3. WithBody(WithHeader(client, info), info.body) \in Clients
    BY <2>1, <2>2, WithBodyOK
  <2> QED BY <2>1, <2>2, <2>3 DEF CopyBody, ClientOK
<1> QED BY <1>2, <1>4, <1>5, <1>6, <1>7 DEF ServingOK

LEMMA AnsweredOK ==
  ASSUME ServingOK, NEW c \in Clients, Answered(c)
  PROVE  VisitOK' /\ InfoOK' /\ ClientOK' /\ ReadOK'
<1>1. visit' = [visit EXCEPT !.phase = "done"] /\ info' = NewInfo /\ client' = c
  BY DEF Answered
<1>2. visit'.phase = "done" /\ visit' \in Visits
  BY <1>1 DEF ServingOK, VisitOK, Visits
<1> QED BY <1>1, <1>2, NothingOK DEF VisitOK, InfoOK, ClientOK, ReadOK

\* A list that grows at its end.
Appended(S, s, e, t) ==
    /\ t \in Seq(S) /\ Len(t) = Len(s) + 1
    /\ t[Len(s) + 1] = e
    /\ \A i \in 1 .. Len(s) : t[i] = s[i]

LEMMA AppendIs ==
  ASSUME NEW S, NEW s \in Seq(S), NEW e \in S
  PROVE  Appended(S, s, e, Append(s, e))
BY AppendProperties DEF Appended

LEMMA EnqueueIs ==
  ASSUME QueueOK, NEW u \in URLs, NEW force \in BOOLEAN, NEW at \in 1 .. MaxTime,
         Enqueue(u, force, at)
  PROVE  /\ [url |-> u, force |-> force, at |-> at] \in Queued
         /\ Appended(Queued, queue, [url |-> u, force |-> force, at |-> at], queue')
<1> DEFINE e == [url |-> u, force |-> force, at |-> at]
<1>1. e \in Queued
  BY DEF Queued
<1> HIDE DEF e
<1>2. Appended(Queued, queue, e, Append(queue, e))
  BY <1>1, AppendIs DEF QueueOK
<1>3. queue' = Append(queue, e)
  BY DEF Enqueue, e
<1> QED BY <1>1, <1>2, <1>3 DEF e

LEMMA EnqueueOK ==
  ASSUME ClockOK, QueueOK, now' = now, NEW u \in URLs, NEW force \in BOOLEAN,
         NEW at \in 1 .. now, Enqueue(u, force, at)
  PROVE  QueueOK'
<1> DEFINE e == [url |-> u, force |-> force, at |-> at]
<1>1. now \in Int /\ at \in 1 .. MaxTime /\ at <= now
  BY ServingAssumption DEF ClockOK
<1>2. Appended(Queued, queue, e, queue') /\ e.at = at
  BY <1>1, EnqueueIs
<1> HIDE DEF e
<1>3. ASSUME NEW i \in 1 .. Len(queue') PROVE queue'[i].at <= now
  <2>1. CASE i = Len(queue) + 1
    BY <1>1, <1>2, <2>1 DEF Appended
  <2>2. CASE i # Len(queue) + 1
    <3>1. i \in 1 .. Len(queue)
      BY <1>2, <2>2 DEF Appended, QueueOK
    <3> QED BY <1>2, <3>1 DEF Appended, QueueOK
  <2> QED BY <2>1, <2>2
<1> QED BY <1>2, <1>3 DEF QueueOK, Appended

\* What is handed over, by a visit that has served an expired page.
LEMMA HandedOver ==
  ASSUME ServingOK, ServeCache
  PROVE  /\ UNCHANGED <<now, listeners, files, queue, left, history>>
         /\ visit.phase = "expiry" /\ visit.want \in URLs
         /\ CachePath(visit.want) \in DOMAIN files
         /\ Answered(WithHeader(client, info))
         /\ \/ refresh' = refresh
            \/ /\ HasExpired(info)
               /\ \E g \in Refreshers :
                     /\ refresh' \in [Refreshers -> Refreshes]
                     /\ refresh'[g].step = "bump" /\ refresh'[g].url = visit.want
                     /\ \A h \in Refreshers : h # g => refresh'[h] = refresh[h]
<1>1. /\ UNCHANGED <<now, listeners, files, queue, left, history>>
      /\ visit.phase = "expiry" /\ visit.want \in URLs
      /\ CachePath(visit.want) \in DOMAIN files
      /\ Answered(WithHeader(client, info))
  BY DEF ServeCache, ServingOK, VisitOK, ReadOK
<1>2. SUFFICES ASSUME refresh' # refresh
               PROVE  /\ HasExpired(info)
                      /\ \E g \in Refreshers :
                            /\ refresh' \in [Refreshers -> Refreshes]
                            /\ refresh'[g].step = "bump" /\ refresh'[g].url = visit.want
                            /\ \A h \in Refreshers : h # g => refresh'[h] = refresh[h]
  BY <1>1
<1>3. HasExpired(info)
  BY <1>2 DEF ServeCache
<1> DEFINE r == [step |-> "bump", url |-> visit.want, since |-> 0]
<1>4. PICK g \in Refreshers : refresh' = [refresh EXCEPT ![g] = r]
  BY <1>2 DEF ServeCache
<1>5. r \in Refreshes /\ r.step = "bump" /\ r.url = visit.want
  BY <1>1, ServingAssumption DEF Refreshes
<1> HIDE DEF r
<1>6. refresh \in [Refreshers -> Refreshes]
  BY DEF ServingOK, RefreshOK
<1> QED BY <1>3, <1>4, <1>5, <1>6

LEMMA ServeCacheOK ==
  ASSUME ServingOK, ServeCache
  PROVE  ServingOK'
<1>1. /\ UNCHANGED <<now, listeners, files, queue, left, history>>
      /\ visit.want \in URLs /\ CachePath(visit.want) \in DOMAIN files
      /\ Answered(WithHeader(client, info))
  BY HandedOver
<1>2. VisitOK' /\ InfoOK' /\ ClientOK' /\ ReadOK'
  <2>1. WithHeader(client, info) \in Clients
    BY WithHeaderOK DEF ServingOK, ClientOK, InfoOK
  <2> QED BY <1>1, <2>1, AnsweredOK
<1>3. ClockOK' /\ QueueOK' /\ FilesOK'
  BY <1>1 DEF ServingOK, ClockOK, QueueOK, FilesOK
<1>4. RefreshOK'
  <2>1. CASE refresh' = refresh
    BY <1>1, <2>1 DEF ServingOK, RefreshOK
  <2>2. ASSUME refresh' # refresh PROVE RefreshOK'
    <3>1. PICK g \in Refreshers :
            /\ refresh' \in [Refreshers -> Refreshes]
            /\ refresh'[g].step = "bump" /\ refresh'[g].url = visit.want
            /\ \A h \in Refreshers : h # g => refresh'[h] = refresh[h]
      BY <2>2, HandedOver
    <3>2. ASSUME NEW h \in Refreshers
          PROVE  /\ refresh'[h].step # "idle" =>
                       refresh'[h].url \in URLs /\ CachePath(refresh'[h].url) \in DOMAIN files'
                 /\ refresh'[h].step = "enqueue" => refresh'[h].since \in 1 .. now'
      <4>1. CASE h = g
        BY <1>1, <3>1, <4>1
      <4>2. CASE h # g
        BY <1>1, <3>1, <4>2 DEF ServingOK, RefreshOK
      <4> QED BY <4>1, <4>2
    <3> QED BY <3>1, <3>2 DEF RefreshOK
  <2> QED BY <2>1, <2>2
<1> QED BY <1>2, <1>3, <1>4 DEF ServingOK

\* One file is bumped, and nothing else has changed but what is known of it.
Bumps(p) ==
    /\ p \in DOMAIN files /\ FileOK(files[p])
    /\ DOMAIN files' = DOMAIN files /\ files'[p] = Bumped(files[p], now)
    /\ \A q \in DOMAIN files : q # p => files'[q] = files[q]
    /\ excused' = IF HasDeadline(files[p]) THEN excused ELSE excused \cup {p}
    /\ fetched' = fetched \ {p}
    /\ UNCHANGED <<now, listeners, queue, visit, info, client, left, good>>

LEMMA BumpIs ==
  ASSUME ServingOK, NEW g \in Refreshers, Bump(g)
  PROVE  /\ refresh[g].url \in URLs /\ Bumps(CachePath(refresh[g].url))
         /\ refresh' \in [Refreshers -> Refreshes]
         /\ refresh'[g].step = "enqueue" /\ refresh'[g].url = refresh[g].url
         /\ refresh'[g].since = now
         /\ \A h \in Refreshers : h # g => refresh'[h] = refresh[h]
<1>1. PICK p : p = CachePath(refresh[g].url)
  OBVIOUS
<1>2. /\ refresh \in [Refreshers -> Refreshes] /\ refresh[g].step = "bump"
      /\ refresh[g].url \in URLs /\ p \in DOMAIN files /\ FileOK(files[p])
      /\ now \in 0 .. MaxTime
  <2>1. refresh[g].step = "bump"
    BY DEF Bump
  <2>2. now \in 0 .. MaxTime
    BY ServingAssumption DEF ServingOK, ClockOK
  <2> QED BY <1>1, <2>1, <2>2 DEF ServingOK, RefreshOK, FilesOK
<1>3. Bumps(p)
  <2>1. PICK f : f = Bumped(files[p], now)
    OBVIOUS
  <2>2. files' = [files EXCEPT ![p] = f]
    BY <1>1, <2>1 DEF Bump
  <2> QED BY <1>1, <1>2, <2>1, <2>2 DEF Bump, Bumps
<1>4. PICK r : r = [refresh[g] EXCEPT !.step = "enqueue", !.since = now]
  OBVIOUS
<1>5. r \in Refreshes /\ r.step = "enqueue" /\ r.url = refresh[g].url /\ r.since = now
  <2>1. refresh[g] \in Refreshes
    BY <1>2
  <2> QED BY <1>2, <1>4, <2>1 DEF Refreshes
<1>6. refresh' = [refresh EXCEPT ![g] = r]
  BY <1>2, <1>4 DEF Bump
<1> QED BY <1>1, <1>2, <1>3, <1>5, <1>6

LEMMA BumpOK ==
  ASSUME ServingOK, NEW g \in Refreshers, Bump(g)
  PROVE  ServingOK'
<1>1. PICK p : p = CachePath(refresh[g].url)
  OBVIOUS
<1>2. /\ refresh[g].url \in URLs /\ Bumps(p)
      /\ refresh' \in [Refreshers -> Refreshes]
      /\ refresh'[g].step = "enqueue" /\ refresh'[g].url = refresh[g].url
      /\ refresh'[g].since = now
      /\ \A h \in Refreshers : h # g => refresh'[h] = refresh[h]
  BY <1>1, BumpIs
<1>3. ClockOK' /\ QueueOK' /\ VisitOK' /\ InfoOK' /\ ClientOK' /\ ReadOK'
  BY <1>2 DEF Bumps, ServingOK, ClockOK, QueueOK, VisitOK, InfoOK, ClientOK, ReadOK
<1>4. now \in 1 .. now /\ now \in Nat
  BY ServingAssumption DEF ServingOK, ClockOK
<1>5. FilesOK'
  <2>1. FileOK(files'[p])
    BY <1>2, <1>4, BumpedIs DEF Bumps
  <2> QED BY <1>2, <2>1 DEF Bumps, ServingOK, FilesOK
<1>6. ASSUME NEW h \in Refreshers
      PROVE  /\ refresh'[h].step # "idle" =>
                   refresh'[h].url \in URLs /\ CachePath(refresh'[h].url) \in DOMAIN files'
             /\ refresh'[h].step = "enqueue" => refresh'[h].since \in 1 .. now'
  <2>1. CASE h = g
    BY <1>1, <1>2, <1>4, <2>1 DEF Bumps
  <2>2. CASE h # g
    BY <1>2, <2>2 DEF Bumps, ServingOK, RefreshOK
  <2> QED BY <2>1, <2>2
<1>7. RefreshOK'
  BY <1>2, <1>6 DEF RefreshOK
<1> QED BY <1>3, <1>5, <1>7 DEF ServingOK

LEMMA EnqueueExpiredIs ==
  ASSUME ServingOK, NEW g \in Refreshers, EnqueueExpired(g)
  PROVE  /\ UNCHANGED <<now, listeners, files, visit, info, client, left, history>>
         /\ refresh[g].step = "enqueue" /\ refresh[g].url \in URLs
         /\ refresh[g].since \in 1 .. now /\ refresh[g].since \in 1 .. MaxTime
         /\ Enqueue(refresh[g].url, TRUE, refresh[g].since)
         /\ refresh' \in [Refreshers -> Refreshes] /\ refresh'[g].step = "idle"
         /\ \A h \in Refreshers : h # g => refresh'[h] = refresh[h]
<1>1. /\ UNCHANGED <<now, listeners, files, visit, info, client, left, history>>
      /\ refresh[g].step = "enqueue" /\ Enqueue(refresh[g].url, TRUE, refresh[g].since)
      /\ refresh' = [refresh EXCEPT ![g] = NoRefresh]
  BY DEF EnqueueExpired
<1>2. /\ refresh \in [Refreshers -> Refreshes] /\ refresh[g].url \in URLs
      /\ refresh[g].since \in 1 .. now
  BY <1>1 DEF ServingOK, RefreshOK
<1>3. refresh[g].since \in 1 .. MaxTime
  BY <1>2, ServingAssumption DEF ServingOK, ClockOK
<1>4. NoRefresh \in Refreshes /\ NoRefresh.step = "idle"
  BY ServingAssumption DEF NoRefresh, Refreshes
<1> QED BY <1>1, <1>2, <1>3, <1>4

LEMMA EnqueueExpiredOK ==
  ASSUME ServingOK, NEW g \in Refreshers, EnqueueExpired(g)
  PROVE  ServingOK'
<1>1. /\ UNCHANGED <<now, listeners, files, visit, info, client, left, history>>
      /\ refresh[g].url \in URLs /\ refresh[g].since \in 1 .. now
      /\ Enqueue(refresh[g].url, TRUE, refresh[g].since)
      /\ refresh' \in [Refreshers -> Refreshes] /\ refresh'[g].step = "idle"
      /\ \A h \in Refreshers : h # g => refresh'[h] = refresh[h]
  BY EnqueueExpiredIs
<1>2. ClockOK /\ QueueOK
  BY DEF ServingOK
<1>3. QueueOK'
  BY <1>1, <1>2, EnqueueOK
<1>4. ClockOK' /\ FilesOK' /\ VisitOK' /\ InfoOK' /\ ClientOK' /\ ReadOK'
  BY <1>1 DEF ServingOK, ClockOK, FilesOK, VisitOK, InfoOK, ClientOK, ReadOK
<1>5. ASSUME NEW h \in Refreshers
      PROVE  /\ refresh'[h].step # "idle" =>
                   refresh'[h].url \in URLs /\ CachePath(refresh'[h].url) \in DOMAIN files'
             /\ refresh'[h].step = "enqueue" => refresh'[h].since \in 1 .. now'
  <2>1. CASE h = g
    BY <1>1, <2>1
  <2>2. CASE h # g
    BY <1>1, <2>2 DEF ServingOK, RefreshOK
  <2> QED BY <2>1, <2>2
<1>6. RefreshOK'
  BY <1>1, <1>5 DEF RefreshOK
<1> QED BY <1>3, <1>4, <1>6 DEF ServingOK

\* The placeholder, or what a failing disk leaves of it.
LEMMA PlacedIs ==
  ASSUME ServingOK, Place
  PROVE  /\ UNCHANGED <<now, listeners, queue, refresh, good>>
         /\ visit.phase = "issue" /\ visit.want \in URLs
         /\ \/ files' = files /\ fetched' = fetched
            \/ /\ \E n \in 0 .. 3 : files' = Insert(files, CachePath(visit.want),
                                                    Prefix(PlaceholderFile(now), n))
               /\ fetched' \in {fetched, fetched \ {CachePath(visit.want)}}
<1> DEFINE p == CachePath(visit.want)
<1>1. /\ UNCHANGED <<now, listeners, queue, refresh, good>>
      /\ visit.phase = "issue" /\ visit.want \in URLs /\ now \in Nat
  BY ServingAssumption DEF Place, ServingOK, VisitOK, ClockOK
<1>2. PICK file : file = PlaceholderFile(now)
  OBVIOUS
<1>3. FileOK(file) /\ Len(file) = 3
  BY <1>1, <1>2, PlaceholderIs
<1>4. file \in Seq(Stored)
  BY <1>3 DEF FileOK
<1>5. ASSUME files' = Insert(files, p, file)
      PROVE  \E n \in 0 .. 3 : files' = Insert(files, p, Prefix(file, n))
  <2>1. Prefix(file, Len(file)) = file
    BY <1>4, PrefixAll
  <2>2. 3 \in 0 .. 3 /\ files' = Insert(files, p, Prefix(file, 3))
    BY <1>3, <1>5, <2>1
  <2> QED BY <2>2
<1>6. ASSUME \E n \in 0 .. Len(file) - 1 : files' = Insert(files, p, SubSeq(file, 1, n))
      PROVE  \E n \in 0 .. 3 : files' = Insert(files, p, Prefix(file, n))
  <2>1. PICK n \in 0 .. Len(file) - 1 : files' = Insert(files, p, SubSeq(file, 1, n))
    BY <1>6
  <2>2. n \in 0 .. 3 /\ files' = Insert(files, p, Prefix(file, n))
    BY <1>3, <2>1 DEF Prefix
  <2> QED BY <2>2
<1>7. \/ files' = Insert(files, p, file) /\ fetched' = fetched \ {p}
      \/ files' = files /\ fetched' = fetched
      \/ /\ \E n \in 0 .. Len(file) - 1 : files' = Insert(files, p, SubSeq(file, 1, n))
         /\ fetched' = fetched
  BY <1>2 DEF Place
<1> QED BY <1>1, <1>2, <1>5, <1>6, <1>7

LEMMA PlaceOK ==
  ASSUME ServingOK, Place
  PROVE  ServingOK'
<1>1. /\ UNCHANGED <<now, listeners, queue, refresh, good>>
      /\ visit.phase = "issue" /\ visit.want \in URLs /\ now \in Nat
  BY PlacedIs, ServingAssumption DEF ServingOK, ClockOK
<1>2. ClockOK' /\ QueueOK' /\ FilesOK
  BY <1>1 DEF ServingOK, ClockOK, QueueOK
<1>3. FilesOK' /\ DOMAIN files \subseteq DOMAIN files'
  <2>1. CASE files' = files
    BY <1>2, <2>1 DEF FilesOK
  <2>2. CASE \E n \in 0 .. 3 :
                files' = Insert(files, CachePath(visit.want), Prefix(PlaceholderFile(now), n))
    <3>1. PICK n \in 0 .. 3 :
                files' = Insert(files, CachePath(visit.want), Prefix(PlaceholderFile(now), n))
      BY <2>2
    <3>2. PICK file : file = PlaceholderFile(now)
      OBVIOUS
    <3>3. FileOK(file) /\ Len(file) = 3
      BY <1>1, <3>2, PlaceholderIs
    <3>4. FileOK(Prefix(file, n))
      BY <3>1, <3>3, PrefixOK
    <3> QED BY <1>1, <1>2, <3>1, <3>2, <3>4, FilesInsert
  <2> QED BY <2>1, <2>2, PlacedIs
<1>4. VisitOK' /\ InfoOK' /\ ClientOK' /\ ReadOK'
  <2>1. CASE visit' = [visit EXCEPT !.phase = "download"] /\ UNCHANGED <<info, client>>
    <3>1. visit' \in Visits /\ visit'.phase = "download" /\ visit'.want = visit.want
      BY <2>1 DEF ServingOK, VisitOK, Visits
    <3> QED BY <1>1, <2>1, <3>1 DEF ServingOK, VisitOK, InfoOK, ClientOK, ReadOK
  <2>2. CASE Answered(WithHeader(client, info))
    <3>1. WithHeader(client, info) \in Clients
      BY WithHeaderOK DEF ServingOK, ClientOK, InfoOK
    <3> QED BY <2>2, <3>1, AnsweredOK
  <2> QED BY <2>1, <2>2 DEF Place
<1>5. RefreshOK'
  BY <1>1, <1>3, RefreshKept DEF ServingOK
<1> QED BY <1>2, <1>3, <1>4, <1>5 DEF ServingOK

LEMMA DownloadOK ==
  ASSUME ServingOK, Download
  PROVE  ServingOK'
<1>1. visit.want \in URLs /\ UNCHANGED <<now, listeners, queue, refresh>> /\ ClockOK /\ FilesOK
  BY DEF Download, ServingOK, VisitOK
<1>2. PICK u \in URLs : u = visit.want
  BY <1>1
<1>3. PICK a \in Source[u] : OnDownloaded(u, a) /\ Answered(Downloaded(u, a))
  BY <1>2 DEF Download
<1>4. a \in Answers
  BY NamesAssumption
<1>5. FilesOK' /\ ClockOK' /\ QueueOK' /\ RefreshOK'
  BY <1>1, <1>3, DownloadedFilesOK, RefreshKept DEF ServingOK, ClockOK, QueueOK
<1>6. VisitOK' /\ InfoOK' /\ ClientOK' /\ ReadOK'
  <2> DEFINE status == Answer[a].status
             headers == Joined(info.headers, MetaLines(u, a))
             body == BodyLines(u, a)
  <2>1. info \in StoredInfos /\ client \in Clients /\ info.headers \in Seq(Stored)
    BY DEF ServingOK, InfoOK, ClientOK, StoredInfos
  <2>2. status \in Nat /\ body \in Seq(Stored)
    BY <1>4, AnswerIs, BodyIs
  <2>3. headers \in Seq(Stored)
    <3>1. MetaLines(u, a) \in Seq(Stored)
      BY <1>4, MetaIs DEF AtMost
    <3>2. Joins(Stored, info.headers, MetaLines(u, a), headers)
      BY <2>1, <3>1, JoinedIs
    <3> QED BY <3>2 DEF Joins
  <2>4. Downloaded(u, a) = Written(client, [info EXCEPT !.status = status, !.headers = headers], body)
    BY DEF Downloaded, Joined
  <2> HIDE DEF status, headers, body
  <2>5. [info EXCEPT !.status = status, !.headers = headers] \in StoredInfos
    BY <2>1, <2>2, <2>3 DEF StoredInfos
  <2>6. Downloaded(u, a) \in Clients
    BY <2>1, <2>2, <2>4, <2>5, WrittenOK
  <2> QED BY <1>3, <2>6, AnsweredOK
<1> QED BY <1>5, <1>6 DEF ServingOK

LEMMA LeaveOK ==
  ASSUME ServingOK, Leave
  PROVE  ServingOK'
<1>1. /\ UNCHANGED <<now, listeners, files, queue, info, refresh, left, history>>
      /\ visit.phase = "done" /\ visit' = NoVisit /\ client' = NothingSent
  BY DEF Leave
<1>2. ClockOK' /\ FilesOK' /\ QueueOK' /\ InfoOK' /\ RefreshOK'
  BY <1>1 DEF ServingOK, ClockOK, FilesOK, QueueOK, InfoOK, RefreshOK
<1>3. visit' \in Visits /\ visit'.phase = "none"
  BY <1>1 DEF NoVisit, Visits, Roots
<1>4. (info'.error # "none") = (visit'.phase \in {"issue", "download"})
  BY <1>1, <1>3 DEF ServingOK, VisitOK
<1> QED BY <1>1, <1>2, <1>3, <1>4, NothingOK DEF ServingOK, VisitOK, ClientOK, ReadOK

\* A list that loses its head.
Shifted(S, s, t) ==
    /\ t \in Seq(S) /\ Len(t) = Len(s) - 1
    /\ \A i \in 1 .. Len(t) : t[i] = s[i + 1]

LEMMA TailIs ==
  ASSUME NEW S, NEW s \in Seq(S), s # <<>>
  PROVE  /\ Shifted(S, s, Tail(s)) /\ Head(s) = s[1] /\ Len(s) > 0 /\ Len(s) \in Nat
         /\ Head(s) \in S
BY HeadTailProperties DEF Shifted

LEMMA WorkIs ==
  ASSUME ServingOK, Work
  PROVE  /\ UNCHANGED <<now, listeners, web>> /\ visit.phase = "none"
         /\ Shifted(Queued, queue, queue')
         /\ \/ UNCHANGED <<files, left, history>>
            \/ \E u \in URLs : \E a \in Source[u] : OnDownloaded(u, a)
<1>1. queue \in Seq(Queued) /\ queue # <<>> /\ queue' = Tail(queue)
  BY DEF ServingOK, QueueOK, Work
<1>2. Shifted(Queued, queue, queue') /\ Head(queue) \in Queued
  BY <1>1, TailIs
<1>3. Head(queue).url \in URLs
  BY <1>2 DEF Queued
<1>4. \/ UNCHANGED <<files, left, history>>
      \/ \E a \in Source[Head(queue).url] : OnDownloaded(Head(queue).url, a)
  BY DEF Work
<1> QED BY <1>2, <1>3, <1>4 DEF Work, AtRest

LEMMA ShiftedQueueOK ==
  ASSUME QueueOK, now' = now, Shifted(Queued, queue, queue')
  PROVE  QueueOK'
<1>1. ASSUME NEW i \in 1 .. Len(queue') PROVE queue'[i].at <= now'
  <2>1. i + 1 \in 1 .. Len(queue) /\ queue'[i] = queue[i + 1]
    BY DEF Shifted, QueueOK
  <2> QED BY <2>1 DEF QueueOK
<1> QED BY <1>1 DEF QueueOK, Shifted

LEMMA WorkOK ==
  ASSUME ServingOK, Work
  PROVE  ServingOK'
<1>1. /\ UNCHANGED <<now, listeners, web>> /\ visit.phase = "none"
      /\ Shifted(Queued, queue, queue')
      /\ \/ UNCHANGED <<files, left, history>>
         \/ \E u \in URLs : \E a \in Source[u] : OnDownloaded(u, a)
  BY WorkIs
<1>2. ClockOK /\ FilesOK /\ QueueOK /\ VisitOK /\ InfoOK /\ ClientOK /\ RefreshOK
  BY DEF ServingOK
<1>3. FilesOK' /\ DOMAIN files \subseteq DOMAIN files'
  <2>1. CASE files' = files
    BY <1>2, <2>1 DEF FilesOK
  <2>2. CASE \E u \in URLs : \E a \in Source[u] : OnDownloaded(u, a)
    BY <1>2, <2>2, DownloadedFilesOK
  <2> QED BY <1>1, <2>1, <2>2
<1>4. QueueOK'
  BY <1>1, <1>2, ShiftedQueueOK
<1>5. ClockOK' /\ VisitOK' /\ InfoOK' /\ ClientOK' /\ ReadOK'
  BY <1>1, <1>2 DEF ClockOK, VisitOK, InfoOK, ClientOK, ReadOK, web
<1>6. RefreshOK'
  BY <1>1, <1>2, <1>3, RefreshKept DEF web
<1> QED BY <1>3, <1>4, <1>5, <1>6 DEF ServingOK

LEMMA TickOK ==
  ASSUME ServingOK, Tick
  PROVE  ServingOK'
<1>1. /\ now' = now + 1 /\ now < MaxTime /\ visit.phase = "none"
      /\ UNCHANGED <<listeners, files, queue, web, left, history>>
  BY DEF Tick, AtRest
<1>2. ClockOK'
  BY <1>1, ServingAssumption DEF ServingOK, ClockOK
<1>3. QueueOK'
  <2>1. ASSUME NEW i \in 1 .. Len(queue) PROVE queue[i].at <= now + 1
    <3>1. queue[i] \in Queued /\ queue[i].at <= now
      BY DEF ServingOK, QueueOK
    <3>2. queue[i].at \in Int /\ now \in Int
      BY <3>1, ServingAssumption DEF Queued, ServingOK, ClockOK
    <3> QED BY <3>1, <3>2
  <2> QED BY <1>1, <2>1 DEF ServingOK, QueueOK
<1>4. FilesOK' /\ VisitOK' /\ InfoOK' /\ ClientOK' /\ ReadOK'
  BY <1>1 DEF ServingOK, FilesOK, VisitOK, InfoOK, ClientOK, ReadOK, web
<1>5. RefreshOK'
  BY <1>1, RefreshKept DEF ServingOK, web
<1> QED BY <1>2, <1>3, <1>4, <1>5 DEF ServingOK

----------------------------------------------------------------------------
(* The types of the state of Program.                                      *)

Typed == {f \in Flags : f.name = "mirror" => f.root \in Sites}

Calls == [root : Roots, port : Int]

Configs == [port : Int, workers : Int, urls : Seq(Sites), ports : Seq(Int)]

SetupOK ==
    /\ ListenersOK
    /\ step \in {"parse", "setup", "run", "stop", "over"}
    /\ typed \in CommandLines
    /\ args \in Seq(Typed)
    /\ config \in Configs
    /\ Len(config.urls) + Len(config.ports) + Len(args) <= Len(typed)
    /\ todo \in Seq(Calls)
    /\ step = "setup" => todo # <<>>

ProgramOK == ServingOK /\ SetupOK

LEMMA TypedIs ==
  ASSUME NEW line \in CommandLines
  PROVE  line \in Seq(Typed) /\ Len(line) \in Nat
<1>1. line \in Seq(Flags)
  BY CommandLinesAssumption
<1>2. ASSUME NEW i \in 1 .. Len(line) PROVE line[i] \in Typed
  <2>1. line[i] \in Flags /\ i \in DOMAIN line
    BY <1>1
  <2>2. line[i].name = "mirror" => line[i].root \in Sites
    BY <2>1, CommandLinesAssumption
  <2> QED BY <2>1, <2>2 DEF Typed
<1>3. line \in [1 .. Len(line) -> Typed] /\ Len(line) \in Nat
  BY <1>1, <1>2, LenProperties
<1> QED BY <1>3, SeqDef

\* No page is being refreshed.
Idle == [g \in Refreshers |-> NoRefresh]

LEMMA IdleIs ==
  /\ Idle \in [Refreshers -> Refreshes]
  /\ \A g \in Refreshers : Idle[g].step = "idle"
<1>1. NoRefresh \in Refreshes /\ NoRefresh.step = "idle"
  BY ServingAssumption DEF NoRefresh, Refreshes
<1> QED BY <1>1 DEF Idle

LEMMA ProgramInitOK ==
  ASSUME ProgramInit
  PROVE  ProgramOK
<1>1. /\ now = 1 /\ listeners = <<>> /\ files = <<>> /\ queue = <<>> /\ visit = NoVisit
      /\ info = NewInfo /\ client = NothingSent /\ refresh = Idle
  BY DEF ProgramInit, Init, Idle
<1>2. ClockOK
  BY <1>1, ServingAssumption DEF ClockOK
<1>3. FilesOK /\ ListenersOK
  BY <1>1 DEF FilesOK, ListenersOK
<1>4. QueueOK
  BY <1>1 DEF QueueOK
<1>5. VisitOK /\ ReadOK
  <2>1. visit \in Visits /\ visit.phase = "none"
    BY <1>1 DEF NoVisit, Visits, Roots
  <2> QED BY <1>1, <2>1, NothingOK DEF VisitOK, ReadOK
<1>6. InfoOK /\ ClientOK /\ RefreshOK
  BY <1>1, NothingOK, IdleIs DEF InfoOK, ClientOK, RefreshOK
<1>7. SetupOK
  <2> DEFINE urls == <<>>
             ports == <<>>
  <2>1. /\ step = "parse" /\ typed \in CommandLines /\ args = typed /\ todo = <<>>
        /\ config = [port |-> -1, workers |-> 4, urls |-> urls, ports |-> ports]
    BY DEF ProgramInit
  <2>2. urls \in Seq(Sites) /\ Len(urls) = 0 /\ ports \in Seq(Int) /\ Len(ports) = 0
    OBVIOUS
  <2>3. todo \in Seq(Calls)
    BY <2>1
  <2> HIDE DEF urls, ports
  <2>4. /\ config \in Configs /\ config.urls = urls /\ config.ports = ports
    BY <2>1, <2>2 DEF Configs
  <2>5. args \in Seq(Typed) /\ Len(typed) \in Nat
    BY <2>1, TypedIs
  <2>6. Len(config.urls) + Len(config.ports) + Len(args) <= Len(typed)
    BY <2>1, <2>2, <2>4, <2>5
  <2> QED BY <1>3, <2>1, <2>3, <2>4, <2>5, <2>6 DEF SetupOK
<1> QED BY <1>2, <1>3, <1>4, <1>5, <1>6, <1>7 DEF ProgramOK, ServingOK

LEMMA ServingSame ==
  ASSUME ServingOK, UNCHANGED vars
  PROVE  ServingOK'
<1>1. UNCHANGED <<now, files, queue, visit, info, client, refresh>>
  BY DEF vars, web
<1> QED BY <1>1
        DEF ServingOK, ClockOK, FilesOK, QueueOK, VisitOK, InfoOK, ClientOK, ReadOK, RefreshOK

LEMMA ParseFlagOK ==
  ASSUME ProgramOK, ParseFlag
  PROVE  ProgramOK'
<1>1. /\ UNCHANGED vars /\ UNCHANGED <<listeners, typed, todo>>
      /\ args # <<>> /\ args' = Tail(args) /\ step' \in {"over", "parse"}
      /\ args \in Seq(Typed) /\ config \in Configs
  BY DEF ParseFlag, vars, ProgramOK, SetupOK
<1>2. /\ Shifted(Typed, args, args') /\ Head(args) \in Typed
  BY <1>1, TailIs
<1>3. PICK flag \in Typed : flag = Head(args)
  BY <1>2
<1>4. \/ config' = config
      \/ config' = [config EXCEPT !.port = flag.num]
      \/ config' = [config EXCEPT !.workers = flag.num]
      \/ flag.name = "mirror" /\ config' = [config EXCEPT !.urls = Append(@, flag.root)]
      \/ flag.name = "mirror-port" /\ config' = [config EXCEPT !.ports = Append(@, flag.num)]
  BY <1>3 DEF ParseFlag
<1>5. flag.num \in Int /\ (flag.name = "mirror" => flag.root \in Sites)
  BY DEF Typed, Flags
<1>6. /\ config.urls \in Seq(Sites) /\ config.ports \in Seq(Int)
      /\ Len(config.urls) \in Nat /\ Len(config.ports) \in Nat
  BY <1>1 DEF Configs
<1> DEFINE m == Len(config.urls)
           n == Len(config.ports)
<1> HIDE DEF m, n
<1>m. m \in Nat /\ n \in Nat
  BY <1>6 DEF m, n
<1>7. /\ config' \in Configs
      /\ \/ Len(config'.urls) = m /\ Len(config'.ports) = n
         \/ Len(config'.urls) = m + 1 /\ Len(config'.ports) = n
         \/ Len(config'.urls) = m /\ Len(config'.ports) = n + 1
  <2>1. CASE config' = config
    BY <1>1, <2>1 DEF m, n
  <2>2. CASE config' = [config EXCEPT !.port = flag.num]
    BY <1>1, <1>5, <2>2 DEF Configs, m, n
  <2>3. CASE config' = [config EXCEPT !.workers = flag.num]
    BY <1>1, <1>5, <2>3 DEF Configs, m, n
  <2>4. CASE flag.name = "mirror" /\ config' = [config EXCEPT !.urls = Append(@, flag.root)]
    <3> DEFINE new == Append(config.urls, flag.root)
    <3>1. Appended(Sites, config.urls, flag.root, new)
      BY <1>5, <1>6, <2>4, AppendIs
    <3>2. config' = [config EXCEPT !.urls = new]
      BY <2>4
    <3> HIDE DEF new
    <3>3. new \in Seq(Sites) /\ Len(new) = m + 1
      BY <3>1 DEF Appended, m
    <3>4. config' \in Configs /\ config'.urls = new /\ config'.ports = config.ports
      BY <1>1, <3>2, <3>3 DEF Configs
    <3> QED BY <3>3, <3>4 DEF n
  <2>5. CASE flag.name = "mirror-port" /\ config' = [config EXCEPT !.ports = Append(@, flag.num)]
    <3> DEFINE new == Append(config.ports, flag.num)
    <3>1. Appended(Int, config.ports, flag.num, new)
      BY <1>5, <1>6, <2>5, AppendIs
    <3>2. config' = [config EXCEPT !.ports = new]
      BY <2>5
    <3> HIDE DEF new
    <3>3. new \in Seq(Int) /\ Len(new) = n + 1
      BY <3>1 DEF Appended, n
    <3>4. config' \in Configs /\ config'.ports = new /\ config'.urls = config.urls
      BY <1>1, <3>2, <3>3 DEF Configs
    <3> QED BY <3>3, <3>4 DEF m
  <2> QED BY <1>4, <2>1, <2>2, <2>3, <2>4, <2>5
<1>8. Len(config'.urls) + Len(config'.ports) + Len(args') <= Len(typed')
  <2> DEFINE k == Len(args)
             l == Len(typed)
             m1 == Len(config'.urls)
             n1 == Len(config'.ports)
             k1 == Len(args')
  <2>1. m + n + k <= l /\ k \in Nat /\ l \in Nat
    <3>1. SetupOK
      BY DEF ProgramOK
    <3>2. args \in Seq(Typed) /\ typed \in CommandLines
      BY <3>1 DEF SetupOK
    <3>3. k \in Nat /\ l \in Nat
      BY <3>2, TypedIs
    <3>4. m + n + k <= l
      BY <3>1 DEF SetupOK, m, n
    <3> QED BY <3>3, <3>4
  <2>2. k1 = k - 1
    BY <1>2 DEF Shifted
  <2>3. (m1 = m /\ n1 = n) \/ (m1 = m + 1 /\ n1 = n) \/ (m1 = m /\ n1 = n + 1)
    BY <1>7
  <2>4. Len(typed') = l
    BY <1>1
  <2> HIDE DEF k, l, m1, n1, k1
  <2>5. m1 + n1 + k1 <= l
    BY <1>m, <2>1, <2>2, <2>3
  <2> QED BY <2>4, <2>5 DEF m1, n1, k1
<1>9. ListenersOK' /\ args' \in Seq(Typed)
  BY <1>1, <1>2 DEF ProgramOK, SetupOK, ListenersOK, Shifted
<1>10. SetupOK'
  BY <1>1, <1>7, <1>8, <1>9 DEF ProgramOK, SetupOK
<1> QED BY <1>1, <1>10, ServingSame DEF ProgramOK

LEMMA PortIs ==
  ASSUME config \in Configs, NEW i \in 1 .. Len(config.urls)
  PROVE  PortOf(i) \in Int
<1>1. config.ports \in Seq(Int) /\ config.urls \in Seq(Sites)
  BY DEF Configs
<1>2. i \in Nat \ {0}
  BY <1>1
<1>3. i <= Len(config.ports) => config.ports[i] \in Int
  BY <1>1, <1>2
<1> QED BY <1>3 DEF PortOf

\* The calls of Mirror have roots and ports.
LEMMA MirrorCallsAre ==
  ASSUME config \in Configs
  PROVE  MirrorCalls \in Seq(Calls)
<1> DEFINE every == IF config.port > -1
                    THEN <<[root |-> AllHosts, port |-> config.port]>> ELSE <<>>
           each == [i \in DOMAIN config.urls |-> [root |-> config.urls[i], port |-> PortOf(i)]]
<1>1. every \in Seq(Calls)
  <2> DEFINE e == [root |-> AllHosts, port |-> config.port]
  <2>1. e \in Calls
    BY DEF Calls, Configs, Roots
  <2>2. <<>> \in Seq(Calls)
    OBVIOUS
  <2> HIDE DEF e
  <2>3. <<e>> \in Seq(Calls)
    BY <2>1, OneIsSeq
  <2>4. every = IF config.port > -1 THEN <<e>> ELSE <<>>
    BY DEF e
  <2> QED BY <2>2, <2>3, <2>4
<1>2. each \in Seq(Calls)
  <2>1. config.urls \in Seq(Sites) /\ Len(config.urls) \in Nat
    BY DEF Configs
  <2>2. DOMAIN config.urls = 1 .. Len(config.urls)
    BY <2>1
  <2>3. \A i \in 1 .. Len(config.urls) : [root |-> config.urls[i], port |-> PortOf(i)] \in Calls
    BY <2>1, PortIs DEF Calls, Roots
  <2>4. each \in [1 .. Len(config.urls) -> Calls]
    BY <2>2, <2>3
  <2> QED BY <2>1, <2>4, SeqDef
<1>3. MirrorCalls = Joined(every, each)
  BY DEF MirrorCalls, Joined
<1> HIDE DEF every, each
<1>4. Joins(Calls, every, each, MirrorCalls)
  BY <1>1, <1>2, <1>3, JoinedIs
<1> QED BY <1>4 DEF Joins

LEMMA ApplyConfigOK ==
  ASSUME ProgramOK, ApplyConfig
  PROVE  ProgramOK'
<1>1. /\ UNCHANGED vars /\ UNCHANGED <<listeners, typed, args, config>>
  BY DEF ApplyConfig, vars
<1>2. MirrorCalls \in Seq(Calls)
  BY MirrorCallsAre DEF ProgramOK, SetupOK
<1>3. todo' \in Seq(Calls)
  BY <1>2 DEF ApplyConfig
<1>4. step' \in {"over", "run", "setup"} /\ (step' = "setup" => todo' # <<>>)
  BY DEF ApplyConfig, StepWith
<1>5. SetupOK'
  BY <1>1, <1>3, <1>4 DEF ProgramOK, SetupOK, ListenersOK
<1> QED BY <1>1, <1>5, ServingSame DEF ProgramOK

LEMMA OverOK ==
  ASSUME ProgramOK, Over
  PROVE  ProgramOK'
<1>1. /\ step' = "over" /\ todo' = <<>> /\ listeners' = <<>> /\ queue' = <<>>
      /\ visit' = NoVisit /\ info' = NewInfo /\ client' = NothingSent /\ refresh' = Idle
      /\ UNCHANGED <<now, files, typed, args, config>>
  BY DEF Over, Idle
<1>2. ClockOK' /\ FilesOK'
  BY <1>1 DEF ProgramOK, ServingOK, ClockOK, FilesOK
<1>3. QueueOK' /\ ListenersOK'
  BY <1>1 DEF QueueOK, ListenersOK
<1>4. VisitOK' /\ ReadOK'
  <2>1. visit' \in Visits /\ visit'.phase = "none"
    BY <1>1 DEF NoVisit, Visits, Roots
  <2> QED BY <1>1, <2>1, NothingOK DEF VisitOK, ReadOK
<1>5. InfoOK' /\ ClientOK' /\ RefreshOK'
  BY <1>1, NothingOK, IdleIs DEF InfoOK, ClientOK, RefreshOK
<1>6. SetupOK'
  <2>1. todo' \in Seq(Calls)
    BY <1>1
  <2> QED BY <1>1, <1>3, <2>1 DEF ProgramOK, SetupOK
<1> QED BY <1>2, <1>3, <1>4, <1>5, <1>6 DEF ProgramOK, ServingOK

LEMMA FrontPageIs ==
  ASSUME NEW site \in Sites
  PROVE  FrontPage(site) \in URLs
BY FrontPageAssumption DEF FrontPage

LEMMA ListenOK ==
  ASSUME ListenersOK, NEW root \in Roots, NEW port, ListenAndServe(root, port)
  PROVE  ListenersOK'
<1>1. /\ root \notin DOMAIN listeners
      /\ port = 0 \/ port \notin Listening
      /\ listeners' = Insert(listeners, root, port)
  BY DEF ListenAndServe, MayListen, Available
<1>2. Inserts(listeners, root, port, listeners')
  BY <1>1, InsertIs
<1>3. DOMAIN listeners' = DOMAIN listeners \cup {root}
  BY <1>2 DEF Inserts
<1>4. ASSUME NEW r \in DOMAIN listeners', NEW s \in DOMAIN listeners', r # s
      PROVE  listeners'[r] = 0 \/ listeners'[r] # listeners'[s]
  <2>1. \A z \in DOMAIN listeners : listeners'[z] = listeners[z] /\ listeners[z] \in Listening
    BY <1>1, <1>2 DEF Inserts, Listening
  <2>2. listeners'[root] = port
    BY <1>2 DEF Inserts
  <2>3. CASE r = root
    BY <1>1, <1>3, <1>4, <2>1, <2>2, <2>3
  <2>4. CASE s = root
    <3>1. listeners'[r] = listeners[r] /\ listeners[r] \in Listening
      BY <1>3, <1>4, <2>1, <2>4
    <3> QED BY <1>1, <2>2, <2>4, <3>1
  <2>5. CASE r # root /\ s # root
    BY <1>3, <1>4, <2>1, <2>5 DEF ListenersOK
  <2> QED BY <2>3, <2>4, <2>5
<1> QED BY <1>3, <1>4 DEF ListenersOK

LEMMA MirrorOK ==
  ASSUME ProgramOK, Mirror
  PROVE  ProgramOK'
<1>1. todo # <<>> /\ todo \in Seq(Calls)
  BY DEF Mirror, ProgramOK, SetupOK
<1>2. Shifted(Calls, todo, Tail(todo)) /\ Head(todo) \in Calls
  BY <1>1, TailIs
<1>3. PICK call \in Calls : call = Head(todo)
  BY <1>2
<1>4. call.root \in Roots
  BY DEF Calls
<1>5. \/ Over
      \/ /\ UNCHANGED listeners \/ ListenAndServe(call.root, call.port)
         /\ EnqueuesRoot(call)
         /\ todo' = Tail(todo)
         /\ step' = StepWith(todo')
         /\ UNCHANGED <<now, files, web, left, history, typed, args, config>>
  BY <1>3 DEF Mirror
<1>6. ASSUME /\ UNCHANGED listeners \/ ListenAndServe(call.root, call.port)
             /\ EnqueuesRoot(call)
             /\ todo' = Tail(todo)
             /\ step' = StepWith(todo')
             /\ UNCHANGED <<now, files, web, left, history, typed, args, config>>
      PROVE  ProgramOK'
  <2>1. /\ ClockOK /\ FilesOK /\ QueueOK /\ VisitOK /\ InfoOK /\ ClientOK /\ ReadOK
        /\ RefreshOK /\ ListenersOK
    BY DEF ProgramOK, ServingOK, SetupOK
  <2>2. ClockOK' /\ FilesOK' /\ VisitOK' /\ InfoOK' /\ ClientOK' /\ ReadOK' /\ RefreshOK'
    BY <1>6, <2>1 DEF ClockOK, FilesOK, VisitOK, InfoOK, ClientOK, ReadOK, RefreshOK, web
  <2>3. QueueOK'
    <3>1. CASE call.root = AllHosts
      <4>1. queue' = queue
        BY <1>6, <3>1 DEF EnqueuesRoot
      <4> QED BY <1>6, <2>1, <4>1 DEF QueueOK
    <3>2. CASE call.root # AllHosts
      <4>1. Enqueue(FrontPage(call.root), FALSE, now) /\ FrontPage(call.root) \in URLs
        BY <1>4, <1>6, <3>2, FrontPageIs DEF EnqueuesRoot, Roots
      <4>2. now \in 1 .. now
        BY <2>1, ServingAssumption DEF ClockOK
      <4> QED BY <1>6, <2>1, <4>1, <4>2, EnqueueOK
    <3> QED BY <3>1, <3>2
  <2>4. ListenersOK'
    <3>1. CASE UNCHANGED listeners
      BY <2>1, <3>1 DEF ListenersOK
    <3>2. CASE ListenAndServe(call.root, call.port)
      BY <1>4, <2>1, <3>2, ListenOK
    <3> QED BY <1>6, <3>1, <3>2
  <2>5. todo' \in Seq(Calls)
    BY <1>2, <1>6 DEF Shifted
  <2>6. step' \in {"run", "setup"} /\ (step' = "setup" => todo' # <<>>)
    BY <1>6 DEF StepWith
  <2>7. SetupOK'
    BY <1>6, <2>4, <2>5, <2>6 DEF ProgramOK, SetupOK
  <2> QED BY <2>2, <2>3, <2>7 DEF ProgramOK, ServingOK
<1> QED BY <1>5, <1>6, OverOK

\* Every step keeps the invariant.
LEMMA ProgramStep ==
  ASSUME ProgramOK, [ProgramNext]_allVars
  PROVE  ProgramOK'
<1>1. CASE ParseFlag
  BY <1>1, ParseFlagOK
<1>2. CASE ApplyConfig
  BY <1>2, ApplyConfigOK
<1>3. CASE Mirror
  BY <1>3, MirrorOK
<1>4. CASE Interrupt
  <2>1. CASE Over
    BY <2>1, OverOK
  <2>2. CASE step' = "stop" /\ UNCHANGED <<vars, typed, args, config, todo>>
    <3>1. UNCHANGED listeners
      BY <2>2 DEF vars
    <3>2. SetupOK'
      BY <2>2, <3>1 DEF ProgramOK, SetupOK, ListenersOK
    <3> QED BY <2>2, <3>2, ServingSame DEF ProgramOK
  <2> QED BY <1>4, <2>1, <2>2 DEF Interrupt
<1>5. CASE Exit
  BY <1>5, OverOK DEF Exit
<1>6. CASE (Serve \/ Work \/ Tick) /\ UNCHANGED program
  <2>1. ServingOK'
    <3>1. CASE Serve
      BY <3>1, ReplyOK, VisitStepOK, CopyBodyOK, ServeCacheOK, BumpOK, EnqueueExpiredOK,
         PlaceOK, DownloadOK, LeaveOK DEF Serve, ProgramOK
    <3>2. CASE Work
      BY <3>2, WorkOK DEF ProgramOK
    <3>3. CASE Tick
      BY <3>3, TickOK DEF ProgramOK
    <3> QED BY <1>6, <3>1, <3>2, <3>3
  <2>2. UNCHANGED listeners
    BY <1>6 DEF Serve, Reply, Visit, Arrive, CopyBody, ServeCache, Bump, EnqueueExpired, Place,
                Download, Leave, Work, Tick
  <2>3. SetupOK'
    BY <1>6, <2>2 DEF ProgramOK, SetupOK, ListenersOK, program
  <2> QED BY <2>1, <2>3 DEF ProgramOK
<1>7. CASE UNCHANGED allVars
  <2>1. UNCHANGED vars /\ UNCHANGED program /\ UNCHANGED listeners
    BY <1>7 DEF allVars, vars
  <2>2. SetupOK'
    BY <2>1 DEF ProgramOK, SetupOK, ListenersOK, program
  <2> QED BY <2>1, <2>2, ServingSame DEF ProgramOK
<1> QED BY <1>1, <1>2, <1>3, <1>4, <1>5, <1>6, <1>7 DEF ProgramNext

LEMMA ProgramInvariant == ProgramSpec => []ProgramOK
<1>1. ProgramInit => ProgramOK
  BY ProgramInitOK
<1>2. ProgramOK /\ [ProgramNext]_allVars => ProgramOK'
  BY ProgramStep
<1> QED BY <1>1, <1>2, PTL DEF ProgramSpec

LEMMA StoredLines ==
  ASSUME NEW s \in Seq(Stored)
  PROVE  s \in Seq(Lines)
<1>1. Stored \subseteq Lines
  BY DEF Stored
<1> QED BY <1>1, SeqMonotonic

\* The type invariant of the program: two listeners never share a port, whatever is
\* in a cache file or on its way to a visitor consists of lines, and a visit has an
\* error exactly while the engine answers its issue (main.go, web/server.go).
THEOREM ProgramTypeCorrect == ProgramSpec => []TypeOK
<1>1. ASSUME ProgramOK PROVE TypeOK
  <2>1. /\ ClockOK /\ FilesOK /\ QueueOK /\ VisitOK /\ InfoOK /\ ClientOK /\ RefreshOK
        /\ SetupOK
    BY <1>1 DEF ProgramOK, ServingOK
  <2>2. now \in 1 .. MaxTime /\ queue \in Seq([url : URLs, force : BOOLEAN, at : 1 .. MaxTime])
    BY <2>1 DEF ClockOK, QueueOK, Queued
  <2>3. /\ DOMAIN files \subseteq CachePaths
        /\ \A p \in DOMAIN files : files[p] \in Seq(Lines)
    BY <2>1, StoredLines DEF FilesOK, FileOK
  <2>4. /\ visit.phase \in {"none", "copy", "issue", "expiry", "download", "done"}
        /\ visit.phase \notin {"none", "done"} => visit.want \in URLs /\ visit.root \in Roots
        /\ (info.error # "none") = (visit.phase \in {"issue", "download"})
    BY <2>1 DEF VisitOK, Visits
  <2>5. info \in Infos
    BY <2>1, StoredLines DEF InfoOK, StoredInfos, Infos, ScanErrors
  <2>6. client \in [sent : BOOLEAN, status : Nat, headers : Seq(Lines), length : Nat,
                    body : Seq(Lines)]
    BY <2>1, StoredLines DEF ClientOK, Clients
  <2>7. config \in Configs
    BY <2>1 DEF SetupOK
  <2>8. /\ Len(config.urls) \in Nat /\ Len(config.ports) \in Nat /\ Len(args) \in Nat
        /\ Len(typed) \in Nat /\ config.port \in Int /\ config.workers \in Int
    BY <2>1, <2>7, TypedIs DEF Configs, SetupOK
  <2>9. Len(config.urls) <= Len(typed) /\ Len(config.ports) <= Len(typed)
    <3> DEFINE m == Len(config.urls)
               n == Len(config.ports)
               k == Len(args)
               l == Len(typed)
    <3>1. m \in Nat /\ n \in Nat /\ k \in Nat /\ l \in Nat /\ m + n + k <= l
      BY <2>1, <2>8 DEF SetupOK
    <3> HIDE DEF m, n, k, l
    <3>2. m <= l /\ n <= l
      BY <3>1
    <3> QED BY <3>2 DEF m, n, l
  <2>10. refresh \in [Refreshers -> [step : {"idle", "bump", "enqueue"},
                                     url : URLs \cup {"none"}, since : 0 .. MaxTime]]
    BY <2>1 DEF RefreshOK, Refreshes
  <2> QED BY <2>1, <2>2, <2>3, <2>4, <2>5, <2>6, <2>8, <2>9, <2>10 DEF SetupOK, TypeOK
<1> QED BY <1>1, ProgramInvariant, PTL

----------------------------------------------------------------------------
(* NoStampede.  While a refresh of a file waits, in the queue or in the    *)
(* hands of who bumped the file, the file is not said to expire before     *)
(* Bump's time is over, unless a download wrote it in between.             *)

InQueue(u, t) ==
    \E i \in 1 .. Len(queue) : queue[i].force /\ queue[i].url = u /\ queue[i].at = t

InHand(u, t) ==
    \E g \in Refreshers :
        refresh[g].step = "enqueue" /\ refresh[g].url = u /\ refresh[g].since = t

Waits(u, t) == InQueue(u, t) \/ InHand(u, t)

Refreshing ==
    \A u \in URLs, t \in 1 .. MaxTime :
        LET p == CachePath(u)
        IN  Waits(u, t) /\ p \in DOMAIN files /\ p \notin fetched
                => LastsUntil(files[p], t + BumpTTL)

LEMMA LastsLess ==
  ASSUME NEW file, FileOK(file), NEW s \in Nat, NEW t \in Nat, s <= t, LastsUntil(file, t)
  PROVE  LastsUntil(file, s)
<1>1. SUFFICES ASSUME HasDeadline(file) PROVE file[Deadline(file)].num >= s
  BY DEF LastsUntil
<1>2. Deadline(file) \in 1 .. Len(file) /\ file \in Seq(Stored)
  BY <1>1, DeadlineIs DEF HasDeadline, FileOK
<1>3. file[Deadline(file)].num \in Int
  BY <1>2 DEF Stored, Lines
<1> QED BY <1>1, <1>3 DEF LastsUntil

\* A file that no download wrote is as it was, or lasts for Bump's time from now.
FilesKept ==
    \A p \in DOMAIN files' : p \notin fetched' =>
        \/ p \in DOMAIN files /\ p \notin fetched /\ files'[p] = files[p]
        \/ LastsUntil(files'[p], now + BumpTTL)

LEMMA DownloadedFilesKept ==
  ASSUME now \in Nat, NEW u \in URLs, NEW a \in Source[u], OnDownloaded(u, a)
  PROVE  FilesKept
<1>1. CASE UNCHANGED <<files, history>>
  BY <1>1 DEF FilesKept, history
<1>2. ASSUME NEW file, NEW n \in Nat, Stores(u, a, file, n) PROVE FilesKept
  <2>1. Inserts(files, CachePath(u), Prefix(file, n), files')
    BY <1>2, InsertIs DEF Stores
  <2>2. fetched' = fetched \cup {CachePath(u)}
    BY <1>2 DEF Stores
  <2> QED BY <2>1, <2>2 DEF FilesKept, Inserts
<1> QED BY <1>1, <1>2, StoresIs

LEMMA BumpFilesKept ==
  ASSUME ServingOK, NEW g \in Refreshers, Bump(g), MaxTime + BumpTTL < Half
  PROVE  FilesKept
<1>1. PICK p : Bumps(p)
  BY BumpIs
<1>2. FileOK(files[p]) /\ now \in Nat /\ now + BumpTTL < Half
  BY <1>1, ServingAssumption, TimesAssumption DEF Bumps, ServingOK, ClockOK
<1>3. LastsUntil(Bumped(files[p], now), now + BumpTTL)
  BY <1>2, BumpedLasts
<1> QED BY <1>1, <1>3 DEF Bumps, FilesKept

LEMMA PlaceFilesKept ==
  ASSUME ServingOK, Place, MaxTime + BumpTTL < Half
  PROVE  FilesKept
<1> DEFINE p == CachePath(visit.want)
<1>1. CASE files' = files /\ fetched' = fetched
  BY <1>1 DEF FilesKept
<1>2. CASE /\ \E n \in 0 .. 3 : files' = Insert(files, p, Prefix(PlaceholderFile(now), n))
           /\ fetched' \in {fetched, fetched \ {p}}
  <2>1. PICK n \in 0 .. 3 : files' = Insert(files, p, Prefix(PlaceholderFile(now), n))
    BY <1>2
  <2>2. now \in Nat /\ now + BumpTTL < Half
    BY ServingAssumption, TimesAssumption DEF ServingOK, ClockOK
  <2>3. LastsUntil(Prefix(PlaceholderFile(now), n), now + BumpTTL)
    BY <2>2, PlaceholderLasts
  <2>4. Inserts(files, p, Prefix(PlaceholderFile(now), n), files')
    BY <2>1, InsertIs
  <2> HIDE DEF p
  <2> QED BY <1>2, <2>3, <2>4 DEF FilesKept, Inserts
<1> QED BY <1>1, <1>2, PlacedIs

\* The steps that change cache files.
LEMMA FilesChange ==
  ASSUME ProgramOK, [ProgramNext]_allVars
  PROVE  \/ UNCHANGED <<files, good, fetched>> /\ excused \subseteq excused'
         \/ \E g \in Refreshers : Bump(g)
         \/ Place
         \/ \E u \in URLs : \E a \in Source[u] : OnDownloaded(u, a)
<1>1. ServingOK
  BY DEF ProgramOK
<1>2. CASE ParseFlag \/ ApplyConfig
  BY <1>2 DEF ParseFlag, ApplyConfig, vars, history
<1>3. CASE Mirror \/ Interrupt \/ Exit
  BY <1>3 DEF Mirror, Interrupt, Exit, Over, vars, history
<1>4. CASE Work
  BY <1>1, <1>4, WorkIs DEF history
<1>5. CASE Download
  <2>1. visit.want \in URLs
    BY <1>1, <1>5 DEF Download, ServingOK, VisitOK
  <2> QED BY <1>5, <2>1 DEF Download
<1>6. CASE Tick
  BY <1>6 DEF Tick, history
<1>7. CASE \E root \in Roots, what \in DOMAIN Replies : Reply(root, what)
  BY <1>7 DEF Reply, Arrive, history
<1>8. CASE \E root \in Roots, u \in URLs : Visit(root, u)
  BY <1>8 DEF Visit, Arrive, history
<1>9. CASE CopyBody
  BY <1>9 DEF CopyBody
<1>10. CASE Leave
  BY <1>10 DEF Leave, history
<1>11. CASE UNCHANGED allVars
  BY <1>11 DEF allVars, vars, history
<1>12. CASE ServeCache
  BY <1>1, <1>12, HandedOver DEF history
<1>13. CASE \E g \in Refreshers : EnqueueExpired(g)
  BY <1>13 DEF EnqueueExpired, history
<1> QED BY <1>2, <1>3, <1>4, <1>5, <1>6, <1>7, <1>8, <1>9, <1>10, <1>11, <1>12, <1>13
        DEF ProgramNext, Serve

LEMMA FilesStep ==
  ASSUME ProgramOK, [ProgramNext]_allVars, MaxTime + BumpTTL < Half
  PROVE  FilesKept
<1>1. ServingOK /\ now \in Nat
  BY ServingAssumption DEF ProgramOK, ServingOK, ClockOK
<1>2. CASE UNCHANGED <<files, good, fetched>>
  BY <1>2 DEF FilesKept
<1> QED BY <1>1, <1>2, FilesChange, BumpFilesKept, PlaceFilesKept, DownloadedFilesKept

\* A refresh that waits has waited before, or the file it is for was just bumped.
WaitsKept ==
    \A u \in URLs, t \in 1 .. MaxTime : Waits(u, t)' =>
        \/ Waits(u, t)
        \/ t = now /\ LastsUntil(files'[CachePath(u)], now + BumpTTL)

LEMMA ShiftedWaits ==
  ASSUME QueueOK, Shifted(Queued, queue, queue'), NEW u, NEW t, InQueue(u, t)'
  PROVE  InQueue(u, t)
<1>1. PICK i \in 1 .. Len(queue') : queue'[i].force /\ queue'[i].url = u /\ queue'[i].at = t
  BY DEF InQueue
<1>2. i + 1 \in 1 .. Len(queue) /\ queue'[i] = queue[i + 1]
  BY <1>1 DEF Shifted, QueueOK
<1> QED BY <1>1, <1>2 DEF InQueue

LEMMA EnqueuedWaits ==
  ASSUME QueueOK, NEW v \in URLs, NEW force \in BOOLEAN, NEW at \in 1 .. MaxTime,
         Enqueue(v, force, at), NEW u, NEW t, InQueue(u, t)'
  PROVE  InQueue(u, t) \/ (force /\ u = v /\ t = at)
<1> DEFINE e == [url |-> v, force |-> force, at |-> at]
<1>1. Appended(Queued, queue, e, queue')
  BY EnqueueIs
<1>2. e.force = force /\ e.at = at /\ e.url = v
  OBVIOUS
<1> HIDE DEF e
<1>3. PICK i \in 1 .. Len(queue') : queue'[i].force /\ queue'[i].url = u /\ queue'[i].at = t
  BY DEF InQueue
<1>4. CASE i = Len(queue) + 1
  BY <1>1, <1>2, <1>3, <1>4 DEF Appended
<1>5. CASE i # Len(queue) + 1
  <2>1. i \in 1 .. Len(queue)
    BY <1>1, <1>3, <1>5 DEF Appended, QueueOK
  <2> QED BY <1>1, <1>3, <2>1 DEF Appended, InQueue
<1> QED BY <1>4, <1>5

\* Mirror enqueues the front page of a host, to be downloaded if there is no cache.
LEMMA MirrorQueue ==
  ASSUME ProgramOK, Mirror
  PROVE  \/ Over
         \/ queue' = queue /\ refresh' = refresh
         \/ \E u \in URLs : Enqueue(u, FALSE, now) /\ refresh' = refresh
<1>1. todo # <<>> /\ todo \in Seq(Calls)
  BY DEF Mirror, ProgramOK, SetupOK
<1>2. Head(todo).root \in Roots
  <2>1. Head(todo) \in Calls
    BY <1>1, TailIs
  <2> QED BY <2>1 DEF Calls
<1>3. Over \/ (EnqueuesRoot(Head(todo)) /\ refresh' = refresh)
  BY DEF Mirror, web
<1>4. CASE EnqueuesRoot(Head(todo)) /\ Head(todo).root # AllHosts /\ refresh' = refresh
  <2>1. Enqueue(FrontPage(Head(todo).root), FALSE, now) /\ FrontPage(Head(todo).root) \in URLs
    BY <1>2, <1>4, FrontPageIs DEF EnqueuesRoot, Roots
  <2> QED BY <1>4, <2>1
<1>5. CASE EnqueuesRoot(Head(todo)) /\ Head(todo).root = AllHosts /\ refresh' = refresh
  BY <1>5 DEF EnqueuesRoot
<1> QED BY <1>3, <1>4, <1>5

LEMMA WaitsStep ==
  ASSUME ProgramOK, [ProgramNext]_allVars, MaxTime + BumpTTL < Half
  PROVE  WaitsKept
<1>1. ServingOK /\ now \in 1 .. MaxTime /\ now \in Nat /\ ClockOK /\ QueueOK
  BY ServingAssumption DEF ProgramOK, ServingOK, ClockOK
<1>2. SUFFICES ASSUME NEW u \in URLs, NEW t \in 1 .. MaxTime, Waits(u, t)'
               PROVE  \/ Waits(u, t)
                      \/ t = now /\ LastsUntil(files'[CachePath(u)], now + BumpTTL)
  BY DEF WaitsKept
<1>3. CASE UNCHANGED <<queue, refresh>>
  BY <1>2, <1>3 DEF Waits, InQueue, InHand
<1>4. CASE Over
  <2>1. Len(queue') = 0 /\ refresh' = Idle
    BY <1>4 DEF Over, Idle
  <2> QED BY <1>2, <2>1, IdleIs DEF Waits, InQueue, InHand
<1>5. CASE Mirror
  <2>1. ASSUME NEW v \in URLs, Enqueue(v, FALSE, now), refresh' = refresh PROVE Waits(u, t)
    <3>1. InQueue(u, t)' => InQueue(u, t)
      BY <1>1, <2>1, EnqueuedWaits
    <3> QED BY <1>2, <2>1, <3>1 DEF Waits, InHand
  <2> QED BY <1>3, <1>4, <1>5, <2>1, MirrorQueue
<1>6. CASE ServeCache
  <2>1. /\ queue' = queue
        /\ \/ refresh' = refresh
           \/ \E g \in Refreshers :
                 /\ refresh'[g].step = "bump"
                 /\ \A h \in Refreshers : h # g => refresh'[h] = refresh[h]
    BY <1>1, <1>6, HandedOver
  <2>2. ASSUME NEW g \in Refreshers, refresh'[g].step = "bump",
               \A h \in Refreshers : h # g => refresh'[h] = refresh[h]
        PROVE  Waits(u, t)
    BY <1>2, <2>1, <2>2 DEF Waits, InQueue, InHand
  <2> QED BY <1>3, <2>1, <2>2
<1>7. ASSUME NEW g \in Refreshers, Bump(g)
      PROVE  \/ Waits(u, t)
             \/ t = now /\ LastsUntil(files'[CachePath(u)], now + BumpTTL)
  <2>1. PICK p : p = CachePath(refresh[g].url)
    OBVIOUS
  <2>2. /\ refresh[g].url \in URLs /\ Bumps(p)
        /\ refresh' \in [Refreshers -> Refreshes]
        /\ refresh'[g].step = "enqueue" /\ refresh'[g].url = refresh[g].url
        /\ refresh'[g].since = now
        /\ \A h \in Refreshers : h # g => refresh'[h] = refresh[h]
    BY <1>1, <1>7, <2>1, BumpIs
  <2>3. FileOK(files[p]) /\ now + BumpTTL < Half
    BY <1>1, <2>2, ServingAssumption, TimesAssumption DEF Bumps
  <2>4. LastsUntil(files'[p], now + BumpTTL)
    BY <1>1, <2>2, <2>3, BumpedLasts DEF Bumps
  <2>5. queue' = queue
    BY <2>2 DEF Bumps
  <2> QED BY <1>2, <2>1, <2>2, <2>4, <2>5 DEF Waits, InQueue, InHand
<1>8. ASSUME NEW g \in Refreshers, EnqueueExpired(g) PROVE Waits(u, t)
  <2>1. /\ UNCHANGED <<now, listeners, files, visit, info, client, left, history>>
        /\ refresh[g].step = "enqueue" /\ refresh[g].url \in URLs
        /\ refresh[g].since \in 1 .. now /\ refresh[g].since \in 1 .. MaxTime
        /\ Enqueue(refresh[g].url, TRUE, refresh[g].since)
        /\ refresh' \in [Refreshers -> Refreshes] /\ refresh'[g].step = "idle"
        /\ \A h \in Refreshers : h # g => refresh'[h] = refresh[h]
    BY <1>1, <1>8, EnqueueExpiredIs
  <2>2. PICK v, at : v = refresh[g].url /\ at = refresh[g].since
    OBVIOUS
  <2>3. InQueue(u, t)' => InQueue(u, t) \/ (u = v /\ t = at)
    <3>1. v \in URLs /\ at \in 1 .. MaxTime /\ Enqueue(v, TRUE, at)
      BY <2>1, <2>2
    <3> QED BY <1>1, <3>1, EnqueuedWaits
  <2> QED BY <1>2, <2>1, <2>2, <2>3 DEF Waits, InHand
<1>9. CASE Work
  <2>1. Shifted(Queued, queue, queue') /\ refresh' = refresh
    BY <1>1, <1>9, WorkIs DEF web
  <2>2. InQueue(u, t)' => InQueue(u, t)
    BY <1>1, <2>1, ShiftedWaits
  <2> QED BY <1>2, <2>1, <2>2 DEF Waits, InHand
<1>10. \/ UNCHANGED <<queue, refresh>>
       \/ Over \/ Mirror \/ ServeCache \/ Work
       \/ \E g \in Refreshers : Bump(g) \/ EnqueueExpired(g)
  BY DEF ProgramNext, ParseFlag, ApplyConfig, Interrupt, Exit, Serve, Reply, Visit, Arrive,
         CopyBody, Place, Download, Leave, Tick, allVars, vars, web
<1> QED BY <1>3, <1>4, <1>5, <1>6, <1>7, <1>8, <1>9, <1>10

\* What waits was bumped at some time until now.
LEMMA WaitedSince ==
  ASSUME ServingOK, NEW u, NEW t, Waits(u, t)
  PROVE  t <= now
<1>1. ASSUME NEW i \in 1 .. Len(queue), queue[i].at = t PROVE t <= now
  BY <1>1 DEF ServingOK, QueueOK
<1>2. ASSUME NEW g \in Refreshers, refresh[g].step = "enqueue", refresh[g].since = t
      PROVE  t <= now
  BY <1>2 DEF ServingOK, RefreshOK
<1> QED BY <1>1, <1>2 DEF Waits, InQueue, InHand

LEMMA RefreshStep ==
  ASSUME ProgramOK, ProgramOK', Refreshing, FilesKept, WaitsKept
  PROVE  Refreshing'
<1>1. SUFFICES ASSUME NEW u \in URLs, NEW t \in 1 .. MaxTime, NEW p, p = CachePath(u),
                      Waits(u, t)', p \in DOMAIN files', p \notin fetched'
               PROVE  LastsUntil(files'[p], t + BumpTTL)
  BY DEF Refreshing
<1>2. FileOK(files'[p])
  BY <1>1 DEF ProgramOK, ServingOK, FilesOK
<1>3. t \in Nat /\ now \in Nat /\ BumpTTL \in Nat
  BY <1>1, ServingAssumption, TimesAssumption DEF ProgramOK, ServingOK, ClockOK
<1>4. CASE Waits(u, t)
  <2>1. CASE p \in DOMAIN files /\ p \notin fetched /\ files'[p] = files[p]
    BY <1>1, <1>4, <2>1 DEF Refreshing
  <2>2. CASE LastsUntil(files'[p], now + BumpTTL)
    <3>1. t <= now
      BY <1>4, WaitedSince DEF ProgramOK
    <3>2. t + BumpTTL <= now + BumpTTL /\ t + BumpTTL \in Nat /\ now + BumpTTL \in Nat
      BY <1>3, <3>1
    <3> QED BY <1>2, <2>2, <3>2, LastsLess
  <2> QED BY <1>1, <2>1, <2>2 DEF FilesKept
<1>5. CASE t = now /\ LastsUntil(files'[p], now + BumpTTL)
  BY <1>5
<1> QED BY <1>1, <1>4, <1>5 DEF WaitsKept

\* Only a visit of an expired page asks for a refresh.
LEMMA AskedBy ==
  ASSUME ProgramOK, ProgramNext, NEW g \in Refreshers, Asks(g)
  PROVE  ServeCache /\ HasExpired(info)
<1>1. ServingOK
  BY DEF ProgramOK
<1>2. refresh[g].step = "idle" /\ refresh'[g].step = "bump"
  BY DEF Asks
<1>3. refresh' # refresh
  BY <1>2
<1>4. ~Over
  <2>1. Over => refresh' = Idle
    BY DEF Over, Idle
  <2> QED BY <1>2, <2>1, IdleIs
<1>5. ASSUME NEW h \in Refreshers, Bump(h) PROVE FALSE
  BY <1>1, <1>2, <1>5, BumpIs
<1>6. ASSUME NEW h \in Refreshers, EnqueueExpired(h) PROVE FALSE
  BY <1>1, <1>2, <1>6, EnqueueExpiredIs
<1>7. ServeCache
  BY <1>3, <1>4, <1>5, <1>6
     DEF ProgramNext, ParseFlag, ApplyConfig, Mirror, Interrupt, Exit, Serve, Reply, Visit,
         Arrive, CopyBody, Place, Download, Leave, Work, Tick, vars, web
<1> QED BY <1>1, <1>3, <1>7, HandedOver

LEMMA WaitsAt ==
  ASSUME ProgramOK, NEW p, NEW t \in BumpedAt(p)
  PROVE  t \in 1 .. MaxTime /\ \E u \in URLs : CachePath(u) = p /\ Waits(u, t)
<1>1. ServingOK /\ queue \in Seq(Queued) /\ now \in 1 .. MaxTime
  BY DEF ProgramOK, ServingOK, QueueOK, ClockOK
<1>2. \/ \E k \in DOMAIN queue : queue[k].force /\ CachePath(queue[k].url) = p /\ queue[k].at = t
      \/ \E g \in Refreshers : /\ refresh[g].step = "enqueue"
                               /\ CachePath(refresh[g].url) = p /\ refresh[g].since = t
  BY DEF BumpedAt
<1>3. ASSUME NEW k \in DOMAIN queue, queue[k].force, CachePath(queue[k].url) = p, queue[k].at = t
      PROVE  t \in 1 .. MaxTime /\ \E u \in URLs : CachePath(u) = p /\ Waits(u, t)
  <2>1. k \in 1 .. Len(queue) /\ queue[k] \in Queued
    BY <1>1
  <2>2. queue[k].url \in URLs /\ t \in 1 .. MaxTime
    BY <1>3, <2>1 DEF Queued
  <2>3. Waits(queue[k].url, t)
    BY <1>3, <2>1 DEF Waits, InQueue
  <2> QED BY <1>3, <2>2, <2>3
<1>4. ASSUME NEW g \in Refreshers, refresh[g].step = "enqueue",
             CachePath(refresh[g].url) = p, refresh[g].since = t
      PROVE  t \in 1 .. MaxTime /\ \E u \in URLs : CachePath(u) = p /\ Waits(u, t)
  <2>1. refresh[g].url \in URLs /\ t \in 1 .. now
    BY <1>1, <1>4 DEF ServingOK, RefreshOK
  <2>2. Waits(refresh[g].url, t) /\ t \in 1 .. MaxTime
    BY <1>1, <1>4, <2>1, ServingAssumption DEF Waits, InHand
  <2> QED BY <1>4, <2>1, <2>2
<1> QED BY <1>2, <1>3, <1>4

LEMMA StampedeStep ==
  ASSUME ProgramOK, Refreshing, ProgramNext, NEW g \in Refreshers, Asks(g),
         NEW p, p = CachePath(visit.want), NEW t \in BumpedAt(p)
  PROVE  \/ now > t + BumpTTL
         \/ p \in fetched
         \/ info.expires # Opened(visit.root, visit.want).expires
<1>1. ServingOK /\ HasExpired(info) /\ p \in DOMAIN files /\ visit.want \in URLs
  BY AskedBy, HandedOver DEF ProgramOK
<1>2. SUFFICES ASSUME p \notin fetched,
                      info.expires = Opened(visit.root, visit.want).expires
               PROVE  now > t + BumpTTL
  OBVIOUS
<1>3. PICK file : file = files[p] /\ FileOK(file)
  BY <1>1 DEF ServingOK, FilesOK
<1>4. LastsUntil(file, t + BumpTTL)
  BY <1>1, <1>2, <1>3, WaitsAt DEF Refreshing
<1>5. PICK c \in BOOLEAN : c = (visit.root = AllHosts)
  OBVIOUS
<1>6. PICK i : i = Scan(file, c)
  OBVIOUS
<1>7. info.expires = i.expires
  BY <1>1, <1>2, <1>3, <1>5, <1>6 DEF Opened
<1>8. i.expires # <<>> => HasDeadline(file) /\ i.expires[1] = file[Deadline(file)]
  BY <1>3, <1>6, ScanNotes
<1>9. HasDeadline(file) /\ file[Deadline(file)].num < now
  BY <1>1, <1>7, <1>8 DEF HasExpired
<1>10. file[Deadline(file)].num >= t + BumpTTL
  BY <1>4, <1>9 DEF LastsUntil
<1>11. file[Deadline(file)].num \in Int
  <2>1. Deadline(file) \in 1 .. Len(file) /\ file \in Seq(Stored)
    BY <1>3, <1>9, DeadlineIs DEF HasDeadline, FileOK
  <2> QED BY <2>1 DEF Stored, Lines
<1>12. t \in Nat /\ BumpTTL \in Nat /\ now \in Nat
  BY <1>1, WaitsAt, ServingAssumption, TimesAssumption DEF ServingOK, ClockOK
<1> QED BY <1>9, <1>10, <1>11, <1>12

\* Within the times that an int64 of nanoseconds can say, for visitors in any number
\* between whose steps anything may happen: while a refresh of a cache file waits, in
\* the queue or in the hands of who has bumped the file, nobody asks for another, unless
\* Bump's time is over, a download wrote the file in between, or the visitor had read
\* another expiry than the file has by now (ServeHTTPCache of web/server.go, the issue
\* CacheExpired in engine/engine.go, Bump of cacher/cacher.go).
THEOREM NoStampedes ==
  ASSUME MaxTime + BumpTTL < Half
  PROVE  ProgramSpec => NoStampede
<1>1. ProgramInit => Refreshing
  <2>1. ProgramInit => Len(queue) = 0 /\ refresh = Idle
    BY DEF ProgramInit, Init, Idle
  <2> QED BY <2>1, IdleIs DEF Refreshing, Waits, InQueue, InHand
<1>2. ProgramOK /\ ProgramOK' /\ Refreshing /\ [ProgramNext]_allVars => Refreshing'
  BY FilesStep, WaitsStep, RefreshStep
<1>3. ProgramOK /\ Refreshing /\ [ProgramNext]_allVars =>
         [\A g \in Refreshers :
             Asks(g) =>
                 LET p == CachePath(visit.want)
                 IN  \A t \in BumpedAt(p) :
                        \/ now > t + BumpTTL
                        \/ p \in fetched
                        \/ info.expires # Opened(visit.root, visit.want).expires]_allVars
  BY StampedeStep
<1>4. ProgramSpec => []Refreshing
  BY <1>1, <1>2, ProgramInvariant, PTL DEF ProgramSpec
<1> QED BY <1>3, <1>4, ProgramInvariant, PTL DEF ProgramSpec, NoStampede

----------------------------------------------------------------------------
(* WrittenFresh.                                                           *)

LEMMA LifetimeAllowed ==
  ASSUME NEW a \in Answers, now \in Nat
  PROVE  Lifetime(a, now) \in Allowance(a)
<1> DEFINE e == Answer[a].expires - now
           m == Answer[a].maxAge
<1>1. e \in Int /\ m \in Nat
  BY AnswerIs
<1>2. e > 0 <=> Answer[a].expires > now
  BY AnswerIs
<1>3. Lifetime(a, now) = CASE e > 0 -> e
                           [] ~(e > 0) /\ m > 0 -> m
                           [] OTHER -> DefaultTTL
  BY <1>2, AnswerIs DEF Lifetime
<1>4. Allowance(a) = LET named == {e, m} \cap (Nat \ {0})
                     IN  IF named = {} THEN {DefaultTTL} ELSE named
  BY DEF Allowance
<1> HIDE DEF e, m
<1>5. CASE e > 0
  BY <1>1, <1>3, <1>4, <1>5
<1>6. CASE ~(e > 0) /\ m > 0
  BY <1>1, <1>3, <1>4, <1>6
<1>7. CASE ~(e > 0) /\ ~(m > 0)
  BY <1>1, <1>3, <1>4, <1>7
<1> QED BY <1>5, <1>6, <1>7

\* Who reads as far as the header of a file that a download writes has read when it
\* expires.
LEMMA WrittenExpires ==
  ASSUME now \in Nat, NEW u \in URLs, NEW a \in Answers, NEW file, WrittenBy(file, u, a, now),
         NEW n \in 0 .. Len(file), NEW g, g = Prefix(file, n),
         NEW i \in 1 .. n, g[i].key = "meta"
  PROVE  /\ g[i].of[2] = a
         /\ The("expires", g) = LET ttl == Lifetime(a, now)
                                IN  IF ttl > 0 THEN <<ExpiresLine(now + ttl)>> ELSE <<>>
<1> DEFINE ttl == Lifetime(a, now)
<1>1. PICK b \in Nat : WrittenTo(file, u, a, now, b)
  BY DEF WrittenBy
<1>2. /\ file \in Seq(Stored) /\ g \in Seq(Stored) /\ Len(g) = n /\ Len(file) \in Nat
      /\ \A j \in 1 .. n : g[j] = file[j]
  BY PrefixIs DEF WrittenBy
<1>3. /\ file[1].key = "status" /\ file[b].key = "blank" /\ b \in 2 .. Len(file)
      /\ \A j \in 2 .. b - 1 : file[j].key = "expires" => j = 2 /\ ttl > 0
      /\ \A j \in 2 .. b - 1 : file[j].key = "meta" => file[j].of[2] = a
      /\ \A j \in b + 1 .. Len(file) : file[j].key = "body"
      /\ ttl > 0 => file[2] = ExpiresLine(now + ttl)
  <2>1. file[1].key = "status"
    BY DEF WrittenBy, Plain, Line
  <2>2. file[b].key = "blank"
    BY <1>1 DEF WrittenTo, Blank, Plain, Line
  <2> QED BY <1>1, <2>1, <2>2 DEF WrittenTo
<1>4. i \in 2 .. b - 1 /\ g[i] = file[i] /\ n \in Nat
  <2>1. g[i] = file[i] /\ n \in Nat /\ file[i].key = "meta" /\ i \in 1 .. Len(file)
    BY <1>2
  <2>2. i # 1 /\ i # b /\ i \notin b + 1 .. Len(file)
    BY <1>3, <2>1
  <2> QED BY <1>2, <2>1, <2>2
<1>5. g[i].of[2] = a
  BY <1>3, <1>4
<1>6. ttl \in Nat
  BY LifetimeIs
<1> HIDE DEF ttl
<1>7. CASE ttl > 0
  <2>1. ExpiresLine(now + ttl).key = "expires"
    BY <1>6, ExpiresLineIs
  <2>2. 2 \in 1 .. Len(g) /\ g[2] = ExpiresLine(now + ttl) /\ g[1] = file[1]
    BY <1>2, <1>3, <1>4, <1>7
  <2>3. g[2].key \in {"expires"} /\ \A j \in 1 .. 2 - 1 : g[j].key \notin {"expires"}
    BY <1>3, <2>1, <2>2
  <2>4. Position({"expires"}, g) = 2
    BY <1>2, <2>2, <2>3, PositionAt
  <2>5. The("expires", g) = <<g[2]>>
    BY <2>4 DEF The
  <2> QED BY <1>5, <1>7, <2>2, <2>5 DEF ttl
<1>8. CASE ~(ttl > 0)
  <2>1. ASSUME NEW j \in 1 .. Len(g) PROVE g[j].key # "expires"
    <3>1. g[j] = file[j] /\ (j = 1 \/ j \in 2 .. b - 1 \/ j = b \/ j \in b + 1 .. Len(file))
      BY <1>2, <1>3
    <3> QED BY <1>3, <1>8, <3>1
  <2>2. PICK k : k = Position({"expires"}, g)
    OBVIOUS
  <2>3. k = 0
    <3>1. k \in 0 .. Len(g) /\ (k # 0 => g[k].key \in {"expires"})
      BY <1>2, <2>2, PositionIs
    <3> QED BY <1>2, <2>1, <3>1
  <2>4. The("expires", g) = <<>>
    BY <2>2, <2>3 DEF The
  <2> QED BY <1>5, <1>8, <2>4 DEF ttl
<1> QED BY <1>6, <1>7, <1>8

LEMMA PlaceholderHasNoMeta ==
  ASSUME NEW t \in Nat, NEW n \in 0 .. 3, NEW g, g = Prefix(PlaceholderFile(t), n),
         NEW i \in DOMAIN g
  PROVE  g[i].key # "meta"
<1>1. PICK file : file = PlaceholderFile(t)
  OBVIOUS
<1>2. /\ file \in Seq(Stored) /\ Len(file) = 3 /\ n \in 0 .. Len(file)
      /\ file[1] = PlaceholderStatus /\ file[2] = ExpiresLine(t + BumpTTL) /\ file[3] = Blank
  BY <1>1, PlaceholderIs DEF FileOK
<1>3. g \in Seq(Stored) /\ Len(g) = n /\ \A j \in 1 .. n : g[j] = file[j]
  BY <1>1, <1>2, PrefixIs
<1>4. /\ file[1].key = "status" /\ file[2].key = "expires" /\ file[3].key = "blank"
  BY <1>2, ExpiresLineIs, TimesAssumption DEF PlaceholderStatus, Blank, Plain, Line
<1>5. i \in 1 .. n /\ (i = 1 \/ i = 2 \/ i = 3) /\ g[i] = file[i]
  BY <1>3
<1> QED BY <1>4, <1>5

LEMMA FreshStep ==
  ASSUME ProgramOK, [ProgramNext]_allVars, UNCHANGED refresh,
         NEW p \in DOMAIN files', p \notin DOMAIN files \/ files'[p] # files[p],
         NEW i \in DOMAIN files'[p], files'[p][i].key = "meta"
  PROVE  \E ttl \in Allowance(files'[p][i].of[2]) :
             The("expires", files'[p]) = IF ttl > 0 THEN <<ExpiresLine(now + ttl)>> ELSE <<>>
<1>1. ServingOK /\ now \in Nat
  BY ServingAssumption DEF ProgramOK, ServingOK, ClockOK
<1>2. files' # files
  OBVIOUS
<1>3. ASSUME Place PROVE FALSE
  <2>1. PICK n \in 0 .. 3 :
           files' = Insert(files, CachePath(visit.want), Prefix(PlaceholderFile(now), n))
    BY <1>1, <1>2, <1>3, PlacedIs
  <2>2. Inserts(files, CachePath(visit.want), Prefix(PlaceholderFile(now), n), files')
    BY <2>1, InsertIs
  <2>3. files'[p] = Prefix(PlaceholderFile(now), n)
    BY <2>2 DEF Inserts
  <2> QED BY <1>1, <2>3, PlaceholderHasNoMeta
<1>4. PICK u \in URLs : \E a \in Source[u] : OnDownloaded(u, a)
  <2>1. ASSUME NEW g \in Refreshers, Bump(g) PROVE FALSE
    <3>1. refresh[g].step = "bump" /\ refresh'[g].step = "enqueue"
      BY <1>1, <2>1, BumpIs DEF Bump
    <3> QED BY <3>1
  <2> QED BY <1>2, <1>3, <2>1, FilesChange
<1>5. PICK a \in Source[u] : OnDownloaded(u, a)
  BY <1>4
<1>6. a \in Answers
  BY NamesAssumption
<1>7. PICK file : \E n \in Nat : Stores(u, a, file, n)
  BY <1>1, <1>2, <1>5, StoresIs
<1>8. PICK n \in Nat : Stores(u, a, file, n)
  BY <1>7
<1>9. WrittenBy(file, u, a, now) /\ n \in 0 .. Len(file) /\ file \in Seq(Stored)
  BY <1>8 DEF Stores, WrittenBy
<1>10. PICK g : g = Prefix(file, n)
  OBVIOUS
<1>11. files'[p] = g
  <2>1. Inserts(files, CachePath(u), g, files')
    BY <1>8, <1>10, InsertIs DEF Stores
  <2> QED BY <2>1 DEF Inserts
<1>12. i \in 1 .. n
  <2>1. g \in Seq(Stored) /\ Len(g) = n
    BY <1>9, <1>10, PrefixIs
  <2> QED BY <1>11, <2>1
<1>13. /\ g[i].of[2] = a
       /\ The("expires", g) = LET ttl == Lifetime(a, now)
                              IN  IF ttl > 0 THEN <<ExpiresLine(now + ttl)>> ELSE <<>>
  BY <1>1, <1>6, <1>9, <1>10, <1>11, <1>12, WrittenExpires
<1>14. Lifetime(a, now) \in Allowance(a)
  BY <1>1, <1>6, LifetimeAllowed
<1> QED BY <1>11, <1>13, <1>14

\* Every file that a download writes, whole or as much as the disk takes, says that it
\* expires when the source allows (WriteHTTPCachingHeaders of cacher/http.go).
THEOREM FilesAreWrittenFresh == ProgramSpec => WrittenFresh
<1>1. ProgramOK /\ [ProgramNext]_allVars =>
        [UNCHANGED refresh =>
          \A p \in DOMAIN files' : p \notin DOMAIN files \/ files'[p] # files[p] =>
              \A i \in DOMAIN files'[p] : files'[p][i].key = "meta" =>
                  \E ttl \in Allowance(files'[p][i].of[2]) :
                      \/ now + ttl >= Half
                      \/ The("expires", files'[p])
                             = IF ttl > 0 THEN <<ExpiresLine(now + ttl)>> ELSE <<>>]_allVars
  BY FreshStep
<1> QED BY <1>1, ProgramInvariant, PTL DEF ProgramSpec, WrittenFresh

----------------------------------------------------------------------------
(* GoodKept.                                                               *)

LEMMA BlankIs ==
  ASSUME NEW file \in Seq(Stored), NEW b, b = Position({"blank"}, file)
  PROVE  /\ b \in 0 .. Len(file)
         /\ b = 0 => \A i \in 1 .. Len(file) : file[i].key # "blank"
         /\ b # 0 => file[b].key = "blank" /\ \A i \in 1 .. b - 1 : file[i].key # "blank"
<1>1. /\ b \in 0 .. Len(file)
      /\ b = 0 => \A i \in 1 .. Len(file) : file[i].key \notin {"blank"}
      /\ b # 0 => file[b].key \in {"blank"} /\ \A i \in 1 .. b - 1 : file[i].key \notin {"blank"}
  BY PositionIs
<1> QED BY <1>1

LEMMA BlankAt ==
  ASSUME NEW file \in Seq(Stored), NEW b \in 1 .. Len(file),
         file[b].key = "blank", \A i \in 1 .. b - 1 : file[i].key # "blank"
  PROVE  Position({"blank"}, file) = b
<1>1. file[b].key \in {"blank"} /\ \A i \in 1 .. b - 1 : file[i].key \notin {"blank"}
  OBVIOUS
<1> QED BY <1>1, PositionAt

\* A good file, by its blank line.
GoodAt(file, b) ==
    /\ b \in 1 .. Len(file) /\ file[b].key = "blank"
    /\ \A i \in 1 .. b - 1 : file[i].key # "blank"
    /\ file[1] # PlaceholderStatus
    /\ file[1].num \in 1 .. 499
    /\ \A i \in 1 .. b : file[i].key = "length" => file[i].num = Len(file) - b

LEMMA GoodIs ==
  ASSUME NEW file \in Seq(Stored)
  PROVE  /\ IsGood(file) => \E b \in Nat : GoodAt(file, b)
         /\ \A b \in Nat : GoodAt(file, b) => IsGood(file)
<1>1. (file = <<>> <=> Len(file) = 0) /\ Len(file) \in Nat
  OBVIOUS
<1>2. ASSUME IsGood(file) PROVE \E b \in Nat : GoodAt(file, b)
  <2>1. PICK b : b = Position({"blank"}, file)
    OBVIOUS
  <2>2. /\ file[1] # PlaceholderStatus /\ file[1].num \in 1 .. 499 /\ b # 0
        /\ \A i \in 1 .. b : file[i].key = "length" => file[i].num = Len(file) - b
    BY <1>2, <2>1 DEF IsGood, IsCache
  <2>3. /\ b \in 1 .. Len(file) /\ file[b].key = "blank"
        /\ \A i \in 1 .. b - 1 : file[i].key # "blank"
    BY <1>1, <2>1, <2>2, BlankIs
  <2>4. GoodAt(file, b)
    BY <2>2, <2>3 DEF GoodAt
  <2>5. b \in Nat
    BY <1>1, <2>3
  <2> QED BY <2>4, <2>5
<1>3. ASSUME NEW b \in Nat, GoodAt(file, b) PROVE IsGood(file)
  <2>1. Position({"blank"}, file) = b
    BY <1>3, BlankAt DEF GoodAt
  <2>2. file # <<>> /\ b # 0
    BY <1>1, <1>3 DEF GoodAt
  <2> QED BY <1>3, <2>1, <2>2 DEF GoodAt, IsGood, IsCache
<1> QED BY <1>2, <1>3

\* A response that is written whole is good unless the answer is bad or a 204.
LEMMA WrittenGood ==
  ASSUME NEW file, NEW u \in URLs, NEW a \in Answers, NEW t, WrittenBy(file, u, a, t),
         ~IsBad(a), Answer[a].status # 204
  PROVE  IsGood(file)
<1>1. PICK b \in Nat : WrittenTo(file, u, a, t, b)
  BY DEF WrittenBy
<1>2. file \in Seq(Stored) /\ Len(file) \in Nat /\ file[1] = Plain("status", Answer[a].status)
  BY DEF WrittenBy
<1>3. file[1].key = "status" /\ file[1].num = Answer[a].status
  BY <1>2 DEF Plain, Line
<1>4. file[1].num \in 1 .. 499 /\ file[1] # PlaceholderStatus
  <2>1. PlaceholderStatus.num = 204
    BY DEF PlaceholderStatus, Plain, Line
  <2>2. Answer[a].status \in Nat /\ Answer[a].status # 0 /\ ~(Answer[a].status >= 500)
    BY AnswerIs DEF IsBad
  <2>3. file[1].num \in 1 .. 499 /\ file[1].num # 204
    BY <1>3, <2>2
  <2> QED BY <2>1, <2>3
<1>5. b \in 2 .. Len(file) /\ file[b].key = "blank" /\ Len(file) - b = Answer[a].length
  BY <1>1, <1>2, AnswerIs DEF WrittenTo, Blank, Plain, Line
<1>6. ASSUME NEW i \in 1 .. b - 1
      PROVE  file[i].key # "blank" /\ (file[i].key = "length" => file[i].num = Answer[a].length)
  <2>1. CASE i = 1
    BY <1>3, <2>1
  <2>2. CASE i \in 2 .. b - 1
    BY <1>1, <2>2 DEF WrittenTo
  <2> QED BY <2>1, <2>2
<1>7. \A i \in 1 .. b : file[i].key = "length" => file[i].num = Len(file) - b
  BY <1>5, <1>6
<1>8. GoodAt(file, b)
  BY <1>4, <1>5, <1>6, <1>7 DEF GoodAt
<1> QED BY <1>2, <1>8, GoodIs

LEMMA ReplacedGood ==
  ASSUME NEW file, FileOK(file), NEW g, FileOK(g), Len(g) = Len(file),
         NEW k \in 2 .. Len(file), file[k].key = "expires", g[k].key = "expires",
         \A i \in 1 .. Len(file) : i # k => g[i] = file[i], IsGood(file)
  PROVE  IsGood(g)
<1>1. file \in Seq(Stored) /\ g \in Seq(Stored) /\ Len(file) \in Nat
  BY DEF FileOK
<1>2. PICK b \in Nat : GoodAt(file, b)
  BY <1>1, GoodIs
<1>3. /\ b \in 1 .. Len(file) /\ file[b].key = "blank"
      /\ \A i \in 1 .. b - 1 : file[i].key # "blank"
      /\ file[1] # PlaceholderStatus /\ file[1].num \in 1 .. 499
      /\ \A i \in 1 .. b : file[i].key = "length" => file[i].num = Len(file) - b
  BY <1>2 DEF GoodAt
<1>4. g[1] = file[1] /\ g[b] = file[b]
  BY <1>1, <1>3
<1>5. \A i \in 1 .. b - 1 : g[i].key # "blank"
  BY <1>1, <1>3
<1>6. \A i \in 1 .. b : g[i].key = "length" => g[i].num = Len(g) - b
  BY <1>1, <1>3
<1>7. GoodAt(g, b)
  BY <1>3, <1>4, <1>5, <1>6 DEF GoodAt
<1> QED BY <1>1, <1>7, GoodIs

\* Bump makes no file good, and keeps a good one that says when it expires.
LEMMA BumpedGood ==
  ASSUME NEW file, FileOK(file), NEW t \in Nat, NEW g, g = Bumped(file, t)
  PROVE  /\ IsGood(g) => IsGood(file)
         /\ HasDeadline(file) /\ IsGood(file) => IsGood(g)
<1>1. CASE ~HasDeadline(file)
  <2>1. g = PlaceholderFile(t) /\ g[1] = PlaceholderStatus
    BY <1>1, BumpedIs, PlaceholderIs
  <2>2. ~IsGood(g)
    BY <2>1 DEF IsGood, IsCache
  <2> QED BY <1>1, <2>2
<1>2. CASE HasDeadline(file)
  <2>1. PICK k : k = Deadline(file)
    OBVIOUS
  <2>2. PICK e : e = ExpiresLine(t + BumpTTL)
    OBVIOUS
  <2>3. /\ FileOK(g) /\ Len(g) = Len(file) /\ k \in 2 .. Len(file)
        /\ \A i \in 1 .. Len(file) : g[i] = IF i = k THEN e ELSE file[i]
    <3>1. FileOK(g) /\ Replaced(file, k, e, g)
      BY <1>2, <2>1, <2>2, BumpedIs
    <3> QED BY <3>1 DEF Replaced
  <2>4. Len(file) \in Nat
    BY DEF FileOK
  <2>5. k \in 1 .. Len(file) /\ k \in 2 .. Len(g)
    BY <2>3, <2>4
  <2>6. file[k].key = "expires" /\ g[k].key = "expires"
    BY <1>2, <2>1, <2>2, <2>3, <2>5, ExpiresLineIs, TimesAssumption DEF HasDeadline
  <2>7. /\ \A i \in 1 .. Len(file) : i # k => g[i] = file[i]
        /\ \A i \in 1 .. Len(g) : i # k => file[i] = g[i]
    BY <2>3
  <2>8. IsGood(file) => IsGood(g)
    BY <2>3, <2>6, <2>7, ReplacedGood
  <2>9. IsGood(g) => IsGood(file)
    BY <2>3, <2>5, <2>6, <2>7, ReplacedGood
  <2> QED BY <2>8, <2>9
<1> QED BY <1>1, <1>2

\* A good file is read without an error, but for a reference to another host, and has
\* the body that its header announces.
LEMMA ScanGood ==
  ASSUME NEW file, FileOK(file), NEW c \in BOOLEAN, NEW i, i = Scan(file, c), IsGood(file)
  PROVE  /\ i.error \in {"none", "crossHostRef"}
         /\ i.error = "none" => i.length = 0 \/ Len(i.body) = i.length
<1>1. file \in Seq(Stored) /\ Len(file) \in Nat
  BY DEF FileOK
<1>2. PICK b \in Nat : GoodAt(file, b)
  BY <1>1, GoodIs
<1>3. /\ b \in 1 .. Len(file) /\ file[b].key = "blank"
      /\ \A j \in 1 .. b - 1 : file[j].key # "blank"
      /\ \A j \in 1 .. b : file[j].key = "length" => file[j].num = Len(file) - b
  BY <1>2 DEF GoodAt
<1>4. PICK k : k = Stop(file, c)
  OBVIOUS
<1>5. /\ k \in 0 .. Len(file) /\ k # 0
      /\ \A j \in 1 .. k - 1 : file[j].key # "blank"
  BY <1>1, <1>3, <1>4, StopIs
<1>6. /\ i.error \in ScanErrors /\ i.error # "noStatusCode" /\ i.error # "brokenHeader"
      /\ i.error = "none" => file[k].key = "blank" /\ i.body = Rest(file, k)
  BY <1>1, <1>3, <1>4, <1>5, ScanStops
<1>7. ASSUME i.error = "none", i.length # 0 PROVE Len(i.body) = i.length
  <2>1. k = b
    <3>1. file[k].key = "blank" /\ file[b].key = "blank"
      BY <1>3, <1>6, <1>7
    <3>2. ~(k < b)
      <4>1. k < b => k \in 1 .. b - 1
        BY <1>3, <1>5
      <4> QED BY <1>3, <3>1, <4>1
    <3>3. ~(b < k)
      <4>1. b < k => b \in 1 .. k - 1
        BY <1>3, <1>5
      <4> QED BY <1>5, <3>1, <4>1
    <3> QED BY <1>3, <1>5, <3>2, <3>3
  <2>2. Len(i.body) = Len(file) - b
    <3>1. i.body = Rest(file, b) /\ b \in 0 .. Len(file)
      BY <1>5, <1>6, <1>7, <2>1
    <3> QED BY <1>1, <3>1, RestIs
  <2>3. PICK header : header = HeaderOf(file, c)
    OBVIOUS
  <2>4. Len(header) = k - 1
    BY <1>1, <1>4, <1>5, <2>3, HeaderIs
  <2>5. PICK j \in 1 .. Len(header) : file[j].key = "length" /\ file[j].num = i.length
    BY <1>7, <2>3, ScanNotes
  <2>6. j \in 1 .. b
    BY <1>3, <2>1, <2>4, <2>5
  <2> QED BY <1>3, <2>2, <2>5, <2>6
<1> QED BY <1>6, <1>7 DEF ScanErrors

GoodOK == good \ excused \subseteq GoodPaths

\* A visit of a good file has an issue only with references to other hosts.
IssueOK ==
    visit.phase = "issue" /\ info.error # "crossHostRef" =>
        CachePath(visit.want) \in excused \/ CachePath(visit.want) \notin GoodPaths

\* The body of a good file is passed on whole.
CopyOK ==
    visit.phase = "copy" =>
        /\ client = NothingSent
        /\ CachePath(visit.want) \in GoodPaths =>
              info.length = 0 \/ Len(info.body) = info.length

GoodInv == GoodOK /\ IssueOK /\ CopyOK

LEMMA DownloadedGood ==
  ASSUME ClockOK, FilesOK, GoodOK, NEW u \in URLs, NEW a \in Source[u], OnDownloaded(u, a)
  PROVE  GoodOK'
<1> DEFINE p == CachePath(u)
<1>1. a \in Answers /\ now \in Nat
  BY NamesAssumption, ServingAssumption DEF ClockOK
<1>2. CASE UNCHANGED <<files, left, history>>
  BY <1>2 DEF GoodOK, GoodPaths, history
<1>3. ASSUME ~Keeps(u, a), NEW file, NEW n \in Nat, Stores(u, a, file, n)
      PROVE  GoodOK'
  <2>1. /\ WrittenBy(file, u, a, now) /\ file \in Seq(Stored)
        /\ \/ n = Len(file) /\ excused' = excused
           \/ excused' = excused \cup {p}
        /\ good' = CASE IsGood(file) -> good \cup {p}
                     [] Answer[a].status = 204 -> good \ {p}
                     [] OTHER -> good
    BY <1>3 DEF Stores, WrittenBy
  <2>2. PICK g : g = Prefix(file, n)
    OBVIOUS
  <2>3. Inserts(files, p, g, files')
    BY <1>3, <2>2, InsertIs DEF Stores
  <2>4. p \in good' => p \in excused' \/ p \in GoodPaths'
    <3>1. SUFFICES ASSUME p \in good', p \notin excused' PROVE p \in GoodPaths'
      OBVIOUS
    <3>2. n = Len(file) /\ g = file /\ excused' = excused
      BY <2>1, <2>2, <3>1, PrefixAll
    <3>3. p \in DOMAIN files' /\ files'[p] = file
      BY <2>3, <3>2 DEF Inserts
    <3>4. IsGood(file)
      <4>1. SUFFICES ASSUME ~IsGood(file) PROVE FALSE
        OBVIOUS
      <4>2. Answer[a].status # 204 /\ p \in good
        BY <2>1, <3>1, <4>1
      <4>3. IsBad(a)
        BY <1>1, <2>1, <4>1, <4>2, WrittenGood
      <4>4. ~CacheExists(u)
        BY <1>3, <4>3 DEF Keeps
      <4>5. p \notin GoodPaths
        BY <4>4 DEF CacheExists, GoodPaths, IsGood
      <4> QED BY <3>1, <3>2, <4>2, <4>5 DEF GoodOK
    <3> QED BY <3>3, <3>4 DEF GoodPaths
  <2>5. ASSUME NEW q \in good', q \notin excused', q # p PROVE q \in GoodPaths'
    <3>1. q \in good /\ q \notin excused
      BY <2>1, <2>5
    <3>2. q \in DOMAIN files /\ IsGood(files[q])
      BY <3>1 DEF GoodOK, GoodPaths
    <3>3. q \in DOMAIN files' /\ files'[q] = files[q]
      BY <2>3, <2>5, <3>2 DEF Inserts
    <3> QED BY <3>2, <3>3 DEF GoodPaths
  <2> QED BY <2>4, <2>5 DEF GoodOK
<1> QED BY <1>1, <1>2, <1>3, StoresIs

LEMMA BumpGood ==
  ASSUME ServingOK, GoodInv, NEW g \in Refreshers, Bump(g)
  PROVE  GoodInv'
<1>1. PICK p : Bumps(p)
  BY BumpIs
<1>2. now \in Nat
  BY ServingAssumption DEF ServingOK, ClockOK
<1>3. PICK file, f : file = files[p] /\ f = Bumped(file, now)
  OBVIOUS
<1>4. /\ IsGood(f) => IsGood(file)
      /\ HasDeadline(file) /\ IsGood(file) => IsGood(f)
  BY <1>1, <1>2, <1>3, BumpedGood DEF Bumps
<1>5. excused \subseteq excused' /\ good' = good /\ UNCHANGED <<visit, info, client>>
  BY <1>1 DEF Bumps
<1>6. GoodPaths' \subseteq GoodPaths
  BY <1>1, <1>3, <1>4 DEF Bumps, GoodPaths
<1>7. ASSUME NEW q \in GoodPaths, q \notin excused' PROVE q \in GoodPaths'
  <2>1. CASE q = p
    <3>1. HasDeadline(file)
      BY <1>1, <1>3, <1>7, <2>1 DEF Bumps
    <3> QED BY <1>1, <1>3, <1>4, <1>7, <2>1, <3>1 DEF Bumps, GoodPaths
  <2>2. CASE q # p
    BY <1>1, <1>7, <2>2 DEF Bumps, GoodPaths
  <2> QED BY <2>1, <2>2
<1>8. GoodOK'
  BY <1>5, <1>7 DEF GoodInv, GoodOK
<1>9. IssueOK' /\ CopyOK'
  BY <1>5, <1>6 DEF GoodInv, IssueOK, CopyOK
<1> QED BY <1>8, <1>9 DEF GoodInv

LEMMA PlaceGood ==
  ASSUME ServingOK, GoodOK, IssueOK, Place
  PROVE  GoodOK'
<1> DEFINE p == CachePath(visit.want)
<1>1. good' = good /\ visit.phase = "issue"
  BY PlacedIs
<1>2. excused \subseteq excused'
  BY DEF Place
<1>3. p \in excused' \/ p \notin GoodPaths
  <2>1. excused' = excused \cup {p} \/ (excused' = excused /\ info.error # "crossHostRef")
    BY DEF Place
  <2> QED BY <1>1, <2>1 DEF IssueOK
<1>4. CASE files' = files
  BY <1>1, <1>2, <1>4 DEF GoodOK, GoodPaths
<1>5. CASE \E n \in 0 .. 3 : files' = Insert(files, p, Prefix(PlaceholderFile(now), n))
  <2>1. PICK n \in 0 .. 3 : files' = Insert(files, p, Prefix(PlaceholderFile(now), n))
    BY <1>5
  <2>2. Inserts(files, p, Prefix(PlaceholderFile(now), n), files')
    BY <2>1, InsertIs
  <2> HIDE DEF p
  <2>3. ASSUME NEW q \in good', q \notin excused' PROVE q \in GoodPaths'
    <3>1. q \in GoodPaths
      BY <1>1, <1>2, <2>3 DEF GoodOK
    <3>2. q # p
      BY <1>3, <2>3, <3>1
    <3> QED BY <2>2, <3>1, <3>2 DEF GoodPaths, Inserts
  <2> QED BY <2>3 DEF GoodOK
<1> QED BY <1>4, <1>5, PlacedIs

\* What a visitor gets of a body that is not longer than the header says.
LEMMA SentIs ==
  ASSUME NEW i \in StoredInfos, NEW lines \in Seq(Stored), Len(lines) <= i.length,
         NEW c, c = WithBody(WithHeader(NothingSent, i), lines)
  PROVE  /\ c.sent /\ c.status = (IF i.status = 0 THEN 200 ELSE i.status)
         /\ c.headers = i.headers /\ c.length = i.length /\ c.body = lines
<1> DEFINE h == WithHeader(NothingSent, i)
           none == <<>>
           all == Joined(none, lines)
<1>1. lines \in Seq(Stored) /\ Len(lines) \in Nat /\ i.length \in Nat
      /\ none \in Seq(Stored) /\ Len(none) = 0
  BY DEF StoredInfos
<1>2. /\ h.sent /\ h.status = (IF i.status = 0 THEN 200 ELSE i.status)
      /\ h.headers = i.headers /\ h.length = i.length /\ h.body = none /\ h \in Clients
  <2>1. h \in Clients
    BY NothingOK, WithHeaderOK
  <2> QED BY <2>1 DEF WithHeader, NothingSent
<1>3. c = [h EXCEPT !.body = IF Len(all) <= h.length THEN all ELSE SubSeq(all, 1, h.length)]
  BY <1>2 DEF WithBody, Joined
<1> HIDE DEF none, h
<1>4. Joins(Stored, none, lines, all)
  BY <1>1, JoinedIs
<1> HIDE DEF all
<1>5. all = lines
  <2>1. all \in Seq(Stored) /\ Len(all) = Len(lines)
    BY <1>1, <1>4 DEF Joins
  <2>2. ASSUME NEW n \in 1 .. Len(lines) PROVE all[n] = lines[n]
    <3>1. all[0 + n] = lines[n] /\ 0 + n = n
      BY <1>1, <1>4 DEF Joins
    <3> QED BY <3>1
  <2> QED BY <2>1, <2>2, SeqEqual
<1>6. c = [h EXCEPT !.body = lines]
  BY <1>2, <1>3, <1>5
<1> QED BY <1>2, <1>6 DEF Clients

LEMMA CopyBodyGood ==
  ASSUME ServingOK, GoodInv, CopyBody
  PROVE  GoodInv'
<1> DEFINE p == CachePath(visit.want)
<1>1. /\ UNCHANGED <<files, good>> /\ visit.phase = "copy"
      /\ visit \in Visits /\ info \in StoredInfos /\ client \in Clients
      /\ client = NothingSent
      /\ p \in GoodPaths => info.length = 0 \/ Len(info.body) = info.length
  BY DEF CopyBody, ServingOK, VisitOK, InfoOK, ClientOK, GoodInv, CopyOK
<1> DEFINE copied == IF info.length = 0 THEN client
                     ELSE WithBody(WithHeader(client, info), info.body)
           fails == Len(copied.body) < info.length
<1>2. p \in GoodPaths => ~fails
  <2>1. CASE info.length = 0
    <3>1. Len(client.body) \in Nat
      BY <1>1 DEF Clients
    <3>2. copied = client
      BY <2>1
    <3> HIDE DEF copied
    <3> QED BY <2>1, <3>1, <3>2
  <2>2. CASE info.length # 0 /\ Len(info.body) = info.length
    <3>1. info.length \in Nat /\ info.body \in Seq(Stored) /\ Len(info.body) <= info.length
      BY <1>1, <2>2 DEF StoredInfos
    <3>2. copied = WithBody(WithHeader(NothingSent, info), info.body)
      BY <1>1, <2>2
    <3> HIDE DEF copied
    <3>3. copied.body = info.body
      BY <1>1, <3>1, <3>2, SentIs
    <3> QED BY <2>2, <3>1, <3>3
  <2> QED BY <1>1, <2>1, <2>2
<1>3. \/ /\ visit' = [visit EXCEPT !.phase = IF fails THEN "issue" ELSE "expiry", !.mixed = fails]
         /\ excused' = excused
      \/ /\ visit' = [visit EXCEPT !.phase = "issue", !.mixed = TRUE]
         /\ excused' = excused \cup {p}
  BY DEF CopyBody
<1> HIDE DEF fails
<1>4. visit'.want = visit.want /\ visit'.phase \in {"issue", "expiry"}
  BY <1>1, <1>3 DEF Visits
<1>5. GoodOK'
  BY <1>1, <1>3 DEF GoodInv, GoodOK, GoodPaths
<1>6. IssueOK'
  <2>1. visit'.phase = "issue" => p \in excused' \/ fails
    BY <1>1, <1>3 DEF Visits
  <2>2. GoodPaths' = GoodPaths
    BY <1>1 DEF GoodPaths
  <2> QED BY <1>2, <1>4, <2>1, <2>2 DEF IssueOK
<1>7. CopyOK'
  BY <1>4 DEF CopyOK
<1> QED BY <1>5, <1>6, <1>7 DEF GoodInv

LEMMA VisitGood ==
  ASSUME ServingOK, GoodInv, NEW root \in Roots, NEW u \in URLs, Visit(root, u)
  PROVE  GoodInv'
<1> DEFINE p == CachePath(u)
<1>1. /\ UNCHANGED <<files, good, excused>> /\ client' = NothingSent
      /\ info' = Opened(root, u) /\ visit'.want = u
  BY DEF Visit, Arrive, history
<1>2. GoodOK' /\ GoodPaths' = GoodPaths
  BY <1>1 DEF GoodInv, GoodOK, GoodPaths
<1>3. PICK i : i = info'
  OBVIOUS
<1>4. /\ p \in DOMAIN files => i = Scan(files[p], root = AllHosts)
      /\ visit'.phase = IF i.error = "none" THEN "copy" ELSE "issue"
  BY <1>1, <1>3, OpenedIs DEF ServingOK, Visit
<1>5. ASSUME p \in GoodPaths
      PROVE  /\ i.error \in {"none", "crossHostRef"}
             /\ i.error = "none" => i.length = 0 \/ Len(i.body) = i.length
  <2>1. PICK file : file = files[p] /\ FileOK(file) /\ IsGood(file)
    BY <1>5 DEF ServingOK, FilesOK, GoodPaths
  <2>2. PICK c \in BOOLEAN : i = Scan(file, c)
    BY <1>4, <1>5, <2>1 DEF GoodPaths
  <2> QED BY <2>1, <2>2, ScanGood
<1>6. IssueOK' /\ CopyOK'
  BY <1>1, <1>2, <1>3, <1>4, <1>5 DEF IssueOK, CopyOK
<1> QED BY <1>2, <1>6 DEF GoodInv

LEMMA GoodStep ==
  ASSUME ProgramOK, GoodInv, [ProgramNext]_allVars
  PROVE  GoodInv'
<1>1. ServingOK /\ GoodInv /\ GoodOK /\ IssueOK /\ ClockOK /\ FilesOK
  BY DEF ProgramOK, ServingOK, GoodInv
<1>2. CASE CopyBody
  BY <1>1, <1>2, CopyBodyGood
<1>3. CASE \E root \in Roots, u \in URLs : Visit(root, u)
  BY <1>1, <1>3, VisitGood
<1>4. CASE UNCHANGED <<visit, info, client>> /\ UNCHANGED <<files, good, excused>>
  BY <1>4 DEF GoodInv, GoodOK, IssueOK, CopyOK, GoodPaths
<1>5. GoodOK'
  <2>1. CASE UNCHANGED <<files, good, fetched>> /\ excused \subseteq excused'
    BY <1>1, <2>1 DEF GoodOK, GoodPaths
  <2>2. CASE \E g \in Refreshers : Bump(g)
    BY <1>1, <2>2, BumpGood DEF GoodInv
  <2> QED BY <1>1, <2>1, <2>2, FilesChange, PlaceGood, DownloadedGood
<1>6. ASSUME visit'.phase \notin {"copy", "issue"} PROVE GoodInv'
  BY <1>5, <1>6 DEF GoodInv, IssueOK, CopyOK
<1>7. visit \in Visits
  BY <1>1 DEF ServingOK, VisitOK
<1>8. ASSUME NEW c, Answered(c) PROVE visit'.phase = "done"
  BY <1>7, <1>8 DEF Answered, Visits
<1>9. CASE ServeCache \/ Download
  BY <1>6, <1>8, <1>9 DEF ServeCache, Download
<1>10. CASE Place
  <2>1. visit' = [visit EXCEPT !.phase = "download"] => visit'.phase = "download"
    BY <1>7 DEF Visits
  <2> QED BY <1>6, <1>8, <1>10, <2>1 DEF Place
<1>11. CASE Leave \/ Over
  BY <1>6, <1>11 DEF Leave, Over, NoVisit
<1>12. CASE \E root \in Roots, what \in DOMAIN Replies : Reply(root, what)
  BY <1>6, <1>12 DEF Reply, NoVisit
<1>13. CASE Work
  <2>1. visit.phase = "none" /\ visit' = visit
    BY <1>1, <1>13, WorkIs DEF web
  <2> QED BY <1>6, <2>1
<1>14. CASE Tick \/ ParseFlag \/ ApplyConfig \/ UNCHANGED allVars
  BY <1>4, <1>14 DEF Tick, ParseFlag, ApplyConfig, allVars, vars, web, history
<1>15. CASE Mirror \/ Interrupt \/ Exit
  BY <1>4, <1>11, <1>15 DEF Mirror, Interrupt, Exit, vars, web, history
<1>16. CASE \E g \in Refreshers : Bump(g)
  BY <1>1, <1>16, BumpGood
<1>17. CASE \E g \in Refreshers : EnqueueExpired(g)
  BY <1>4, <1>17 DEF EnqueueExpired, history
<1> QED BY <1>2, <1>3, <1>9, <1>10, <1>11, <1>12, <1>13, <1>14, <1>15, <1>16, <1>17
        DEF ProgramNext, Serve

\* A good cache stays, also when the source gives bad answers or none, unless the disk
\* failed, a visitor left in the middle of the page, a page with references to other
\* hosts was asked for where one host is served, or a Bump came when a download had
\* written a page that never expires (onDownloaded, downloadAndServe and the issue
\* CacheExpired of engine/engine.go, Bump of cacher/cacher.go).
THEOREM GoodFilesKept == ProgramSpec => []GoodKept
<1>1. ProgramInit => GoodInv
  <2>1. ProgramInit => good = {} /\ visit.phase = "none"
    BY DEF ProgramInit, Init, NoVisit
  <2> QED BY <2>1 DEF GoodInv, GoodOK, IssueOK, CopyOK
<1>2. ProgramOK /\ GoodInv /\ [ProgramNext]_allVars => GoodInv'
  BY GoodStep
<1>3. GoodInv => GoodKept
  BY DEF GoodInv, GoodOK, GoodKept
<1> QED BY <1>1, <1>2, <1>3, ProgramInvariant, PTL DEF ProgramSpec

----------------------------------------------------------------------------
(* AnswersWhole.                                                           *)

\* A line of the header of the answer a for u.
HeaderLine(l, u, a) ==
    /\ l.key \in {"expires", "meta", "crossRef", "length"}
    /\ l.key = "meta" => HasMeta(a) /\ l = MetaOf(u, a)
    /\ l.key = "length" => l.num = Answer[a].length

\* The beginning of a file of the answer a for u, with its blank line at b, and with any
\* deadline.
PartOf(file, u, a, b) ==
    /\ Len(file) <= b + Answer[a].length
    /\ Len(file) > 0 => file[1] = Plain("status", Answer[a].status)
    /\ \A i \in 2 .. Len(file) : i < b => HeaderLine(file[i], u, a)
    /\ \A i \in 2 .. Len(file) : i = b => file[i].key = "blank"
    /\ \A i \in 2 .. Len(file) : i > b => file[i] = BodyLine(u, a, i - b)
    /\ b <= Len(file) /\ HasMeta(a) => \E i \in 2 .. b - 1 : file[i].key = "meta"
    /\ b <= Len(file) /\ Answer[a].length > 0 => \E i \in 2 .. b - 1 : file[i].key = "length"

\* The beginning of a placeholder, with any deadline.
PartOfPlaceholder(file) ==
    /\ Len(file) <= 3
    /\ Len(file) > 0 => file[1] = PlaceholderStatus
    /\ Len(file) > 1 => file[2].key = "expires"
    /\ Len(file) > 2 => file[3].key = "blank"

\* What the file of the name p may hold: one answer for a url of that name, at most.
Holds(file, p) ==
    \/ PartOfPlaceholder(file)
    \/ \E u \in URLs, a \in Answers, b \in Nat :
          CachePath(u) = p /\ b >= 2 /\ PartOf(file, u, a, b)

FilesHold == \A p \in DOMAIN files : Holds(files[p], p)

\* A visit read the answer a for v, up to some line of the body.
Finds(i, v, a) ==
    /\ i.status = Answer[a].status
    /\ i.headers = MetaLines(v, a)
    /\ i.length = Answer[a].length
    /\ Len(i.body) <= Answer[a].length
    /\ \A n \in 1 .. Len(i.body) : i.body[n] = BodyLine(v, a, n)

FindsPlaceholder(i) == i.status = 204 /\ i.headers = <<>> /\ i.length = 0

Found(i, u) ==
    \/ FindsPlaceholder(i)
    \/ \E v \in URLs, a \in Answers : Alike(u, v) /\ Finds(i, v, a)

\* What c has is an answer to u, or an empty placeholder.
Whole(c, u) ==
    \/ \E v \in URLs, a \in Answers : Alike(u, v) /\ IsAnswer(c, v, a)
    \/ c.status = 204 /\ c.headers = <<>> /\ c.body = <<>>

BudgetOK == left \in [EnvironmentNames -> Nat] /\ left["fault"] <= Budget["fault"]

\* What was sent and is to be sent, phase by phase.
VisitWhole ==
    /\ visit.phase = "copy" => client = NothingSent /\ Found(info, visit.want)
    /\ visit.phase = "expiry" => Whole(WithHeader(client, info), visit.want)
    /\ visit.phase \in {"issue", "download"} /\ ~visit.mixed =>
          client = NothingSent /\ info.headers = <<>> /\ info.status \in ErrorStatuses

WholeInv == FilesHold /\ BudgetOK /\ VisitWhole /\ AnswersWhole

LEMMA WrittenPart ==
  ASSUME NEW file, NEW u \in URLs, NEW a \in Answers, NEW t, WrittenBy(file, u, a, t)
  PROVE  \E b \in Nat : b >= 2 /\ PartOf(file, u, a, b)
<1>1. PICK b \in Nat : WrittenTo(file, u, a, t, b)
  BY DEF WrittenBy
<1>2. /\ file \in Seq(Stored) /\ Len(file) \in Nat
      /\ file[1] = Plain("status", Answer[a].status)
  BY DEF WrittenBy
<1>3. b \in 2 .. Len(file) /\ Len(file) = b + Answer[a].length
  BY <1>1 DEF WrittenTo
<1>4. ASSUME NEW i \in 2 .. Len(file), i < b PROVE HeaderLine(file[i], u, a)
  <2>1. i \in 2 .. b - 1
    BY <1>2, <1>3, <1>4
  <2>2. /\ file[i].key \in Keys \ {"blank", "body", "status"}
        /\ file[i].key = "length" => file[i].num = Answer[a].length
        /\ file[i].key = "meta" => HasMeta(a) /\ file[i] = MetaOf(u, a)
    BY <1>1, <2>1 DEF WrittenTo
  <2> QED BY <2>2 DEF HeaderLine, Keys
<1>5. file[b].key = "blank"
  BY <1>1 DEF WrittenTo, Blank, Plain, Line
<1>6. ASSUME NEW i \in 2 .. Len(file), i > b PROVE file[i] = BodyLine(u, a, i - b)
  <2>1. i \in b + 1 .. Len(file)
    BY <1>2, <1>3, <1>6
  <2> QED BY <1>1, <2>1 DEF WrittenTo
<1>7. /\ HasMeta(a) => \E i \in 2 .. b - 1 : file[i].key = "meta"
      /\ Answer[a].length > 0 => \E i \in 2 .. b - 1 : file[i].key = "length"
  BY <1>1 DEF WrittenTo
<1>8. Len(file) <= b + Answer[a].length
  BY <1>2, <1>3
<1>9. PartOf(file, u, a, b)
  BY <1>2, <1>4, <1>5, <1>6, <1>7, <1>8 DEF PartOf
<1> QED BY <1>3, <1>9

LEMMA PrefixPart ==
  ASSUME NEW file \in Seq(Stored), NEW u \in URLs, NEW a \in Answers, NEW b \in Nat,
         PartOf(file, u, a, b), NEW n \in 0 .. Len(file)
  PROVE  PartOf(Prefix(file, n), u, a, b)
<1>1. PICK g : g = Prefix(file, n)
  OBVIOUS
<1>2. Len(g) = n /\ \A i \in 1 .. n : g[i] = file[i]
  BY <1>1, PrefixIs
<1>3. Len(file) \in Nat /\ n <= Len(file) /\ Answer[a].length \in Nat
  BY AnswerIs
<1>4. Len(g) <= b + Answer[a].length
  BY <1>2, <1>3 DEF PartOf
<1>5. Len(g) > 0 => g[1] = Plain("status", Answer[a].status)
  BY <1>2, <1>3 DEF PartOf
<1>6. ASSUME NEW i \in 2 .. Len(g)
      PROVE  /\ i < b => HeaderLine(g[i], u, a)
             /\ i = b => g[i].key = "blank"
             /\ i > b => g[i] = BodyLine(u, a, i - b)
  <2>1. i \in 2 .. Len(file) /\ g[i] = file[i]
    BY <1>2, <1>3
  <2> QED BY <2>1 DEF PartOf
<1>7. ASSUME b <= Len(g)
      PROVE  /\ HasMeta(a) => \E i \in 2 .. b - 1 : g[i].key = "meta"
             /\ Answer[a].length > 0 => \E i \in 2 .. b - 1 : g[i].key = "length"
  <2>1. b <= Len(file)
    BY <1>2, <1>3, <1>7
  <2>2. \A i \in 2 .. b - 1 : g[i] = file[i]
    BY <1>2, <1>3, <1>7
  <2> QED BY <2>1, <2>2 DEF PartOf
<1>8. PartOf(g, u, a, b)
  BY <1>4, <1>5, <1>6, <1>7 DEF PartOf
<1> QED BY <1>1, <1>8

LEMMA PlaceholderPart ==
  ASSUME NEW t \in Nat, NEW n \in 0 .. 3
  PROVE  PartOfPlaceholder(Prefix(PlaceholderFile(t), n))
<1>1. PICK file : file = PlaceholderFile(t)
  OBVIOUS
<1>2. /\ file \in Seq(Stored) /\ Len(file) = 3 /\ file[1] = PlaceholderStatus
      /\ file[2].key = "expires" /\ file[3].key = "blank"
  <2>1. FileOK(file) /\ Len(file) = 3 /\ file[1] = PlaceholderStatus
        /\ file[2] = ExpiresLine(t + BumpTTL) /\ file[3] = Blank
    BY <1>1, PlaceholderIs
  <2>2. ExpiresLine(t + BumpTTL).key = "expires" /\ Blank.key = "blank"
    BY ExpiresLineIs, TimesAssumption DEF Blank, Plain, Line
  <2> QED BY <2>1, <2>2 DEF FileOK
<1>3. PICK g : g = Prefix(file, n)
  OBVIOUS
<1>4. n \in 0 .. Len(file) /\ n \in Nat
  BY <1>2
<1>5. Len(g) = n /\ \A i \in 1 .. n : g[i] = file[i]
  BY <1>2, <1>3, <1>4, PrefixIs
<1>6. /\ n > 0 => g[1] = file[1]
      /\ n > 1 => g[2] = file[2]
      /\ n > 2 => g[3] = file[3]
  BY <1>4, <1>5
<1>7. PartOfPlaceholder(g)
  BY <1>2, <1>4, <1>5, <1>6 DEF PartOfPlaceholder
<1> QED BY <1>1, <1>3, <1>7

\* Bump leaves of an answer what it was, but for the deadline.
LEMMA BumpedHolds ==
  ASSUME NEW file, FileOK(file), NEW p, Holds(file, p), NEW t \in Nat
  PROVE  Holds(Bumped(file, t), p)
<1>1. PICK g : g = Bumped(file, t)
  OBVIOUS
<1>2. PICK e : e = ExpiresLine(t + BumpTTL)
  OBVIOUS
<1>3. file \in Seq(Stored) /\ Len(file) \in Nat /\ e.key = "expires"
  BY <1>2, ExpiresLineIs, TimesAssumption DEF FileOK
<1>4. CASE ~HasDeadline(file)
  <2>1. g = PlaceholderFile(t)
    BY <1>1, <1>4, BumpedIs
  <2>2. FileOK(g) /\ Len(g) = 3
    BY <2>1, PlaceholderIs
  <2>3. Prefix(g, 3) = g
    BY <2>2, PrefixAll DEF FileOK
  <2>4. PartOfPlaceholder(g)
    BY <2>1, <2>3, PlaceholderPart
  <2> QED BY <1>1, <2>4 DEF Holds
<1>5. CASE HasDeadline(file)
  <2>1. PICK k : k = Deadline(file)
    OBVIOUS
  <2>2. /\ Len(g) = Len(file) /\ k \in 2 .. Len(file)
        /\ \A i \in 1 .. Len(file) : g[i] = IF i = k THEN e ELSE file[i]
    <3>1. Replaced(file, k, e, g)
      BY <1>1, <1>2, <1>5, <2>1, BumpedIs
    <3> QED BY <3>1 DEF Replaced
  <2>3. file[k].key = "expires"
    BY <1>5, <2>1 DEF HasDeadline
  <2>4. CASE PartOfPlaceholder(file)
    <3>1. PartOfPlaceholder(g)
      BY <1>3, <2>2, <2>3, <2>4 DEF PartOfPlaceholder
    <3> QED BY <1>1, <3>1 DEF Holds
  <2>5. ASSUME NEW u \in URLs, NEW a \in Answers, NEW b \in Nat,
               CachePath(u) = p, b >= 2, PartOf(file, u, a, b)
        PROVE  Holds(g, p)
    <3>1. Len(g) <= b + Answer[a].length
      BY <2>2, <2>5 DEF PartOf
    <3>2. Len(g) > 0 => g[1] = Plain("status", Answer[a].status)
      BY <1>3, <2>2, <2>5 DEF PartOf
    <3>3. k < b
      <4>1. k = b => file[k].key = "blank"
        BY <2>2, <2>5 DEF PartOf
      <4>2. k > b => file[k].key = "body"
        <5>1. k > b => file[k] = BodyLine(u, a, k - b)
          BY <2>2, <2>5 DEF PartOf
        <5> QED BY <5>1 DEF BodyLine, Line
      <4> QED BY <1>3, <2>2, <2>3, <4>1, <4>2
    <3>4. ASSUME NEW i \in 2 .. Len(g)
          PROVE  /\ i < b => HeaderLine(g[i], u, a)
                 /\ i = b => g[i].key = "blank"
                 /\ i > b => g[i] = BodyLine(u, a, i - b)
      <4>1. CASE i = k
        <5>1. g[i] = e /\ i < b
          BY <1>3, <2>2, <3>3, <4>1
        <5>2. HeaderLine(e, u, a)
          BY <1>3 DEF HeaderLine
        <5> QED BY <1>3, <2>2, <5>1, <5>2
      <4>2. CASE i # k
        <5>1. g[i] = file[i] /\ i \in 2 .. Len(file)
          BY <1>3, <2>2, <4>2
        <5> QED BY <2>5, <5>1 DEF PartOf
      <4> QED BY <4>1, <4>2
    <3>5. ASSUME NEW key \in {"meta", "length"}, b <= Len(g),
                 \E i \in 2 .. b - 1 : file[i].key = key
          PROVE  \E i \in 2 .. b - 1 : g[i].key = key
      <4>1. PICK i \in 2 .. b - 1 : file[i].key = key
        BY <3>5
      <4>2. i # k /\ i \in 1 .. Len(file)
        BY <1>3, <2>2, <2>3, <3>5, <4>1
      <4>3. g[i] = file[i]
        BY <2>2, <4>2
      <4> QED BY <4>1, <4>3
    <3>6. /\ b <= Len(g) /\ HasMeta(a) => \E i \in 2 .. b - 1 : g[i].key = "meta"
          /\ b <= Len(g) /\ Answer[a].length > 0 => \E i \in 2 .. b - 1 : g[i].key = "length"
      BY <2>2, <2>5, <3>5 DEF PartOf
    <3>7. PartOf(g, u, a, b)
      BY <3>1, <3>2, <3>4, <3>6 DEF PartOf
    <3> QED BY <2>5, <3>7 DEF Holds
  <2> QED BY <1>1, <2>4, <2>5 DEF Holds
<1> QED BY <1>4, <1>5

\* What a visit reads of an answer is that answer.
LEMMA ScanFinds ==
  ASSUME NEW file, FileOK(file), NEW c \in BOOLEAN, NEW i, i = Scan(file, c), i.error = "none",
         NEW u \in URLs, NEW a \in Answers, NEW b \in Nat, b >= 2, PartOf(file, u, a, b)
  PROVE  Finds(i, u, a)
<1>1. file \in Seq(Stored) /\ Len(file) \in Nat /\ Answer[a].length \in Nat
  BY AnswerIs DEF FileOK
<1>2. PICK k : k = Stop(file, c)
  OBVIOUS
<1>3. /\ k \in 1 .. Len(file) /\ file[k].key = "blank"
      /\ \A j \in 1 .. k - 1 : file[j].key # "blank"
  <2>1. /\ k \in 0 .. Len(file)
        /\ k # 0 => \A j \in 1 .. k - 1 : file[j].key # "blank"
    BY <1>1, <1>2, StopIs
  <2>2. k # 0 /\ file[k].key = "blank"
    BY <1>2, ScanStops
  <2> QED BY <2>1, <2>2
<1>4. i.body = Rest(file, k) /\ i.status = file[1].num
  BY <1>2, ScanStops
<1>5. file[1].key = "status" /\ file[1].num = Answer[a].status
  <2>1. file[1] = Plain("status", Answer[a].status)
    BY <1>1, <1>3 DEF PartOf
  <2> QED BY <2>1 DEF Plain, Line
<1>6. ASSUME NEW j \in 2 .. Len(file), j < b
      PROVE  /\ HeaderLine(file[j], u, a) /\ file[j].key # "blank"
             /\ file[j].key = "meta" => HasMeta(a) /\ file[j] = MetaOf(u, a)
             /\ file[j].key = "length" => file[j].num = Answer[a].length
  BY <1>6 DEF PartOf, HeaderLine
<1>7. k = b
  <2>1. k \in 2 .. Len(file)
    BY <1>1, <1>3, <1>5
  <2>2. ~(k < b)
    BY <1>3, <1>6, <2>1
  <2>3. ~(b < k)
    <3>1. SUFFICES ASSUME b < k PROVE FALSE
      OBVIOUS
    <3>2. b \in 2 .. Len(file) /\ b \in 1 .. k - 1
      BY <1>1, <2>1, <3>1
    <3>3. file[b].key = "blank"
      BY <3>2 DEF PartOf
    <3> QED BY <1>3, <3>2, <3>3
  <2> QED BY <2>1, <2>2, <2>3
<1>8. PICK header : header = HeaderOf(file, c)
  OBVIOUS
<1>9. /\ header \in Seq(Stored) /\ Len(header) = b - 1
      /\ \A j \in 1 .. b - 1 : header[j] = file[j]
  <2>1. Stop(file, c) = b /\ b # 0
    BY <1>2, <1>7
  <2>2. /\ header \in Seq(Stored)
        /\ Len(header) = IF Stop(file, c) = 0 THEN Len(file) ELSE Stop(file, c) - 1
        /\ \A j \in 1 .. Len(header) : header[j] = file[j]
    BY <1>1, <1>8, HeaderIs
  <2> QED BY <2>1, <2>2
<1>10. ASSUME NEW j \in 1 .. b - 1, file[j].key # "status"
       PROVE  /\ file[j].key = "meta" => HasMeta(a) /\ file[j] = MetaOf(u, a)
              /\ file[j].key = "length" => file[j].num = Answer[a].length
  <2>1. j \in 2 .. Len(file) /\ j < b
    BY <1>1, <1>3, <1>5, <1>7, <1>10
  <2> QED BY <1>6, <2>1
<1>11. i.headers = MetaLines(u, a)
  <2>1. PICK x, y, m : x = i.headers /\ y = MetaLines(u, a) /\ m = Position({"meta"}, header)
    OBVIOUS
  <2>2. x = The("meta", header)
    BY <1>8, <2>1, ScanNotes
  <2>3. /\ x \in Seq(Stored)
        /\ m = 0 => x = <<>>
        /\ m # 0 => Len(x) = 1 /\ x[1] = header[m]
    BY <1>9, <2>1, <2>2, TheIs
  <2>4. /\ m = 0 => \A j \in 1 .. b - 1 : file[j].key # "meta"
        /\ m # 0 => m \in 1 .. b - 1 /\ header[m] = file[m] /\ file[m].key = "meta"
    <3>1. /\ m \in 0 .. b - 1
          /\ m = 0 => \A j \in 1 .. b - 1 : header[j].key \notin {"meta"}
          /\ m # 0 => header[m].key \in {"meta"}
      BY <1>9, <2>1, PositionIs
    <3> QED BY <1>9, <3>1
  <2>5. y \in Seq(Stored) /\ Len(y) = (IF HasMeta(a) THEN 1 ELSE 0)
        /\ \A j \in 1 .. Len(y) : y[j] = MetaOf(u, a)
    BY <2>1, MetaIs DEF AtMost
  <2>6. CASE HasMeta(a)
    <3>1. m # 0
      <4>1. PICK j \in 2 .. b - 1 : file[j].key = "meta"
        BY <1>3, <1>7, <2>6 DEF PartOf
      <4> QED BY <2>4, <4>1
    <3>2. Len(x) = 1 /\ x[1] = MetaOf(u, a)
      BY <1>10, <2>3, <2>4, <3>1
    <3>3. Len(y) = 1 /\ y[1] = MetaOf(u, a)
      BY <2>5, <2>6
    <3>4. \A j \in 1 .. Len(x) : x[j] = y[j]
      BY <3>2, <3>3
    <3>5. x = y
      BY <2>3, <2>5, <3>2, <3>3, <3>4, SeqEqual
    <3> QED BY <2>1, <3>5
  <2>7. CASE ~HasMeta(a)
    <3>1. m = 0
      BY <1>10, <2>4, <2>7
    <3>2. x = <<>>
      BY <2>3, <3>1
    <3>3. y = <<>>
      BY <2>5, <2>7
    <3> QED BY <2>1, <3>2, <3>3
  <2> QED BY <2>6, <2>7
<1>12. i.length = Answer[a].length
  <2>1. \/ \E j \in 1 .. Len(header) : file[j].key = "length" /\ file[j].num = i.length
        \/ i.length = 0 /\ \A j \in 1 .. Len(header) : file[j].key # "length"
    BY <1>8, ScanNotes
  <2>2. CASE \E j \in 1 .. Len(header) : file[j].key = "length" /\ file[j].num = i.length
    <3>1. PICK j \in 1 .. b - 1 : file[j].key = "length" /\ file[j].num = i.length
      BY <1>9, <2>2
    <3> QED BY <1>10, <3>1
  <2>3. CASE i.length = 0 /\ \A j \in 1 .. Len(header) : file[j].key # "length"
    <3>1. ASSUME Answer[a].length > 0 PROVE FALSE
      <4>1. PICK j \in 2 .. b - 1 : file[j].key = "length"
        BY <1>3, <1>7, <3>1 DEF PartOf
      <4> QED BY <1>9, <2>3, <4>1
    <3> QED BY <1>1, <2>3, <3>1
  <2> QED BY <2>1, <2>2, <2>3
<1>13. /\ Len(i.body) <= Answer[a].length
       /\ \A n \in 1 .. Len(i.body) : i.body[n] = BodyLine(u, a, n)
  <2>1. PICK r : r = i.body
    OBVIOUS
  <2>2. Len(r) = Len(file) - b /\ \A n \in 1 .. Len(file) - b : r[n] = file[b + n]
    <3>1. b \in 0 .. Len(file) /\ r = Rest(file, b)
      BY <1>3, <1>4, <1>7, <2>1
    <3> QED BY <1>1, <3>1, RestIs
  <2>3. Len(r) <= Answer[a].length
    BY <1>1, <2>2 DEF PartOf
  <2>4. ASSUME NEW n \in 1 .. Len(r) PROVE r[n] = BodyLine(u, a, n)
    <3>1. PICK j : j = b + n
      OBVIOUS
    <3>2. j \in 2 .. Len(file) /\ j > b /\ j - b = n
      BY <1>1, <2>2, <3>1
    <3>3. file[j] = BodyLine(u, a, j - b)
      BY <3>2 DEF PartOf
    <3> QED BY <2>2, <3>1, <3>2, <3>3
  <2> QED BY <2>1, <2>3, <2>4
<1> QED BY <1>4, <1>5, <1>11, <1>12, <1>13 DEF Finds

LEMMA ScanPlaceholder ==
  ASSUME NEW file, FileOK(file), NEW c \in BOOLEAN, NEW i, i = Scan(file, c), i.error = "none",
         PartOfPlaceholder(file)
  PROVE  FindsPlaceholder(i)
<1>1. file \in Seq(Stored) /\ Len(file) \in Nat
  BY DEF FileOK
<1>2. PICK k : k = Stop(file, c)
  OBVIOUS
<1>3. k \in 1 .. Len(file) /\ file[k].key = "blank" /\ i.status = file[1].num
  <2>1. k \in 0 .. Len(file)
    BY <1>1, <1>2, StopIs
  <2>2. k # 0 /\ file[k].key = "blank" /\ i.status = file[1].num
    BY <1>2, ScanStops
  <2> QED BY <2>1, <2>2
<1>4. file[1].key = "status" /\ file[1].num = 204
  <2>1. file[1] = PlaceholderStatus
    BY <1>1, <1>3 DEF PartOfPlaceholder
  <2> QED BY <2>1 DEF PlaceholderStatus, Plain, Line
<1>5. k = 3 /\ file[2].key = "expires"
  BY <1>1, <1>3, <1>4 DEF PartOfPlaceholder
<1>6. PICK header : header = HeaderOf(file, c)
  OBVIOUS
<1>7. header \in Seq(Stored) /\ Len(header) = 2 /\ \A j \in 1 .. 2 : header[j] = file[j]
  <2>1. Stop(file, c) = 3
    BY <1>2, <1>5
  <2>2. /\ header \in Seq(Stored)
        /\ Len(header) = IF Stop(file, c) = 0 THEN Len(file) ELSE Stop(file, c) - 1
        /\ \A j \in 1 .. Len(header) : header[j] = file[j]
    BY <1>1, <1>6, HeaderIs
  <2> QED BY <2>1, <2>2
<1>8. \A j \in 1 .. 2 : file[j].key \in {"status", "expires"}
  BY <1>4, <1>5
<1>9. i.headers = <<>>
  <2>1. PICK m : m = Position({"meta"}, header)
    OBVIOUS
  <2>2. m \in 0 .. 2 /\ (m # 0 => header[m].key \in {"meta"})
    BY <1>7, <2>1, PositionIs
  <2>3. m = 0
    BY <1>7, <1>8, <2>2
  <2>4. PICK x : x = The("meta", header)
    OBVIOUS
  <2>5. /\ x \in Seq(Stored)
        /\ m = 0 => x = <<>>
        /\ m # 0 => Len(x) = 1 /\ x[1] = header[m]
    BY <1>7, <2>1, <2>4, TheIs
  <2>6. i.headers = x
    BY <1>6, <2>4, ScanNotes
  <2> QED BY <2>3, <2>5, <2>6
<1>10. i.length = 0
  <2>1. \/ \E j \in 1 .. Len(header) : file[j].key = "length" /\ file[j].num = i.length
        \/ i.length = 0 /\ \A j \in 1 .. Len(header) : file[j].key # "length"
    BY <1>6, ScanNotes
  <2> QED BY <1>7, <1>8, <2>1
<1> QED BY <1>3, <1>4, <1>9, <1>10 DEF FindsPlaceholder

\* Urls that share a file are alike.
LEMMA AlikeIs ==
  ASSUME NEW u \in URLs, NEW v \in URLs, CachePath(u) = CachePath(v)
  PROVE  Alike(u, v)
<1> DEFINE S == STRING \cup {SafeName(n) : n \in STRING}
<1>1. PICK p : p = Parts[u].path
  OBVIOUS
<1>2. PICK x : x = SafeNames(Parts[u].query)
  OBVIOUS
<1>3. PICK y : y = SafeNames(Parts[v].query)
  OBVIOUS
<1>4. /\ SafeName(Parts[u].site) = SafeName(Parts[v].site) /\ Parts[v].path = p
      /\ Joined(p, x) = Joined(p, y)
  BY <1>1, <1>2, <1>3 DEF CachePath, Joined
<1>5. p \in Seq(S) /\ x \in Seq(S) /\ y \in Seq(S)
  <2>1. Seq(STRING) \subseteq Seq(S)
    BY SeqMonotonic
  <2>2. p \in Seq(STRING) /\ Parts[u].query \in Seq(STRING) /\ Parts[v].query \in Seq(STRING)
    BY <1>1, NamesAssumption
  <2>3. ASSUME NEW q \in Seq(STRING) PROVE SafeNames(q) \in Seq(S)
    <3>1. SafeNames(q) = [j \in 1 .. Len(q) |-> SafeName(q[j])] /\ Len(q) \in Nat
      BY DEF SafeNames
    <3>2. \A j \in 1 .. Len(q) : SafeName(q[j]) \in S
      BY ElementOfSeq
    <3>3. SafeNames(q) \in [1 .. Len(q) -> S]
      BY <3>1, <3>2
    <3> QED BY <3>1, <3>3, SeqDef
  <2> QED BY <1>2, <1>3, <2>1, <2>2, <2>3
<1> HIDE DEF S
<1>6. PICK z : z = Joined(p, x)
  OBVIOUS
<1>7. Joins(S, p, x, z) /\ Joins(S, p, y, z)
  BY <1>4, <1>5, <1>6, JoinedIs
<1>8. Len(p) \in Nat /\ Len(x) \in Nat /\ Len(y) \in Nat
  BY <1>5
<1>9. Len(x) = Len(y) /\ \A j \in 1 .. Len(x) : x[j] = y[j]
  BY <1>7, <1>8 DEF Joins
<1>10. x = y
  BY <1>5, <1>9, SeqEqual
<1> QED BY <1>1, <1>2, <1>3, <1>4, <1>10 DEF Alike

LEMMA FoundIs ==
  ASSUME NEW u \in URLs, NEW file, FileOK(file), Holds(file, CachePath(u)), NEW c \in BOOLEAN,
         NEW i, i = Scan(file, c), i.error = "none"
  PROVE  Found(i, u)
<1>1. CASE PartOfPlaceholder(file)
  BY <1>1, ScanPlaceholder DEF Found
<1>2. ASSUME NEW v \in URLs, NEW a \in Answers, NEW b \in Nat, CachePath(v) = CachePath(u),
             b >= 2, PartOf(file, v, a, b)
      PROVE  Found(i, u)
  <2>1. Finds(i, v, a)
    BY <1>2, ScanFinds
  <2>2. Alike(u, v)
    BY <1>2, AlikeIs
  <2> QED BY <2>1, <2>2 DEF Found
<1> QED BY <1>1, <1>2 DEF Holds

LEMMA HoldsInsert ==
  ASSUME FilesHold, NEW p, NEW file, Holds(file, p), files' = Insert(files, p, file)
  PROVE  FilesHold'
<1>1. Inserts(files, p, file, files')
  BY InsertIs
<1>2. ASSUME NEW q \in DOMAIN files' PROVE Holds(files'[q], q)
  BY <1>1 DEF Inserts, FilesHold
<1> QED BY <1>2 DEF FilesHold

LEMMA DownloadedHolds ==
  ASSUME ClockOK, FilesHold, NEW u \in URLs, NEW a \in Source[u], OnDownloaded(u, a)
  PROVE  FilesHold'
<1>1. a \in Answers /\ now \in Nat
  BY NamesAssumption, ServingAssumption DEF ClockOK
<1>2. CASE files' = files
  BY <1>2 DEF FilesHold
<1>3. ASSUME NEW file, NEW n \in Nat, Stores(u, a, file, n) PROVE FilesHold'
  <2>1. file \in Seq(Stored) /\ n \in 0 .. Len(file)
    BY <1>3 DEF Stores, WrittenBy
  <2>2. PICK b \in Nat : b >= 2 /\ PartOf(file, u, a, b)
    BY <1>1, <1>3, WrittenPart DEF Stores
  <2>3. PICK g : g = Prefix(file, n)
    OBVIOUS
  <2>4. PartOf(g, u, a, b)
    BY <1>1, <2>1, <2>2, <2>3, PrefixPart
  <2>5. Holds(g, CachePath(u))
    BY <1>1, <2>2, <2>4 DEF Holds
  <2>6. files' = Insert(files, CachePath(u), g)
    BY <1>3, <2>3 DEF Stores
  <2> QED BY <2>5, <2>6, HoldsInsert
<1> QED BY <1>1, <1>2, <1>3, StoresIs

LEMMA BumpHolds ==
  ASSUME ServingOK, FilesHold, NEW g \in Refreshers, Bump(g)
  PROVE  FilesHold'
<1>1. PICK p : Bumps(p)
  BY BumpIs
<1>2. Holds(files[p], p) /\ now \in Nat
  BY <1>1, ServingAssumption DEF Bumps, ServingOK, ClockOK, FilesHold
<1>3. Holds(Bumped(files[p], now), p)
  BY <1>1, <1>2, BumpedHolds DEF Bumps
<1> QED BY <1>1, <1>3 DEF Bumps, FilesHold

LEMMA PlaceHolds ==
  ASSUME ServingOK, FilesHold, Place
  PROVE  FilesHold'
<1>1. PICK p : p = CachePath(visit.want)
  OBVIOUS
<1>2. CASE files' = files
  BY <1>2 DEF FilesHold
<1>3. CASE \E n \in 0 .. 3 : files' = Insert(files, p, Prefix(PlaceholderFile(now), n))
  <2>1. PICK n \in 0 .. 3 : files' = Insert(files, p, Prefix(PlaceholderFile(now), n))
    BY <1>3
  <2>2. PICK g : g = Prefix(PlaceholderFile(now), n)
    OBVIOUS
  <2>3. now \in Nat
    BY ServingAssumption DEF ServingOK, ClockOK
  <2>4. Holds(g, p)
    BY <2>2, <2>3, PlaceholderPart DEF Holds
  <2> QED BY <2>1, <2>2, <2>4, HoldsInsert
<1> QED BY <1>1, <1>2, <1>3, PlacedIs

LEMMA FilesHoldStep ==
  ASSUME ProgramOK, FilesHold, [ProgramNext]_allVars
  PROVE  FilesHold'
<1>1. ServingOK /\ ClockOK
  BY DEF ProgramOK, ServingOK
<1>2. CASE files' = files
  BY <1>2 DEF FilesHold
<1> QED BY <1>1, <1>2, FilesChange, BumpHolds, PlaceHolds, DownloadedHolds

\* Only the environment spends its budget.
LEMMA SpendIs ==
  ASSUME BudgetOK, NEW what \in EnvironmentNames, Spend(what)
  PROVE  /\ BudgetOK'
         /\ what = "fault" => left'["fault"] < Budget["fault"]
<1>1. /\ left \in [EnvironmentNames -> Nat] /\ left[what] > 0
      /\ left' = [left EXCEPT ![what] = left[what] - 1]
      /\ left["fault"] <= Budget["fault"] /\ Budget["fault"] \in Nat
      /\ "fault" \in EnvironmentNames
  BY ServingAssumption DEF Spend, BudgetOK, EnvironmentNames
<1>2. PICK n \in Nat : left[what] - 1 = n
  BY <1>1
<1>3. left' \in [EnvironmentNames -> Nat]
  BY <1>1, <1>2
<1>4. left'["fault"] = IF what = "fault" THEN n ELSE left["fault"]
  BY <1>1, <1>2
<1>5. what = "fault" => n < left["fault"]
  BY <1>1, <1>2
<1> QED BY <1>1, <1>3, <1>4, <1>5 DEF BudgetOK

LEMMA BudgetStep ==
  ASSUME BudgetOK, [ProgramNext]_allVars
  PROVE  BudgetOK' /\ (left' # left => AtRest \/ left'["fault"] < Budget["fault"])
<1>1. "visit" \in EnvironmentNames /\ "fault" \in EnvironmentNames
  BY DEF EnvironmentNames
<1>2. CASE left' = left
  BY <1>2 DEF BudgetOK
<1>3. CASE Spend("fault")
  BY <1>1, <1>3, SpendIs
<1>4. CASE Spend("visit") /\ AtRest
  BY <1>1, <1>4, SpendIs
<1>5. left' = left \/ Spend("fault") \/ (Spend("visit") /\ AtRest)
  <2>1. CASE ParseFlag \/ ApplyConfig \/ Mirror \/ Interrupt \/ Exit \/ UNCHANGED allVars
    BY <2>1 DEF ParseFlag, ApplyConfig, Mirror, Interrupt, Exit, Over, vars, allVars
  <2>2. CASE Work \/ Tick
    BY <2>2 DEF Work, Tick, OnDownloaded, Store
  <2>3. CASE \E root \in Roots, what \in DOMAIN Replies : Reply(root, what)
    BY <2>3 DEF Reply, Arrive
  <2>4. CASE \E root \in Roots, u \in URLs : Visit(root, u)
    BY <2>4 DEF Visit, Arrive
  <2>5. CASE CopyBody \/ ServeCache \/ Place \/ Leave
    BY <2>5 DEF CopyBody, ServeCache, Place, Leave
  <2>6. CASE Download
    BY <2>6 DEF Download, OnDownloaded, Store
  <2>7. CASE \E g \in Refreshers : Bump(g) \/ EnqueueExpired(g)
    BY <2>7 DEF Bump, EnqueueExpired
  <2> QED BY <2>1, <2>2, <2>3, <2>4, <2>5, <2>6, <2>7 DEF ProgramNext, Serve
<1> QED BY <1>2, <1>3, <1>4, <1>5

LEMMA VisitIsWhole ==
  ASSUME ServingOK, FilesHold, NEW root \in Roots, NEW u \in URLs, Visit(root, u)
  PROVE  VisitWhole' /\ AnswersWhole'
<1>1. /\ client' = NothingSent /\ info' = Opened(root, u)
      /\ visit' = [phase |-> IF info'.error = "none" THEN "copy" ELSE "issue",
                   root |-> root, want |-> u,
                   mixed |-> info'.error # "none" /\ info'.headers # <<>>]
  BY DEF Visit
<1>2. PICK i : i = info'
  OBVIOUS
<1>3. /\ visit'.phase = (IF i.error = "none" THEN "copy" ELSE "issue")
      /\ visit'.want = u /\ visit'.mixed = (i.error # "none" /\ i.headers # <<>>)
  BY <1>1, <1>2
<1>4. PICK p : p = CachePath(u)
  OBVIOUS
<1>5. CASE p \in DOMAIN files
  <2>1. PICK file : file = files[p] /\ FileOK(file) /\ Holds(file, CachePath(u))
    BY <1>4, <1>5 DEF ServingOK, FilesOK, FilesHold
  <2>2. PICK c \in BOOLEAN : i = Scan(file, c)
    BY <1>1, <1>2, <1>4, <1>5, <2>1 DEF Opened
  <2>3. i.error = "none" => Found(i, u)
    BY <2>1, <2>2, FoundIs
  <2>4. i.error # "none" => i.status \in ErrorStatuses
    <3>1. PICK k : k = Stop(file, c)
      OBVIOUS
    <3> QED BY <2>1, <2>2, <3>1, ScanStops
  <2>5. i.error # "none" /\ ~visit'.mixed => i.headers = <<>>
    BY <1>3
  <2>6. VisitWhole'
    BY <1>1, <1>2, <1>3, <2>3, <2>4, <2>5 DEF VisitWhole
  <2> QED BY <1>3, <2>6 DEF AnswersWhole
<1>6. CASE p \notin DOMAIN files
  <2>1. i = [NewInfo EXCEPT !.error = "cacheNotFound", !.status = 404]
    BY <1>1, <1>2, <1>4, <1>6 DEF Opened
  <2>2. i.error = "cacheNotFound" /\ i.status = 404 /\ i.headers = <<>>
    BY <2>1 DEF NewInfo
  <2>3. i.status \in ErrorStatuses
    BY <2>2 DEF ErrorStatuses
  <2>4. visit'.phase = "issue"
    BY <1>3, <2>2
  <2>5. VisitWhole'
    BY <1>1, <1>2, <2>2, <2>3, <2>4 DEF VisitWhole
  <2> QED BY <2>4, <2>5 DEF AnswersWhole
<1> QED BY <1>5, <1>6

\* A body that was read to its end is that of the answer.
LEMMA BodyFound ==
  ASSUME NEW v \in URLs, NEW a \in Answers, NEW i \in StoredInfos, Finds(i, v, a),
         Len(i.body) = Answer[a].length
  PROVE  i.body = BodyLines(v, a)
<1>1. PICK x, y : x = i.body /\ y = BodyLines(v, a)
  OBVIOUS
<1>2. /\ y \in Seq(Stored) /\ Len(y) = Answer[a].length
      /\ \A n \in 1 .. Len(y) : y[n] = BodyLine(v, a, n)
  BY <1>1, BodyIs
<1>3. /\ x \in Seq(Stored) /\ Len(x) = Answer[a].length
      /\ \A n \in 1 .. Len(x) : x[n] = BodyLine(v, a, n)
  BY <1>1 DEF Finds, StoredInfos
<1>4. \A n \in 1 .. Len(x) : x[n] = y[n]
  BY <1>2, <1>3
<1>5. x = y
  BY <1>2, <1>3, <1>4, SeqEqual
<1> QED BY <1>1, <1>5

\* Nothing is copied of a body without a length: the header is sent later.
LEMMA NothingCopied ==
  ASSUME NEW u \in URLs, NEW i \in StoredInfos, Found(i, u), i.length = 0
  PROVE  Whole(WithHeader(NothingSent, i), u)
<1>1. PICK c : c = WithHeader(NothingSent, i)
  OBVIOUS
<1>2. /\ c.status = (IF i.status = 0 THEN 200 ELSE i.status)
      /\ c.headers = i.headers /\ c.length = i.length /\ c.body = <<>>
  BY <1>1 DEF WithHeader, NothingSent
<1>3. CASE FindsPlaceholder(i)
  BY <1>1, <1>2, <1>3 DEF FindsPlaceholder, Whole
<1>4. ASSUME NEW v \in URLs, NEW a \in Answers, Alike(u, v), Finds(i, v, a)
      PROVE  Whole(c, u)
  <2>1. Len(i.body) = Answer[a].length
    BY <1>4, AnswerIs DEF Finds, StoredInfos
  <2>2. i.body = BodyLines(v, a)
    BY <1>4, <2>1, BodyFound
  <2>3. Len(i.body) = 0 /\ i.body \in Seq(Stored)
    BY <1>4, <2>1 DEF Finds, StoredInfos
  <2>4. i.body = <<>>
    BY <2>3
  <2>5. IsAnswer(c, v, a)
    BY <1>2, <1>4, <2>2, <2>4 DEF IsAnswer, Finds
  <2> QED BY <1>4, <2>5 DEF Whole
<1> QED BY <1>1, <1>3, <1>4 DEF Found

\* All of a body is copied.
LEMMA AllCopied ==
  ASSUME NEW u \in URLs, NEW i \in StoredInfos, Found(i, u), i.length > 0,
         NEW c, c = WithBody(WithHeader(NothingSent, i), i.body), ~(Len(c.body) < i.length),
         NEW j
  PROVE  Whole(WithHeader(c, j), u)
<1>1. PICK v \in URLs, a \in Answers : Alike(u, v) /\ Finds(i, v, a)
  BY DEF Found, FindsPlaceholder
<1>2. i.length = Answer[a].length /\ Len(i.body) <= i.length /\ i.body \in Seq(Stored)
      /\ i.length \in Nat /\ Len(i.body) \in Nat
  BY <1>1 DEF Finds, StoredInfos
<1>3. /\ c.sent /\ c.status = (IF i.status = 0 THEN 200 ELSE i.status)
      /\ c.headers = i.headers /\ c.length = i.length /\ c.body = i.body
  BY <1>2, SentIs
<1>4. Len(i.body) = Answer[a].length
  BY <1>2, <1>3
<1>5. i.body = BodyLines(v, a)
  BY <1>1, <1>4, BodyFound
<1>6. IsAnswer(c, v, a)
  BY <1>1, <1>3, <1>5 DEF IsAnswer, Finds
<1>7. WithHeader(c, j) = c
  BY <1>3 DEF WithHeader
<1> QED BY <1>1, <1>6, <1>7 DEF Whole

LEMMA CopyBodyIsWhole ==
  ASSUME ServingOK, VisitWhole, CopyBody
  PROVE  VisitWhole' /\ AnswersWhole'
<1>1. PICK i, u : i = info /\ u = visit.want
  OBVIOUS
<1>2. /\ visit.phase = "copy" /\ visit \in Visits /\ u \in URLs /\ i \in StoredInfos
      /\ i.error = "none" /\ client = NothingSent /\ Found(i, u)
  BY <1>1 DEF CopyBody, ServingOK, VisitOK, InfoOK, VisitWhole
<1>3. PICK copied : copied = IF i.length = 0 THEN client
                             ELSE WithBody(WithHeader(client, i), i.body)
  OBVIOUS
<1> DEFINE fails == Len(copied.body) < i.length
<1>5. \/ /\ client' = copied
         /\ visit' = [visit EXCEPT !.phase = IF fails THEN "issue" ELSE "expiry",
                                   !.mixed = fails]
         /\ info' = [i EXCEPT !.error = IF fails THEN "copyBody" ELSE "none"]
      \/ visit' = [visit EXCEPT !.phase = "issue", !.mixed = TRUE]
  BY <1>1, <1>3 DEF CopyBody
<1> HIDE DEF fails
<1>6. CASE visit'.phase = "issue" /\ visit'.mixed
  BY <1>6 DEF VisitWhole, AnswersWhole
<1>7. CASE /\ visit'.phase = "expiry" /\ visit'.want = u
           /\ client' = copied /\ ~fails /\ info' = [i EXCEPT !.error = "none"]
  <2>1. info' = i
    BY <1>2, <1>7 DEF StoredInfos
  <2>2. Whole(WithHeader(copied, i), u)
    <3>1. CASE i.length = 0
      BY <1>2, <1>3, <3>1, NothingCopied
    <3>2. CASE i.length # 0
      <4>1. i.length > 0
        BY <1>2, <3>2 DEF StoredInfos
      <4>2. copied = WithBody(WithHeader(NothingSent, i), i.body)
        BY <1>2, <1>3, <3>2
      <4> QED BY <1>2, <1>7, <4>1, <4>2, AllCopied DEF fails
    <3> QED BY <3>1, <3>2
  <2> QED BY <1>7, <2>1, <2>2 DEF VisitWhole, AnswersWhole
<1>8. CASE visit' = [visit EXCEPT !.phase = "issue", !.mixed = TRUE]
  BY <1>2, <1>6, <1>8 DEF Visits
<1>9. CASE /\ client' = copied
           /\ visit' = [visit EXCEPT !.phase = IF fails THEN "issue" ELSE "expiry",
                                     !.mixed = fails]
           /\ info' = [i EXCEPT !.error = IF fails THEN "copyBody" ELSE "none"]
  <2>1. CASE fails
    BY <1>2, <1>6, <1>9, <2>1 DEF Visits
  <2>2. CASE ~fails
    BY <1>1, <1>2, <1>7, <1>9, <2>2 DEF Visits
  <2> QED BY <2>1, <2>2
<1> QED BY <1>5, <1>8, <1>9

LEMMA AnsweredIsWhole ==
  ASSUME ServingOK, NEW c, Answered(c),
         ~visit.mixed => \/ Whole(c, visit.want)
                         \/ /\ left'["fault"] < Budget["fault"]
                            /\ c.status \in ErrorStatuses /\ c.body = <<>>
  PROVE  VisitWhole' /\ AnswersWhole'
<1>1. /\ visit'.phase = "done" /\ visit'.want = visit.want /\ visit'.mixed = visit.mixed
      /\ client' = c
  BY DEF Answered, ServingOK, VisitOK, Visits
<1>2. VisitWhole'
  BY <1>1 DEF VisitWhole
<1>3. AnswersWhole'
  BY <1>1 DEF AnswersWhole, Whole
<1> QED BY <1>2, <1>3

LEMMA ServeCacheIsWhole ==
  ASSUME ServingOK, VisitWhole, ServeCache
  PROVE  VisitWhole' /\ AnswersWhole'
<1>1. Whole(WithHeader(client, info), visit.want) /\ Answered(WithHeader(client, info))
  BY DEF ServeCache, VisitWhole
<1> QED BY <1>1, AnsweredIsWhole

LEMMA PlaceIsWhole ==
  ASSUME ServingOK, BudgetOK, VisitWhole, Place
  PROVE  VisitWhole' /\ AnswersWhole'
<1>1. /\ visit.phase = "issue" /\ visit \in Visits
      /\ ~visit.mixed => client = NothingSent /\ info.headers = <<>>
                                              /\ info.status \in ErrorStatuses
  BY DEF Place, ServingOK, VisitOK, VisitWhole
<1>2. CASE visit' = [visit EXCEPT !.phase = "download"] /\ UNCHANGED <<info, client>>
  <2>1. visit'.phase = "download" /\ visit'.mixed = visit.mixed
    BY <1>1, <1>2 DEF Visits
  <2> QED BY <1>1, <1>2, <2>1 DEF VisitWhole, AnswersWhole
<1>3. CASE Spend("fault") /\ Answered(WithHeader(client, info))
  <2>1. PICK c : c = WithHeader(client, info)
    OBVIOUS
  <2>2. left'["fault"] < Budget["fault"]
    BY <1>3, SpendIs DEF EnvironmentNames
  <2>3. ~visit.mixed => c.status \in ErrorStatuses /\ c.body = <<>>
    BY <1>1, <2>1 DEF WithHeader, NothingSent, ErrorStatuses
  <2> QED BY <1>3, <2>1, <2>2, <2>3, AnsweredIsWhole
<1> QED BY <1>2, <1>3 DEF Place

LEMMA DownloadIsWhole ==
  ASSUME ServingOK, VisitWhole, Download
  PROVE  VisitWhole' /\ AnswersWhole'
<1>1. /\ visit.phase = "download" /\ visit.want \in URLs /\ info \in StoredInfos
      /\ ~visit.mixed => client = NothingSent /\ info.headers = <<>>
  BY DEF Download, ServingOK, VisitOK, InfoOK, VisitWhole
<1>2. PICK u \in URLs : u = visit.want
  BY <1>1
<1>3. PICK a \in Source[u] : Answered(Downloaded(u, a))
  BY <1>2 DEF Download
<1>4. PICK c : c = Downloaded(u, a)
  OBVIOUS
<1>5. a \in Answers
  BY NamesAssumption
<1>6. ASSUME ~visit.mixed PROVE Whole(c, u)
  <2>1. PICK status, headers, lines, n : /\ status = Answer[a].status /\ headers = MetaLines(u, a)
                                         /\ lines = BodyLines(u, a) /\ n = Answer[a].length
    OBVIOUS
  <2>2. /\ status \in Nat /\ headers \in Seq(Stored) /\ n \in Nat
        /\ lines \in Seq(Stored) /\ Len(lines) = n
    BY <1>5, <2>1, AnswerIs, MetaIs, BodyIs DEF AtMost
  <2>3. PICK i : i = [info EXCEPT !.status = status, !.headers = headers, !.length = n]
    OBVIOUS
  <2>4. i \in StoredInfos /\ i.status = status /\ i.headers = headers /\ i.length = n
    BY <1>1, <2>2, <2>3 DEF StoredInfos
  <2>5. info.headers \o MetaLines(u, a) = headers
    BY <1>1, <1>6, <2>1, <2>2
  <2>6. c = WithBody(WithHeader(NothingSent, i), lines)
    <3>1. c = Written(NothingSent, [info EXCEPT !.status = status, !.headers = headers], lines)
      BY <1>1, <1>4, <1>6, <2>1, <2>5 DEF Downloaded
    <3>2. [[info EXCEPT !.status = status, !.headers = headers] EXCEPT !.length = Len(lines)] = i
      BY <2>2, <2>3
    <3>3. /\ WithHeader(NothingSent, i).body = <<>>
          /\ WithHeader(NothingSent, i).length = n
      BY <2>4 DEF WithHeader, NothingSent
    <3>4. Len(<<>> \o lines) <= n
      BY <2>2
    <3> QED BY <3>1, <3>2, <3>3, <3>4 DEF Written
  <2>7. /\ c.status = (IF status = 0 THEN 200 ELSE status)
        /\ c.headers = headers /\ c.length = n /\ c.body = lines
    BY <2>2, <2>4, <2>6, SentIs
  <2>8. IsAnswer(c, u, a) /\ Alike(u, u)
    BY <2>1, <2>7 DEF IsAnswer, Alike
  <2> QED BY <1>5, <2>8 DEF Whole
<1> QED BY <1>2, <1>3, <1>4, <1>6, AnsweredIsWhole

LEMMA ReplyIsWhole ==
  ASSUME NEW root \in Roots, NEW what \in DOMAIN Replies, Reply(root, what)
  PROVE  VisitWhole' /\ AnswersWhole'
<1>1. visit' = [NoVisit EXCEPT !.phase = "done", !.root = root, !.want = what]
  BY DEF Reply
<1>2. visit'.phase = "done" /\ visit'.want = what
  BY <1>1 DEF NoVisit
<1>3. what \notin URLs
  BY RepliesAssumption
<1> QED BY <1>2, <1>3 DEF VisitWhole, AnswersWhole

LEMMA WholeStep ==
  ASSUME ProgramOK, WholeInv, [ProgramNext]_allVars
  PROVE  WholeInv'
<1>1. ServingOK /\ FilesHold /\ BudgetOK /\ VisitWhole /\ AnswersWhole
  BY DEF ProgramOK, WholeInv
<1>2. FilesHold'
  BY <1>1, FilesHoldStep
<1>3. BudgetOK' /\ (left' # left => AtRest \/ left'["fault"] < Budget["fault"])
  BY <1>1, BudgetStep
<1>4. CASE UNCHANGED <<visit, info, client>>
  <2>1. VisitWhole'
    BY <1>1, <1>4 DEF VisitWhole
  <2>2. AnswersWhole'
    <3>1. left'["fault"] = left["fault"] \/ AtRest \/ left'["fault"] < Budget["fault"]
      BY <1>3
    <3> QED BY <1>1, <1>4, <3>1 DEF AnswersWhole, AtRest
  <2> QED BY <1>2, <1>3, <2>1, <2>2 DEF WholeInv
<1>5. CASE Leave \/ Over
  <2>1. visit'.phase = "none"
    BY <1>5 DEF Leave, Over, NoVisit
  <2>2. VisitWhole' /\ AnswersWhole'
    BY <2>1 DEF VisitWhole, AnswersWhole
  <2> QED BY <1>2, <1>3, <2>2 DEF WholeInv
<1>6. CASE VisitWhole' /\ AnswersWhole'
  BY <1>2, <1>3, <1>6 DEF WholeInv
<1>7. CASE ParseFlag \/ ApplyConfig \/ Work \/ Tick \/ UNCHANGED allVars
  BY <1>4, <1>7 DEF ParseFlag, ApplyConfig, Work, Tick, vars, web, allVars
<1>8. CASE Mirror \/ Interrupt \/ Exit
  BY <1>4, <1>5, <1>8 DEF Mirror, Interrupt, Exit, vars, web
<1>9. CASE \E g \in Refreshers : Bump(g) \/ EnqueueExpired(g)
  BY <1>4, <1>9 DEF Bump, EnqueueExpired
<1>10. CASE Serve
  BY <1>1, <1>5, <1>6, <1>9, <1>10, ReplyIsWhole, VisitIsWhole, CopyBodyIsWhole, ServeCacheIsWhole,
     PlaceIsWhole, DownloadIsWhole DEF Serve
<1> QED BY <1>7, <1>8, <1>10 DEF ProgramNext

\* Whatever the cache files hold, also after failed writes, a visitor gets status, header
\* and body of one answer to what was asked for, an empty placeholder, or, once a
\* placeholder could not be written, an error without a body; unless the cache was found
\* to be broken after some of it had been passed on (serveURL and ServeHTTPCache of web/,
\* downloadAndServe of engine/engine.go).
THEOREM AnswersAreWhole == ProgramSpec => []AnswersWhole
<1>1. ProgramInit => WholeInv
  <2>1. SUFFICES ASSUME ProgramInit PROVE WholeInv
    OBVIOUS
  <2>2. files = <<>> /\ left = Budget /\ visit.phase = "none"
    BY <2>1 DEF ProgramInit, Init, NoVisit
  <2>3. FilesHold
    BY <2>2 DEF FilesHold
  <2>4. BudgetOK
    BY <2>2, ServingAssumption DEF BudgetOK, EnvironmentNames
  <2> QED BY <2>2, <2>3, <2>4 DEF WholeInv, VisitWhole, AnswersWhole
<1>2. ProgramOK /\ WholeInv /\ [ProgramNext]_allVars => WholeInv'
  BY WholeStep
<1>3. WholeInv => AnswersWhole
  BY DEF WholeInv
<1> QED BY <1>1, <1>2, <1>3, ProgramInvariant, PTL DEF ProgramSpec

----------------------------------------------------------------------------
(* ListensAsTyped.                                                         *)

IsUrl(line, i) == line[i].name = "mirror"

\* The port after the i-th flag, and that of the i-th of some ports.
PortAfter(line, i) ==
    IF i < Len(line) /\ line[i + 1].name = "mirror-port" THEN line[i + 1].num ELSE -1

PortIn(ports, i) == IF i <= Len(ports) THEN ports[i] ELSE -1

\* PortsFirst, of any line.
InOrder(line) ==
    /\ \A i, j \in 1 .. Len(line) :
          IsUrl(line, i) /\ IsUrl(line, j) /\ i < j /\ PortAfter(line, j) # -1
              => PortAfter(line, i) # -1
    /\ \A i \in 1 .. Len(line) :
          line[i].name = "mirror-port" => i - 1 \in 1 .. Len(line) /\ IsUrl(line, i - 1)

\* The urls and ports of the first d flags: at says where the urls were typed, and all
\* of them but the one just read have the port that follows them.
UrlsAt(line, d, urls, ports, at) ==
    /\ at \in [1 .. Len(urls) -> 1 .. d]
    /\ \A n \in 1 .. Len(urls) : IsUrl(line, at[n]) /\ urls[n] = line[at[n]].root
    /\ \A n \in 1 .. Len(urls) : at[n] # d => PortIn(ports, n) = PortAfter(line, at[n])
    /\ \A i \in 1 .. d : IsUrl(line, i) => \E n \in 1 .. Len(urls) : at[n] = i
    /\ Len(ports) <= Len(urls)
    /\ d > 0 /\ IsUrl(line, d) =>
          /\ Len(ports) < Len(urls)
          /\ at[Len(urls)] = d
          /\ \A n \in 1 .. Len(urls) - 1 : at[n] < d

\* The url just read has no port yet.
LEMMA LastUrl ==
  ASSUME NEW line, NEW d \in Nat, NEW urls \in Seq(Sites), NEW ports \in Seq(Int), NEW at,
         UrlsAt(line, d, urls, ports, at), NEW n \in 1 .. Len(urls), at[n] = d
  PROVE  n = Len(urls) /\ PortIn(ports, n) = -1 /\ IsUrl(line, d)
<1>1. Len(urls) \in Nat /\ Len(ports) \in Nat
  OBVIOUS
<1>2. at[n] \in 1 .. d /\ IsUrl(line, d)
  BY DEF UrlsAt
<1>3. Len(ports) < Len(urls) /\ \A k \in 1 .. Len(urls) - 1 : at[k] < d
  BY <1>2 DEF UrlsAt
<1>4. n = Len(urls)
  <2>1. n # Len(urls) => n \in 1 .. Len(urls) - 1
    BY <1>1
  <2> QED BY <1>3, <2>1
<1>5. PortIn(ports, n) = -1
  BY <1>1, <1>3, <1>4 DEF PortIn
<1> QED BY <1>2, <1>4, <1>5

LEMMA UrlRead ==
  ASSUME NEW line \in Seq(Typed), NEW d \in Nat, d < Len(line),
         NEW urls \in Seq(Sites), NEW ports \in Seq(Int), NEW at,
         UrlsAt(line, d, urls, ports, at), IsUrl(line, d + 1),
         NEW new, Appended(Sites, urls, line[d + 1].root, new)
  PROVE  \E x : UrlsAt(line, d + 1, new, ports, x)
<1>1. PICK m, e : m = Len(urls) /\ e = d + 1
  OBVIOUS
<1>2. /\ m \in Nat /\ e \in Nat /\ e = d + 1 /\ Len(ports) \in Nat /\ Len(new) = m + 1
      /\ new[m + 1] = line[e].root /\ \A n \in 1 .. m : new[n] = urls[n]
  BY <1>1 DEF Appended
<1>3. /\ at \in [1 .. m -> 1 .. d] /\ Len(ports) <= m
      /\ \A n \in 1 .. m : IsUrl(line, at[n]) /\ urls[n] = line[at[n]].root
      /\ \A n \in 1 .. m : at[n] # d => PortIn(ports, n) = PortAfter(line, at[n])
      /\ \A i \in 1 .. d : IsUrl(line, i) => \E n \in 1 .. m : at[n] = i
  BY <1>1 DEF UrlsAt
<1>4. PICK x : x = [n \in 1 .. m + 1 |-> IF n = m + 1 THEN e ELSE at[n]]
  OBVIOUS
<1>5. /\ x \in [1 .. m + 1 -> 1 .. e] /\ x[m + 1] = e
      /\ \A n \in 1 .. m : x[n] = at[n] /\ at[n] \in 1 .. d
  BY <1>2, <1>3, <1>4
<1>6. ASSUME NEW n \in 1 .. m + 1
      PROVE  /\ IsUrl(line, x[n]) /\ new[n] = line[x[n]].root
             /\ x[n] # e => PortIn(ports, n) = PortAfter(line, x[n])
  <2>1. CASE n = m + 1
    BY <1>1, <1>2, <1>5, <2>1
  <2>2. CASE n # m + 1
    <3>1. n \in 1 .. m
      BY <1>2, <2>2
    <3>2. x[n] = at[n] /\ new[n] = urls[n]
      BY <1>2, <1>5, <3>1
    <3>3. CASE at[n] = d
      <4>1. n = Len(urls) /\ PortIn(ports, n) = -1 /\ IsUrl(line, d)
        <5>1. n \in 1 .. Len(urls)
          BY <1>1, <3>1
        <5> QED BY <3>3, <5>1, LastUrl
      <4>2. line[d + 1].name # "mirror-port"
        BY DEF IsUrl
      <4>3. PortAfter(line, d) = -1
        BY <4>2 DEF PortAfter
      <4> QED BY <1>3, <3>1, <3>2, <3>3, <4>1, <4>3
    <3>4. CASE at[n] # d
      BY <1>3, <3>1, <3>2, <3>4
    <3> QED BY <3>3, <3>4
  <2> QED BY <2>1, <2>2
<1>7. ASSUME NEW i \in 1 .. e, IsUrl(line, i) PROVE \E n \in 1 .. m + 1 : x[n] = i
  <2>1. CASE i = e
    BY <1>2, <1>5, <2>1
  <2>2. CASE i # e
    <3>1. i \in 1 .. d
      BY <1>2, <2>2
    <3>2. PICK n \in 1 .. m : at[n] = i
      BY <1>3, <1>7, <3>1
    <3> QED BY <1>2, <1>5, <3>2
  <2> QED BY <2>1, <2>2
<1>8. Len(ports) < m + 1 /\ \A n \in 1 .. m + 1 - 1 : x[n] < e
  BY <1>2, <1>3, <1>5
<1>9. UrlsAt(line, e, new, ports, x)
  BY <1>2, <1>5, <1>6, <1>7, <1>8 DEF UrlsAt
<1> QED BY <1>1, <1>9

\* A port that is read is that of the url before it: only urls without a port, or with
\* none as port, would come between.
LEMMA PortRead ==
  ASSUME NEW line \in Seq(Typed), InOrder(line), NEW d \in Nat, d < Len(line),
         NEW urls \in Seq(Sites), NEW ports \in Seq(Int), NEW at,
         UrlsAt(line, d, urls, ports, at), line[d + 1].name = "mirror-port",
         NEW new, Appended(Int, ports, line[d + 1].num, new)
  PROVE  UrlsAt(line, d + 1, urls, new, at)
<1>1. PICK m, e, l, port : m = Len(urls) /\ e = d + 1 /\ l = Len(ports) /\ port = line[e].num
  OBVIOUS
<1>2. /\ m \in Nat /\ e \in Nat /\ e = d + 1 /\ l \in Nat /\ Len(new) = l + 1
      /\ new[l + 1] = port /\ (\A n \in 1 .. l : new[n] = ports[n])
      /\ Len(line) \in Nat /\ e \in 1 .. Len(line)
  BY <1>1 DEF Appended
<1>3. d \in 1 .. Len(line) /\ IsUrl(line, d)
  <2>1. line[e].name = "mirror-port"
    BY <1>1
  <2>2. e - 1 \in 1 .. Len(line) /\ IsUrl(line, e - 1)
    BY <1>2, <2>1 DEF InOrder
  <2> QED BY <1>2, <2>2
<1>4. PortAfter(line, d) = port
  BY <1>1 DEF PortAfter
<1>5. /\ at \in [1 .. m -> 1 .. d] /\ l < m /\ at[m] = d
      /\ \A n \in 1 .. m - 1 : at[n] < d
      /\ \A n \in 1 .. m : IsUrl(line, at[n]) /\ urls[n] = line[at[n]].root
      /\ \A n \in 1 .. m : at[n] # d => PortIn(ports, n) = PortAfter(line, at[n])
      /\ \A i \in 1 .. d : IsUrl(line, i) => \E n \in 1 .. m : at[n] = i
  BY <1>1, <1>3 DEF UrlsAt
<1>6. at \in [1 .. m -> 1 .. e] /\ (\A n \in 1 .. m : at[n] # e) /\ l + 1 <= m
  <2>1. \A i \in 1 .. d : i \in 1 .. e /\ i # e
    BY <1>2, <1>3
  <2> QED BY <1>2, <1>5, <2>1
<1>7. ~IsUrl(line, e)
  BY <1>1 DEF IsUrl
<1>8. ASSUME NEW n \in 1 .. m - 1, l < n PROVE port = -1 /\ PortAfter(line, at[n]) = -1
  <2>1. n \in 1 .. m /\ at[n] < d /\ at[n] # d /\ at[n] \in 1 .. Len(line)
    BY <1>2, <1>3, <1>5
  <2>2. PortIn(ports, n) = -1
    BY <1>1, <1>2, <1>8 DEF PortIn
  <2>3. PortAfter(line, at[n]) = -1 /\ IsUrl(line, at[n])
    BY <1>5, <2>1, <2>2
  <2>4. port = -1
    BY <1>3, <1>4, <2>1, <2>3 DEF InOrder
  <2> QED BY <2>3, <2>4
<1>9. ASSUME NEW n \in 1 .. m PROVE PortIn(new, n) = PortAfter(line, at[n])
  <2>1. CASE n <= l
    <3>1. PortIn(new, n) = PortIn(ports, n)
      BY <1>1, <1>2, <2>1 DEF PortIn
    <3>2. n \in 1 .. m - 1
      BY <1>2, <1>5, <2>1
    <3> QED BY <1>2, <1>5, <3>1, <3>2
  <2>2. CASE n = m
    <3>1. CASE l + 1 = m
      <4>1. n <= Len(new) /\ new[n] = port
        BY <1>2, <2>2, <3>1
      <4> QED BY <1>4, <1>5, <2>2, <4>1 DEF PortIn
    <3>2. CASE l + 1 < m
      <4>1. l + 1 \in 1 .. m - 1 /\ l < l + 1
        BY <1>2, <3>2
      <4>2. port = -1
        BY <1>8, <4>1
      <4>3. PortIn(new, n) = -1
        BY <1>2, <2>2, <3>2 DEF PortIn
      <4> QED BY <1>4, <1>5, <2>2, <4>2, <4>3
    <3> QED BY <1>2, <1>6, <3>1, <3>2
  <2>3. CASE ~(n <= l) /\ n # m
    <3>1. n \in 1 .. m - 1 /\ l < n
      BY <1>2, <2>3
    <3>2. port = -1 /\ PortAfter(line, at[n]) = -1
      BY <1>8, <3>1
    <3>3. PortIn(new, n) = -1
      <4>1. n <= Len(new) => n = l + 1
        BY <1>2, <3>1
      <4>2. n <= Len(new) => new[n] = -1
        BY <1>2, <3>2, <4>1
      <4> QED BY <4>2 DEF PortIn
    <3> QED BY <3>2, <3>3
  <2> QED BY <2>1, <2>2, <2>3
<1>10. \A i \in 1 .. e : IsUrl(line, i) => \E n \in 1 .. m : at[n] = i
  <2>1. \A i \in 1 .. e : i = e \/ i \in 1 .. d
    BY <1>2
  <2> QED BY <1>5, <1>7, <2>1
<1>11. UrlsAt(line, e, urls, new, at)
  BY <1>1, <1>2, <1>5, <1>6, <1>7, <1>9, <1>10 DEF UrlsAt
<1> QED BY <1>1, <1>11

LEMMA OtherRead ==
  ASSUME NEW line \in Seq(Typed), NEW d \in Nat, d < Len(line),
         NEW urls \in Seq(Sites), NEW ports \in Seq(Int), NEW at,
         UrlsAt(line, d, urls, ports, at), line[d + 1].name \notin {"mirror", "mirror-port"}
  PROVE  UrlsAt(line, d + 1, urls, ports, at)
<1>1. PICK m, e : m = Len(urls) /\ e = d + 1
  OBVIOUS
<1>2. m \in Nat /\ e \in Nat /\ e = d + 1 /\ ~IsUrl(line, e) /\ line[e].name # "mirror-port"
  BY <1>1 DEF IsUrl
<1>3. /\ at \in [1 .. m -> 1 .. d] /\ Len(ports) <= m
      /\ \A n \in 1 .. m : IsUrl(line, at[n]) /\ urls[n] = line[at[n]].root
      /\ \A n \in 1 .. m : at[n] # d => PortIn(ports, n) = PortAfter(line, at[n])
      /\ \A i \in 1 .. d : IsUrl(line, i) => \E n \in 1 .. m : at[n] = i
  BY <1>1 DEF UrlsAt
<1>4. at \in [1 .. m -> 1 .. e]
  BY <1>2, <1>3
<1>5. ASSUME NEW n \in 1 .. m PROVE PortIn(ports, n) = PortAfter(line, at[n])
  <2>1. CASE at[n] = d
    <3>1. n = Len(urls) /\ PortIn(ports, n) = -1 /\ IsUrl(line, d)
      <4>1. n \in 1 .. Len(urls)
        BY <1>1
      <4> QED BY <2>1, <4>1, LastUrl
    <3>2. PortAfter(line, d) = -1
      BY <1>2 DEF PortAfter
    <3> QED BY <2>1, <3>1, <3>2
  <2> QED BY <1>3, <2>1
<1>6. \A i \in 1 .. e : IsUrl(line, i) => \E n \in 1 .. m : at[n] = i
  <2>1. \A i \in 1 .. e : i = e \/ i \in 1 .. d
    BY <1>2
  <2> QED BY <1>2, <1>3, <2>1
<1>7. UrlsAt(line, e, urls, ports, at)
  BY <1>1, <1>2, <1>3, <1>4, <1>5, <1>6 DEF UrlsAt
<1> QED BY <1>1, <1>7

\* At the end every url has the port that follows it.
LEMMA LineEnds ==
  ASSUME NEW line \in Seq(Typed), NEW urls \in Seq(Sites), NEW ports \in Seq(Int), NEW at,
         UrlsAt(line, Len(line), urls, ports, at), NEW n \in 1 .. Len(urls)
  PROVE  PortIn(ports, n) = PortAfter(line, at[n])
<1>1. PICK d : d = Len(line) /\ d \in Nat
  OBVIOUS
<1>2. CASE at[n] = d
  <2>1. n = Len(urls) /\ PortIn(ports, n) = -1 /\ IsUrl(line, d)
    <3>1. UrlsAt(line, d, urls, ports, at)
      BY <1>1
    <3> QED BY <1>1, <1>2, <3>1, LastUrl
  <2>2. PortAfter(line, d) = -1
    BY <1>1 DEF PortAfter
  <2> QED BY <1>2, <2>1, <2>2
<1>3. CASE at[n] # d
  BY <1>1, <1>3 DEF UrlsAt
<1> QED BY <1>2, <1>3

\* One of the first d flags, the last of its kind, asks for the listener of every host.
EverythingAt(line, d) ==
    \E i \in 1 .. d :
        /\ line[i].name = "port" /\ line[i].num >= 0
        /\ \A j \in 1 .. d : j > i => line[j].name # "port"

LEMMA EverythingRead ==
  ASSUME NEW line, NEW d \in Nat
  PROVE  EverythingAt(line, d + 1)
            <=> IF line[d + 1].name = "port" THEN line[d + 1].num >= 0 ELSE EverythingAt(line, d)
<1>1. PICK e : e = d + 1
  OBVIOUS
<1>2. /\ e \in Nat /\ e \in 1 .. e /\ 1 .. e = 1 .. d \cup {e}
      /\ \A i \in 1 .. d : e > i /\ i # e
      /\ \A j \in 1 .. e : ~(j > e)
  BY <1>1
<1>3. CASE line[e].name = "port"
  <2>1. EverythingAt(line, e) => line[e].num >= 0
    BY <1>2, <1>3 DEF EverythingAt
  <2>2. line[e].num >= 0 => EverythingAt(line, e)
    BY <1>2, <1>3 DEF EverythingAt
  <2> QED BY <1>1, <1>3, <2>1, <2>2
<1>4. CASE line[e].name # "port"
  <2>1. EverythingAt(line, e) => EverythingAt(line, d)
    BY <1>2, <1>4 DEF EverythingAt
  <2>2. EverythingAt(line, d) => EverythingAt(line, e)
    BY <1>2, <1>4 DEF EverythingAt
  <2> QED BY <1>1, <1>4, <2>1, <2>2
<1> QED BY <1>3, <1>4

\* What is left of a list whose head is taken again and again.
SuffixOf(t, s) ==
    /\ Len(t) <= Len(s)
    /\ \A i \in 1 .. Len(t) : t[i] = s[Len(s) - Len(t) + i]

GoneOf(t, s) == Len(s) - Len(t)

LEMMA SuffixShifts ==
  ASSUME NEW S, NEW s \in Seq(S), NEW t \in Seq(S), t # <<>>, SuffixOf(t, s),
         NEW new, Shifted(S, t, new)
  PROVE  /\ SuffixOf(new, s)
         /\ GoneOf(t, s) \in Nat /\ GoneOf(t, s) < Len(s)
         /\ GoneOf(new, s) = GoneOf(t, s) + 1
         /\ Head(t) = s[GoneOf(t, s) + 1]
<1>1. PICK l, k : l = Len(s) /\ k = Len(t)
  OBVIOUS
<1>2. /\ l \in Nat /\ k \in Nat /\ k > 0 /\ k <= l /\ Head(t) = t[1]
      /\ Len(new) = k - 1 /\ \A i \in 1 .. k - 1 : new[i] = t[i + 1]
      /\ \A i \in 1 .. k : t[i] = s[l - k + i]
  <2>1. Head(t) = t[1] /\ Len(t) > 0 /\ Len(t) \in Nat
    BY TailIs
  <2> QED BY <1>1, <2>1 DEF Shifted, SuffixOf
<1>3. ASSUME NEW i \in 1 .. k - 1 PROVE new[i] = s[l - (k - 1) + i]
  <2>1. i + 1 \in 1 .. k /\ l - k + (i + 1) = l - (k - 1) + i
    BY <1>2
  <2> QED BY <1>2, <2>1
<1>4. SuffixOf(new, s)
  BY <1>1, <1>2, <1>3 DEF SuffixOf
<1>5. Head(t) = s[l - k + 1]
  BY <1>2
<1> QED BY <1>1, <1>2, <1>4, <1>5 DEF GoneOf

\* What the configuration has of the first d flags.
LineRead(d) ==
    /\ (config.port > -1) <=> EverythingAt(typed, d)
    /\ InOrder(typed) => \E at : UrlsAt(typed, d, config.urls, config.ports, at)

Parsed ==
    /\ step = "parse" => SuffixOf(args, typed) /\ LineRead(GoneOf(args, typed))
    /\ step \in {"setup", "run", "stop"} => LineRead(Len(typed))

LEMMA ParseFlagParsed ==
  ASSUME ProgramOK, Parsed, ParseFlag
  PROVE  Parsed'
<1>1. /\ step = "parse" /\ args # <<>> /\ args' = Tail(args) /\ typed' = typed
      /\ args \in Seq(Typed) /\ config \in Configs /\ typed \in Seq(Typed)
      /\ step' \in {"over", "parse"}
  BY TypedIs DEF ParseFlag, ProgramOK, SetupOK
<1>2. PICK d, flag : d = GoneOf(args, typed) /\ flag = Head(args)
  OBVIOUS
<1>3. /\ SuffixOf(args', typed) /\ d \in Nat /\ d < Len(typed) /\ flag = typed[d + 1]
      /\ GoneOf(args', typed) = d + 1
  <2>1. Shifted(Typed, args, args')
    BY <1>1, TailIs
  <2> QED BY <1>1, <1>2, <2>1, SuffixShifts DEF Parsed
<1>4. /\ (config.port > -1) <=> EverythingAt(typed, d)
      /\ InOrder(typed) => \E at : UrlsAt(typed, d, config.urls, config.ports, at)
  BY <1>1, <1>2 DEF Parsed, LineRead
<1>5. flag \in Typed /\ flag.num \in Int
  <2>1. flag \in Typed
    BY <1>1, <1>2, TailIs
  <2> QED BY <2>1 DEF Typed, Flags
<1>6. config' = CASE flag.name = "port" -> [config EXCEPT !.port = flag.num]
                  [] flag.name = "workers" -> [config EXCEPT !.workers = flag.num]
                  [] flag.name = "mirror" -> [config EXCEPT !.urls = Append(@, flag.root)]
                  [] flag.name = "mirror-port" -> [config EXCEPT !.ports = Append(@, flag.num)]
                  [] OTHER -> config
  BY <1>2 DEF ParseFlag
<1>7. PICK urls, ports : urls = Append(config.urls, flag.root) /\ ports = Append(config.ports, flag.num)
  OBVIOUS
<1>8. /\ config'.port = (IF flag.name = "port" THEN flag.num ELSE config.port)
      /\ config'.urls = (IF flag.name = "mirror" THEN urls ELSE config.urls)
      /\ config'.ports = (IF flag.name = "mirror-port" THEN ports ELSE config.ports)
  BY <1>1, <1>6, <1>7 DEF Configs
<1>9. (config'.port > -1) <=> EverythingAt(typed, d + 1)
  <2>1. EverythingAt(typed, d + 1)
           <=> IF flag.name = "port" THEN flag.num >= 0 ELSE EverythingAt(typed, d)
    BY <1>3, EverythingRead
  <2> QED BY <1>4, <1>5, <1>8, <2>1
<1>10. ASSUME InOrder(typed)
       PROVE  \E x : UrlsAt(typed, d + 1, config'.urls, config'.ports, x)
  <2>1. PICK at : UrlsAt(typed, d, config.urls, config.ports, at)
    BY <1>4, <1>10
  <2>2. config.urls \in Seq(Sites) /\ config.ports \in Seq(Int)
    BY <1>1 DEF Configs
  <2>3. CASE flag.name = "mirror"
    <3>1. Appended(Sites, config.urls, typed[d + 1].root, urls) /\ IsUrl(typed, d + 1)
      BY <1>3, <1>5, <1>7, <2>2, <2>3, AppendIs DEF Typed, IsUrl
    <3>2. \E x : UrlsAt(typed, d + 1, urls, config.ports, x)
      BY <1>1, <1>3, <2>1, <2>2, <3>1, UrlRead
    <3> QED BY <1>8, <2>3, <3>2
  <2>4. CASE flag.name = "mirror-port"
    <3>1. Appended(Int, config.ports, typed[d + 1].num, ports)
      BY <1>3, <1>5, <1>7, <2>2, AppendIs
    <3>2. UrlsAt(typed, d + 1, config.urls, ports, at)
      BY <1>1, <1>3, <1>10, <2>1, <2>2, <2>4, <3>1, PortRead
    <3> QED BY <1>8, <2>4, <3>2
  <2>5. CASE flag.name \notin {"mirror", "mirror-port"}
    <3>1. UrlsAt(typed, d + 1, config.urls, config.ports, at)
      BY <1>1, <1>3, <2>1, <2>2, <2>5, OtherRead
    <3> QED BY <1>8, <2>5, <3>1
  <2> QED BY <2>3, <2>4, <2>5
<1> QED BY <1>1, <1>3, <1>9, <1>10 DEF Parsed, LineRead

LEMMA ParsedStep ==
  ASSUME ProgramOK, Parsed, [ProgramNext]_allVars
  PROVE  Parsed'
<1>1. CASE ParseFlag
  BY <1>1, ParseFlagParsed
<1>2. CASE ApplyConfig
  <2>1. step = "parse" /\ args = <<>> /\ UNCHANGED <<typed, config>> /\ step' # "parse"
    BY <1>2 DEF ApplyConfig, StepWith
  <2>2. typed \in Seq(Typed) /\ Len(typed) \in Nat
    BY TypedIs DEF ProgramOK, SetupOK
  <2>3. GoneOf(args, typed) = Len(typed)
    BY <2>1, <2>2 DEF GoneOf
  <2> QED BY <2>1, <2>3 DEF Parsed, LineRead
<1>3. CASE Over
  BY <1>3 DEF Over, Parsed
<1>4. CASE UNCHANGED <<step, typed, args, config>>
  BY <1>4 DEF Parsed, LineRead
<1>5. CASE /\ step \in {"setup", "run"} /\ step' \in {"setup", "run", "stop"}
           /\ UNCHANGED <<typed, args, config>>
  BY <1>5 DEF Parsed, LineRead
<1>6. CASE Mirror
  BY <1>3, <1>5, <1>6 DEF Mirror, StepWith
<1>7. CASE Interrupt \/ Exit
  BY <1>3, <1>5, <1>7 DEF Interrupt, Exit
<1>8. CASE UNCHANGED program \/ UNCHANGED allVars
  BY <1>4, <1>8 DEF program, allVars
<1> QED BY <1>1, <1>2, <1>6, <1>7, <1>8 DEF ProgramNext

\* The listeners f are those of the first d calls.
Listens(calls, d, f) ==
    /\ \A j \in 1 .. d :
          calls[j].port >= 0 => calls[j].root \in DOMAIN f /\ f[calls[j].root] = calls[j].port
    /\ \A root \in DOMAIN f : \E j \in 1 .. d : calls[j].root = root /\ calls[j].port >= 0

Listened ==
    /\ step = "parse" => DOMAIN listeners = {}
    /\ step \in {"setup", "run", "stop"} =>
          SuffixOf(todo, MirrorCalls) /\ Listens(MirrorCalls, GoneOf(todo, MirrorCalls), listeners)
    /\ step \in {"run", "stop"} => todo = <<>>

LEMMA CallListens ==
  ASSUME NEW calls \in Seq(Calls), NEW d \in Nat, d < Len(calls), NEW f, NEW g,
         Listens(calls, d, f), NEW call, call = calls[d + 1],
         \/ call.port < 0 /\ g = f
         \/ call.port >= 0 /\ call.root \notin DOMAIN f /\ Inserts(f, call.root, call.port, g)
  PROVE  Listens(calls, d + 1, g)
<1>1. PICK e : e = d + 1
  OBVIOUS
<1>2. /\ e \in Nat /\ e \in 1 .. e /\ 1 .. e = 1 .. d \cup {e} /\ call = calls[e]
      /\ call.port \in Int
  <2>1. /\ e \in Nat /\ e \in 1 .. e /\ 1 .. e = 1 .. d \cup {e} /\ call = calls[e]
        /\ e \in 1 .. Len(calls)
    BY <1>1
  <2>2. call \in Calls
    BY <2>1, ElementOfSeq
  <2> QED BY <2>1, <2>2 DEF Calls
<1>3. CASE call.port < 0 /\ g = f
  BY <1>1, <1>2, <1>3 DEF Listens
<1>4. CASE call.port >= 0 /\ call.root \notin DOMAIN f /\ Inserts(f, call.root, call.port, g)
  <2>1. ASSUME NEW j \in 1 .. e, calls[j].port >= 0
        PROVE  calls[j].root \in DOMAIN g /\ g[calls[j].root] = calls[j].port
    <3>1. CASE j = e
      BY <1>2, <1>4, <3>1 DEF Inserts
    <3>2. CASE j # e
      <4>1. calls[j].root \in DOMAIN f /\ f[calls[j].root] = calls[j].port
        BY <1>2, <2>1, <3>2 DEF Listens
      <4> QED BY <1>4, <4>1 DEF Inserts
    <3> QED BY <3>1, <3>2
  <2>2. ASSUME NEW root \in DOMAIN g
        PROVE  \E j \in 1 .. e : calls[j].root = root /\ calls[j].port >= 0
    BY <1>2, <1>4 DEF Inserts, Listens
  <2> QED BY <1>1, <2>1, <2>2 DEF Listens
<1> QED BY <1>3, <1>4

LEMMA SameCalls ==
  ASSUME config' = config
  PROVE  MirrorCalls' = MirrorCalls
BY DEF MirrorCalls, PortOf

LEMMA MirrorListened ==
  ASSUME ProgramOK, Listened, Mirror
  PROVE  Listened'
<1>1. step = "setup" /\ todo # <<>> /\ todo \in Seq(Calls) /\ config \in Configs
  BY DEF Mirror, ProgramOK, SetupOK
<1>2. PICK calls, call : calls = MirrorCalls /\ call = Head(todo)
  OBVIOUS
<1>3. calls \in Seq(Calls)
  BY <1>1, <1>2, MirrorCallsAre
<1>4. SuffixOf(todo, calls) /\ Listens(calls, GoneOf(todo, calls), listeners)
  BY <1>1, <1>2 DEF Listened
<1>5. CASE Over
  BY <1>5 DEF Over, Listened
<1>6. CASE /\ \/ call.port < 0 /\ UNCHANGED listeners
              \/ call.port >= 0 /\ ListenAndServe(call.root, call.port)
           /\ todo' = Tail(todo) /\ step' = StepWith(todo') /\ config' = config
  <2>1. PICK d : d = GoneOf(todo, calls)
    OBVIOUS
  <2>2. /\ SuffixOf(todo', calls) /\ d \in Nat /\ d < Len(calls) /\ call = calls[d + 1]
        /\ GoneOf(todo', calls) = d + 1
    <3>1. Shifted(Calls, todo, todo')
      BY <1>1, <1>6, TailIs
    <3> QED BY <1>1, <1>2, <1>3, <1>4, <2>1, <3>1, SuffixShifts
  <2>3. \/ call.port < 0 /\ listeners' = listeners
        \/ /\ call.port >= 0 /\ call.root \notin DOMAIN listeners
           /\ Inserts(listeners, call.root, call.port, listeners')
    BY <1>6, InsertIs DEF ListenAndServe, MayListen
  <2>4. Listens(calls, d + 1, listeners')
    BY <1>3, <1>4, <2>1, <2>2, <2>3, CallListens
  <2>5. MirrorCalls' = calls
    BY <1>2, <1>6, SameCalls
  <2>6. step' \in {"setup", "run"} /\ (step' = "run" => todo' = <<>>)
    BY <1>6 DEF StepWith
  <2> QED BY <2>2, <2>4, <2>5, <2>6 DEF Listened
<1> QED BY <1>2, <1>5, <1>6 DEF Mirror

LEMMA ListenedStep ==
  ASSUME ProgramOK, Listened, [ProgramNext]_allVars
  PROVE  Listened'
<1>1. CASE ParseFlag
  BY <1>1 DEF ParseFlag, Listened, vars
<1>2. CASE ApplyConfig
  <2>1. PICK calls : calls = MirrorCalls
    OBVIOUS
  <2>2. calls \in Seq(Calls) /\ Len(calls) \in Nat
    BY <2>1, MirrorCallsAre DEF ProgramOK, SetupOK
  <2>3. DOMAIN listeners = {} /\ listeners' = listeners /\ config' = config
    BY <1>2 DEF ApplyConfig, Listened, vars
  <2>4. MirrorCalls' = calls
    BY <2>1, <2>3, SameCalls
  <2>5. \/ step' = "over"
        \/ /\ todo' = calls /\ step' \in {"setup", "run"}
           /\ step' = "run" => calls = <<>>
    BY <1>2, <2>1 DEF ApplyConfig, StepWith
  <2>6. SuffixOf(calls, calls) /\ GoneOf(calls, calls) = 0
    BY <2>2 DEF SuffixOf, GoneOf
  <2>7. Listens(calls, 0, listeners)
    BY <2>3 DEF Listens
  <2> QED BY <2>3, <2>4, <2>5, <2>6, <2>7 DEF Listened
<1>3. CASE Over
  BY <1>3 DEF Over, Listened
<1>4. CASE UNCHANGED <<step, config, todo, listeners>>
  BY <1>4, SameCalls DEF Listened
<1>5. CASE step = "run" /\ step' = "stop" /\ UNCHANGED <<config, todo, listeners>>
  BY <1>5, SameCalls DEF Listened
<1>6. CASE Mirror
  BY <1>6, MirrorListened
<1>7. CASE Interrupt \/ Exit
  BY <1>3, <1>5, <1>7 DEF Interrupt, Exit, vars
<1>8. CASE (Serve \/ Work \/ Tick) /\ UNCHANGED program
  <2>1. UNCHANGED listeners
    BY <1>8 DEF Serve, Reply, Visit, Arrive, CopyBody, ServeCache, Bump, EnqueueExpired, Place,
                Download, Leave, Work, Tick
  <2> QED BY <1>4, <1>8, <2>1 DEF program
<1>9. CASE UNCHANGED allVars
  BY <1>4, <1>9 DEF allVars, vars, program
<1> QED BY <1>1, <1>2, <1>6, <1>7, <1>8, <1>9 DEF ProgramNext

\* FromConfig calls Mirror for every host, if the port says so, and for each url.
AsConfigured(calls) ==
    /\ \A j \in 1 .. Len(calls) :
          \/ calls[j].root = AllHosts /\ calls[j].port = config.port /\ config.port > -1
          \/ \E n \in 1 .. Len(config.urls) :
                calls[j].root = config.urls[n] /\ calls[j].port = PortOf(n)
    /\ config.port > -1 => \E j \in 1 .. Len(calls) :
          calls[j].root = AllHosts /\ calls[j].port = config.port
    /\ \A n \in 1 .. Len(config.urls) : \E j \in 1 .. Len(calls) :
          calls[j].root = config.urls[n] /\ calls[j].port = PortOf(n)

LEMMA CallsAre ==
  ASSUME config \in Configs, NEW calls, calls = MirrorCalls
  PROVE  AsConfigured(calls)
<1>1. PICK e : e = [root |-> AllHosts, port |-> config.port]
  OBVIOUS
<1>2. PICK every : every = IF config.port > -1 THEN <<e>> ELSE <<>>
  OBVIOUS
<1>3. PICK each : each = [i \in DOMAIN config.urls |-> [root |-> config.urls[i],
                                                        port |-> PortOf(i)]]
  OBVIOUS
<1>4. /\ config.urls \in Seq(Sites) /\ Len(config.urls) \in Nat
      /\ DOMAIN config.urls = 1 .. Len(config.urls)
  BY DEF Configs
<1>5. every \in Seq(Calls) /\ Len(every) = (IF config.port > -1 THEN 1 ELSE 0)
      /\ (config.port > -1 => every[1] = e)
  <2>1. e \in Calls
    BY <1>1 DEF Calls, Configs, Roots
  <2>2. <<e>> \in Seq(Calls) /\ Len(<<e>>) = 1 /\ <<e>>[1] = e
    BY <2>1, OneIsSeq
  <2>3. <<>> \in Seq(Calls) /\ Len(<<>>) = 0
    OBVIOUS
  <2> QED BY <1>2, <2>2, <2>3
<1>6. /\ each \in Seq(Calls) /\ Len(each) = Len(config.urls)
      /\ \A n \in 1 .. Len(config.urls) :
            each[n].root = config.urls[n] /\ each[n].port = PortOf(n)
  <2>1. \A i \in 1 .. Len(config.urls) : [root |-> config.urls[i], port |-> PortOf(i)] \in Calls
    BY <1>4, PortIs DEF Calls, Roots
  <2>2. each \in [1 .. Len(config.urls) -> Calls]
    BY <1>3, <1>4, <2>1
  <2>3. each \in Seq(Calls) /\ Len(each) = Len(config.urls)
    BY <1>4, <2>2, SeqDef
  <2>4. \A n \in 1 .. Len(config.urls) :
            each[n].root = config.urls[n] /\ each[n].port = PortOf(n)
    BY <1>3, <1>4
  <2> QED BY <2>3, <2>4
<1>7. calls = Joined(every, each)
  BY <1>1, <1>2, <1>3 DEF MirrorCalls, Joined
<1>8. Joins(Calls, every, each, calls)
  BY <1>5, <1>6, <1>7, JoinedIs
<1>9. PICK h, m : h = Len(every) /\ m = Len(config.urls)
  OBVIOUS
<1>10. /\ h \in Nat /\ m \in Nat /\ Len(calls) = h + m
       /\ h = (IF config.port > -1 THEN 1 ELSE 0)
       /\ \A i \in 1 .. h : calls[i] = every[i]
       /\ \A n \in 1 .. m : calls[h + n] = each[n]
  <2>1. h = (IF config.port > -1 THEN 1 ELSE 0) /\ m \in Nat /\ Len(each) = m
    BY <1>4, <1>5, <1>6, <1>9
  <2>2. h \in Nat
    BY <2>1
  <2>3. /\ Len(calls) = h + m
        /\ \A i \in 1 .. h : calls[i] = every[i]
        /\ \A n \in 1 .. m : calls[h + n] = each[n]
    BY <1>8, <1>9, <2>1 DEF Joins
  <2> QED BY <2>1, <2>2, <2>3
<1>11. ASSUME NEW j \in 1 .. Len(calls)
       PROVE  \/ calls[j].root = AllHosts /\ calls[j].port = config.port /\ config.port > -1
              \/ \E n \in 1 .. m : calls[j].root = config.urls[n] /\ calls[j].port = PortOf(n)
  <2>1. CASE j <= h
    <3>1. config.port > -1 /\ j = 1
      BY <1>10, <2>1
    <3>2. calls[j] = e
      BY <1>5, <1>10, <3>1
    <3> QED BY <1>1, <3>1, <3>2
  <2>2. CASE ~(j <= h)
    <3>1. PICK n \in 1 .. m : j = h + n
      <4>1. j - h \in 1 .. m /\ j = h + (j - h)
        BY <1>10, <2>2
      <4> QED BY <4>1
    <3>2. calls[j] = each[n]
      BY <1>10, <3>1
    <3> QED BY <1>6, <1>9, <3>2
  <2> QED BY <2>1, <2>2
<1>12. ASSUME config.port > -1
       PROVE  \E j \in 1 .. Len(calls) : calls[j].root = AllHosts /\ calls[j].port = config.port
  <2>1. 1 \in 1 .. Len(calls) /\ calls[1] = e
    BY <1>5, <1>10, <1>12
  <2> QED BY <1>1, <2>1
<1>13. ASSUME NEW n \in 1 .. m
       PROVE  \E j \in 1 .. Len(calls) : calls[j].root = config.urls[n] /\ calls[j].port = PortOf(n)
  <2>1. PICK j : j = h + n
    OBVIOUS
  <2>2. j \in 1 .. Len(calls) /\ calls[j] = each[n]
    BY <1>10, <2>1
  <2> QED BY <1>6, <1>9, <2>2
<1> QED BY <1>9, <1>11, <1>12, <1>13 DEF AsConfigured

\* The properties of a line are those of what was typed.
LEMMA TypedLine ==
  ASSUME typed \in Seq(Typed)
  PROVE  /\ PortsFirst => InOrder(typed)
         /\ EverythingTyped <=> EverythingAt(typed, Len(typed))
         /\ \A i : PortTyped(i) = PortAfter(typed, i)
         /\ \A i : i \in Mirrored <=> i \in 1 .. Len(typed) /\ IsUrl(typed, i)
<1>1. DOMAIN typed = 1 .. Len(typed)
  OBVIOUS
<1>2. \A i : PortTyped(i) = PortAfter(typed, i)
  BY DEF PortTyped, PortAfter
<1>3. \A i : i \in Mirrored <=> i \in 1 .. Len(typed) /\ IsUrl(typed, i)
  BY <1>1 DEF Mirrored, IsUrl
<1>4. EverythingTyped <=> EverythingAt(typed, Len(typed))
  BY <1>1 DEF EverythingTyped, EverythingAt
<1>5. PortsFirst => InOrder(typed)
  BY <1>1, <1>2, <1>3 DEF PortsFirst, InOrder
<1> QED BY <1>2, <1>3, <1>4, <1>5

LEMMA AllListened ==
  ASSUME ProgramOK, Parsed, Listened
  PROVE  ListensAsTyped
<1>1. SUFFICES ASSUME step \in {"run", "stop"}
               PROVE  /\ (AllHosts \in DOMAIN listeners) = EverythingTyped
                      /\ PortsFirst => \A site \in Sites :
                            LET ports == {PortTyped(i) : i \in {j \in Mirrored :
                                                                typed[j].root = site}} \cap Nat
                            IN  IF site \in DOMAIN listeners THEN ports = {listeners[site]}
                                ELSE ports = {}
  BY DEF ListensAsTyped
<1>2. /\ config \in Configs /\ typed \in Seq(Typed) /\ config.port \in Int
      /\ config.urls \in Seq(Sites) /\ config.ports \in Seq(Int) /\ AllHosts \notin Sites
  BY TypedIs, ServingAssumption DEF ProgramOK, SetupOK, Configs
<1>3. PICK calls, d, m : calls = MirrorCalls /\ d = Len(calls) /\ m = Len(config.urls)
  OBVIOUS
<1>4. Listens(calls, d, listeners)
  <2>1. calls \in Seq(Calls)
    BY <1>2, <1>3, MirrorCallsAre
  <2>2. todo = <<>> /\ Listens(calls, GoneOf(todo, calls), listeners)
    BY <1>1, <1>3 DEF Listened
  <2>3. GoneOf(todo, calls) = d
    BY <1>3, <2>1, <2>2 DEF GoneOf
  <2> QED BY <2>2, <2>3
<1>5. /\ \A j \in 1 .. d :
            \/ calls[j].root = AllHosts /\ calls[j].port = config.port /\ config.port > -1
            \/ \E n \in 1 .. m : calls[j].root = config.urls[n] /\ calls[j].port = PortOf(n)
      /\ config.port > -1 => \E j \in 1 .. d :
            calls[j].root = AllHosts /\ calls[j].port = config.port
      /\ \A n \in 1 .. m : \E j \in 1 .. d :
            calls[j].root = config.urls[n] /\ calls[j].port = PortOf(n)
  <2>1. config \in Configs
    BY <1>2
  <2>2. calls = MirrorCalls
    BY <1>3
  <2>3. AsConfigured(calls)
    BY <2>1, <2>2, CallsAre
  <2> QED BY <1>3, <2>3, Zenon DEF AsConfigured
<1>6. \A n \in 1 .. m : config.urls[n] \in Sites
  BY <1>2, <1>3
<1>7. /\ (config.port > -1) <=> EverythingAt(typed, Len(typed))
      /\ InOrder(typed) =>
            \E at : UrlsAt(typed, Len(typed), config.urls, config.ports, at)
  BY <1>1 DEF Parsed, LineRead
<1>8. (AllHosts \in DOMAIN listeners) <=> EverythingTyped
  <2>1. AllHosts \in DOMAIN listeners => config.port > -1
    BY <1>2, <1>4, <1>5, <1>6 DEF Listens
  <2>2. config.port > -1 => AllHosts \in DOMAIN listeners
    BY <1>2, <1>4, <1>5 DEF Listens
  <2> QED BY <1>2, <1>7, <2>1, <2>2, TypedLine
<1>9. ASSUME PortsFirst, NEW site \in Sites,
             NEW ports, ports = {PortTyped(i) : i \in {j \in Mirrored : typed[j].root = site}}
                                  \cap Nat
      PROVE  IF site \in DOMAIN listeners THEN ports = {listeners[site]} ELSE ports = {}
  <2>1. PICK at : UrlsAt(typed, Len(typed), config.urls, config.ports, at)
    BY <1>2, <1>7, <1>9, TypedLine
  <2>2. \A n \in 1 .. m :
           /\ at[n] \in Mirrored /\ typed[at[n]].root = config.urls[n]
           /\ PortTyped(at[n]) = PortOf(n)
    <3>1. \A n \in 1 .. m : at[n] \in 1 .. Len(typed) /\ IsUrl(typed, at[n])
                             /\ config.urls[n] = typed[at[n]].root
      BY <1>3, <2>1 DEF UrlsAt
    <3>2. \A n \in 1 .. m : PortIn(config.ports, n) = PortAfter(typed, at[n])
      BY <1>2, <1>3, <2>1, LineEnds
    <3> QED BY <1>2, <3>1, <3>2, TypedLine DEF PortIn, PortOf
  <2>3. ASSUME NEW i \in Mirrored PROVE \E n \in 1 .. m : at[n] = i
    BY <1>2, <1>3, <2>1, TypedLine DEF UrlsAt
  <2>4. ASSUME NEW p \in ports PROVE site \in DOMAIN listeners /\ p = listeners[site]
    <3>1. PICK i \in Mirrored : typed[i].root = site /\ p = PortTyped(i) /\ p \in Nat
      BY <1>9
    <3>2. PICK n \in 1 .. m : config.urls[n] = site /\ PortOf(n) = p
      BY <2>2, <2>3, <3>1
    <3>3. PICK j \in 1 .. d : calls[j].root = site /\ calls[j].port = p
      BY <1>5, <3>2
    <3> QED BY <1>4, <3>1, <3>3 DEF Listens
  <2>5. ASSUME site \in DOMAIN listeners PROVE listeners[site] \in ports
    <3>1. PICK j \in 1 .. d : calls[j].root = site /\ calls[j].port >= 0
      BY <1>4, <2>5 DEF Listens
    <3>2. PICK n \in 1 .. m : config.urls[n] = site /\ calls[j].port = PortOf(n)
      BY <1>2, <1>5, <3>1
    <3>3. listeners[site] = PortOf(n) /\ PortOf(n) \in Nat
      <4>1. PortOf(n) \in Int
        BY <1>2, <1>3, PortIs
      <4> QED BY <1>4, <3>1, <3>2, <4>1 DEF Listens
    <3> QED BY <1>9, <2>2, <3>2, <3>3
  <2> QED BY <2>4, <2>5
<1>10. (AllHosts \in DOMAIN listeners) = EverythingTyped
  <2>1. EverythingTyped = TRUE \/ EverythingTyped = FALSE
    BY DEF EverythingTyped
  <2> QED BY <1>8, <2>1, Zenon
<1> QED BY <1>9, <1>10

\* A program that runs listens for every url that was typed with a port, on that port,
\* and for no other, and for every host if the last flag of its kind says so (ParseConfig
\* and FromConfig of engine/config.go, Mirror of engine/engine.go); ports follow their
\* urls, and urls without a port come last.
THEOREM ListensWhereTyped == ProgramSpec => []ListensAsTyped
<1>1. ProgramInit => Parsed /\ Listened
  <2>1. SUFFICES ASSUME ProgramInit PROVE Parsed /\ Listened
    OBVIOUS
  <2>2. /\ step = "parse" /\ listeners = <<>> /\ args = typed /\ typed \in Seq(Typed)
        /\ Len(typed) \in Nat /\ config.port = -1
    BY <2>1, TypedIs DEF ProgramInit, Init
  <2>3. PICK urls, ports, at : urls = <<>> /\ ports = <<>> /\ at = <<>>
    OBVIOUS
  <2>4. config.urls = urls /\ config.ports = ports
    BY <2>1, <2>3 DEF ProgramInit
  <2>5. SuffixOf(args, typed) /\ GoneOf(args, typed) = 0
    BY <2>2 DEF SuffixOf, GoneOf
  <2>6. UrlsAt(typed, 0, urls, ports, at)
    <3>1. /\ Len(urls) = 0 /\ Len(ports) = 0 /\ at \in [1 .. 0 -> 1 .. 0]
      BY <2>3
    <3> QED BY <3>1 DEF UrlsAt
  <2>7. ~EverythingAt(typed, 0) /\ ~(config.port > -1)
    BY <2>2 DEF EverythingAt
  <2>8. Parsed
    BY <2>2, <2>4, <2>5, <2>6, <2>7 DEF Parsed, LineRead
  <2>9. Listened
    BY <2>2 DEF Listened
  <2> QED BY <2>8, <2>9
<1>2. ProgramOK /\ Parsed /\ Listened /\ [ProgramNext]_allVars => (Parsed /\ Listened)'
  BY ParsedStep, ListenedStep
<1>3. ProgramOK /\ Parsed /\ Listened => ListensAsTyped
  BY AllListened
<1> QED BY <1>1, <1>2, <1>3, ProgramInvariant, PTL DEF ProgramSpec

==============================================================================

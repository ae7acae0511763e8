--------------------------- MODULE PathSafeProofs ---------------------------
(***************************************************************************)
(* Lemmas about PathSafe for every tree and every path: how places lie     *)
(* above each other, what a resolved place is, and that it is found again  *)
(* once the directories above it exist.                                    *)
(***************************************************************************)
EXTENDS PathSafe, Induction

-----------------------------------------------------------------------------
(* Prefixes.                                                                *)

LEMMA PrefixPointwise ==
  ASSUME NEW S, NEW s \in Seq(S), NEW t \in Seq(S)
  PROVE  IsPrefix(s, t) <=> Len(s) <= Len(t) /\ \A i \in 1..Len(s) : s[i] = t[i]
<1>1. ASSUME Len(s) <= Len(t)
      PROVE  SubSeq(s, 1, Len(s)) = SubSeq(t, 1, Len(s))
               <=> \A i \in 1..Len(s) : s[i] = t[i]
  <2>1. /\ SubSeq(s, 1, Len(s)) \in Seq(S) /\ SubSeq(t, 1, Len(s)) \in Seq(S)
        /\ Len(SubSeq(s, 1, Len(s))) = Len(s) /\ Len(SubSeq(t, 1, Len(s))) = Len(s)
        /\ \A i \in 1..Len(s) : /\ SubSeq(s, 1, Len(s))[i] = s[i]
                                /\ SubSeq(t, 1, Len(s))[i] = t[i]
    BY <1>1
  <2> QED
    BY <2>1
<1> QED
  BY <1>1 DEF IsPrefix

LEMMA PrefixEqual ==
  ASSUME NEW S, NEW s \in Seq(S), NEW t \in Seq(S), IsPrefix(s, t),
         Len(t) <= Len(s)
  PROVE  s = t
  BY PrefixPointwise

LEMMA PrefixTransitive ==
  ASSUME NEW S, NEW s \in Seq(S), NEW t \in Seq(S), NEW u \in Seq(S),
         IsPrefix(s, t), IsPrefix(t, u)
  PROVE  IsPrefix(s, u)
  BY PrefixPointwise

\* Of two prefixes of one sequence the shorter is a prefix of the longer.
LEMMA PrefixLinear ==
  ASSUME NEW S, NEW s \in Seq(S), NEW t \in Seq(S), NEW u \in Seq(S),
         IsPrefix(s, u), IsPrefix(t, u), Len(s) <= Len(t)
  PROVE  IsPrefix(s, t)
  BY PrefixPointwise

LEMMA PrefixOfConcat ==
  ASSUME NEW S, NEW s \in Seq(S), NEW t \in Seq(S)
  PROVE  IsPrefix(s, s \o t)
<1>1. /\ s \o t \in Seq(S) /\ Len(s) <= Len(s \o t)
      /\ \A i \in 1..Len(s) : s[i] = (s \o t)[i]
  OBVIOUS
<1> QED
  BY <1>1, PrefixPointwise

LEMMA PrefixIsSubSeq ==
  ASSUME NEW S, NEW s \in Seq(S), NEW t \in Seq(S), IsPrefix(s, t)
  PROVE  s = SubSeq(t, 1, Len(s))
<1>1. Len(s) <= Len(t) /\ \A i \in 1..Len(s) : s[i] = t[i]
  BY PrefixPointwise
<1>2. /\ SubSeq(t, 1, Len(s)) \in Seq(S) /\ Len(SubSeq(t, 1, Len(s))) = Len(s)
      /\ \A i \in 1..Len(s) : SubSeq(t, 1, Len(s))[i] = t[i]
  BY <1>1
<1> QED
  BY <1>1, <1>2

LEMMA StrictPrefixShorter ==
  ASSUME NEW S, NEW s \in Seq(S), NEW t \in Seq(S)
  PROVE  IsStrictPrefix(s, t) <=> IsPrefix(s, t) /\ Len(s) < Len(t)
  BY PrefixPointwise, PrefixEqual DEF IsStrictPrefix

-----------------------------------------------------------------------------
(* Places.                                                                  *)

LEMMA PlaceSeq == Place \subseteq Seq(Component)
  BY PathAssumption DEF Place

\* What lies above lies in the tree, nothing above lies above itself twice over.
LEMMA AboveFacts ==
  ASSUME NEW l \in Loc
  PROVE  /\ Above[l] \subseteq Loc /\ l \notin Above[l]
         /\ \A k \in Above[l] : Above[k] \subseteq Above[l]
<1>1. Above[l] = {k \in Loc : IsStrictPrefix(k, l)}
  BY DEF Above
<1>2. ASSUME NEW k \in Above[l], NEW j \in Above[k] PROVE j \in Above[l]
  <2>1. /\ k \in Loc /\ j \in Loc /\ IsStrictPrefix(k, l) /\ IsStrictPrefix(j, k)
    BY <1>1, <1>2 DEF Above
  <2>2. j \in Seq(Component) /\ k \in Seq(Component) /\ l \in Seq(Component)
    BY <2>1, PathAssumption
  <2>3. IsStrictPrefix(j, l)
    BY <2>1, <2>2, StrictPrefixShorter, PrefixTransitive
  <2> QED
    BY <1>1, <2>1, <2>3
<1> QED
  BY <1>1, <1>2 DEF IsStrictPrefix

\* What lies above a place of the worktree lies in it.
LEMMA AboveInside ==
  ASSUME NEW l \in Loc, IsPrefix(Root, l), NEW k \in Above[l]
  PROVE  IsPrefix(Root, k)
<1>1. k \in Loc /\ IsPrefix(k, l)
  BY DEF Above, IsStrictPrefix
<1>2. k \in Seq(Component) /\ l \in Seq(Component) /\ Root \in Seq(Component)
      /\ ~IsPrefix(k, Root)
  BY <1>1, PathAssumption
<1>3. CASE Len(Root) <= Len(k)
  BY <1>1, <1>2, <1>3, PrefixLinear
<1>4. CASE Len(k) <= Len(Root)
  BY <1>1, <1>2, <1>4, PrefixLinear
<1> QED
  BY <1>2, <1>3, <1>4

-----------------------------------------------------------------------------
(* Operations.                                                              *)

\* The operations of a response that parses have a clean path each.
LEMMA OperationsType ==
  ASSUME NEW out \in Seq(Block), ParseReason(out) = NoReason
  PROVE  Operations(out) \in Seq(Op)
<1>1. Wrong(out) = {}
  <2> SUFFICES ASSUME Wrong(out) # {} PROVE FALSE
    OBVIOUS
  <2>1. Wrong(out) \in SUBSET Nat
    BY DEF Wrong
  <2>2. Min(Wrong(out)) \in Wrong(out)
    BY <2>1, MinExists
  <2>3. BlockReason(out, Min(Wrong(out))) = NoReason
    BY DEF ParseReason
  <2> QED
    BY <2>2, <2>3 DEF Wrong
<1> DEFINE S == {block \in ToSet(out) : IsOp(block)}
           ops == Among(out, S)
<1>2. ops \in Seq(Block) /\ \E g : Indexes(g, ops, out, S, Len(out))
  BY AmongFacts
<1>3. PICK g : Indexes(g, ops, out, S, Len(out))
  BY <1>2
<1>4. Operations(out) = [i \in 1..Len(ops) |-> FileOp(ops[i])]
  BY <1>2 DEF Operations
<1> HIDE DEF ops
<1>5. ASSUME NEW i \in 1..Len(ops)
      PROVE  FileOp(ops[i]) \in Op
  <2>1. g[i] \in 1..Len(out) /\ ops[i] = out[g[i]] /\ out[g[i]] \in S
    BY <1>3 DEF Indexes
  <2>2. BlockReason(out, g[i]) = NoReason
    BY <1>1, <2>1 DEF Wrong
  <2>3. IsOp(out[g[i]]) /\ out[g[i]] \in Block
    BY <2>1
  <2>4. out[g[i]].name # NoName
    BY <2>2, <2>3, ParserAssumption DEF BlockReason
  <2>5. ops[i] \in Block /\ ops[i].kind # "other" /\ ops[i].name # NoName
    BY <2>1, <2>3, <2>4 DEF IsOp
  <2> QED
    BY <2>5 DEF FileOp, Block, Op
<1>6. Len(ops) \in Nat
  BY <1>2
<1> QED
  BY <1>4, <1>5, <1>6


-----------------------------------------------------------------------------
(* Following a path.                                                        *)

\* Where one more component leads.
NextPlace(t, p, c) ==
    IF Holds(t, p) # DIR THEN NULL
    ELSE LET l == Append(p, c)
         IN  IF Holds(t, l) = LINK THEN Link[l] ELSE l

LEMMA HoldsPlace ==
  ASSUME NEW t, NEW p
  PROVE  /\ Holds(t, p) # ABSENT => p \in Place
         /\ p \in Loc => Holds(t, p) = t[p]
         /\ p \in Place \ Loc => Holds(t, p) = DIR
         /\ Loc \subseteq Place /\ Root \in Place
         /\ Holds(t, NULL) = ABSENT
<1>1. Loc \subseteq Place /\ NULL \notin Place
  BY PathAssumption DEF Place
<1>2. Root \in Place
  <2>1. Root = SubSeq(Root, 1, Len(Root)) /\ Len(Root) \in 0..Len(Root)
    BY PathAssumption
  <2> QED
    BY <2>1 DEF Place
<1> QED
  BY <1>1, <1>2 DEF Holds

LEMMA FoundFacts ==
  ASSUME NEW t, NEW path \in Seq(Component)
  PROVE  /\ Found(t, path)[0] = Root
         /\ \A i \in 1..Len(path) :
               Found(t, path)[i] = NextPlace(t, Found(t, path)[i-1], path[i])
<1> DEFINE n == Len(path)
           V == {Root, NULL} \cup {NextPlace(t, p, path[i]) : p \in Place, i \in 1..n}
           step == [q \in (1..n) \X V |-> NextPlace(t, q[2], path[q[1]])]
<1>1. n \in Nat /\ Root \in V
  OBVIOUS
<1>2. ASSUME NEW i \in 1..n, NEW v \in V
      PROVE  NextPlace(t, v, path[i]) \in V
  <2>1. CASE v \in Place
    BY <2>1
  <2>2. CASE v \notin Place
    <3>1. NextPlace(t, v, path[i]) = NULL
      BY <2>2, HoldsPlace, PathAssumption DEF NextPlace
    <3> QED
      BY <3>1
  <2> QED
    BY <2>1, <2>2
<1> HIDE DEF V
<1>3. step \in [(1..n) \X V -> V]
  BY <1>2
<1>4. \A i \in 1..n, v \in V : step[<<i, v>>] = NextPlace(t, v, path[i])
  OBVIOUS
<1> HIDE DEF n, step
<1>5. PICK f : Iterates(f, n, V, Root, step)
  BY <1>1, <1>3, Recursion
<1>6. f \in [0..n -> V] /\ f[0] = Root
  BY <1>5 DEF Iterates
<1>7. ASSUME NEW i \in 0..n
      PROVE  f[i] = IF i = 0 THEN Root ELSE NextPlace(t, f[i-1], path[i])
  <2>1. CASE i = 0
    BY <1>6, <2>1
  <2>2. CASE i # 0
    <3>1. i \in 1..n /\ i - 1 \in 0..n
      BY <1>1, <2>2
    <3>2. f[i - 1] \in V
      BY <1>6, <3>1
    <3>3. f[i] = step[<<i, f[i - 1]>>]
      BY <1>5, <3>1 DEF Iterates
    <3> QED
      BY <1>4, <2>2, <3>1, <3>2, <3>3
  <2> QED
    BY <2>1, <2>2
<1> DEFINE rhs(h) ==
             [i \in 0..n |->
                IF i = 0 THEN Root ELSE NextPlace(t, h[i-1], path[i])]
<1>8. f = rhs(f)
  <2>1. f = [i \in 0..n |-> f[i]]
    BY <1>6
  <2> QED
    BY <1>7, <2>1
<1> DEFINE g == Found(t, path)
<1>9. g = CHOOSE h : h = rhs(h)
  BY DEF Found, NextPlace, n
<1> HIDE DEF g
<1>10. g = rhs(g)
  <2> HIDE DEF rhs
  <2> QED
    BY <1>8, <1>9
<1>11. \A i \in 0..n : rhs(g)[i] = IF i = 0 THEN Root ELSE NextPlace(t, g[i-1], path[i])
  OBVIOUS
<1>12. \A i \in 0..n : g[i] = IF i = 0 THEN Root ELSE NextPlace(t, g[i-1], path[i])
  <2> HIDE DEF rhs
  <2> QED
    BY <1>10, <1>11
<1>13. g[0] = Root
  BY <1>1, <1>12
<1>14. \A i \in 1..n : g[i] = NextPlace(t, g[i-1], path[i])
  BY <1>1, <1>12
<1> QED
  BY <1>13, <1>14 DEF g, n


\* Below a place that holds nothing there is nothing.
LEMMA AbsentBelow ==
  ASSUME NEW t \in Trees, NEW k \in Seq(Component), Holds(t, k) = ABSENT,
         NEW l \in Seq(Component), IsPrefix(k, l)
  PROVE  Holds(t, l) = ABSENT
<1> SUFFICES ASSUME Holds(t, l) # ABSENT, l # k PROVE FALSE
  OBVIOUS
<1>1. l \in Place /\ Len(k) \in Nat /\ Len(k) <= Len(l) /\ k = SubSeq(l, 1, Len(k))
  BY HoldsPlace, PrefixPointwise, PrefixIsSubSeq
<1>2. k \in Place => k \in Loc
  BY HoldsPlace, PathAssumption
<1>3. CASE l \in Loc
  <2>1. k \in Loc
    <3>1. Len(k) \in 0..Len(l) /\ \A i \in 0..Len(l) : SubSeq(l, 1, i) \in Place
      BY <1>1, <1>3, PathAssumption
    <3>2. SubSeq(l, 1, Len(k)) \in Place
      BY <3>1
    <3> QED
      BY <1>1, <1>2, <3>2
  <2>2. k \in Above[l]
    BY <1>3, <2>1 DEF Above, IsStrictPrefix
  <2>3. t[k] = ABSENT /\ t[l] # ABSENT
    BY <1>3, <2>1, HoldsPlace
  <2> QED
    BY <1>3, <2>2, <2>3, PathAssumption
<1>4. CASE l \notin Loc
  <2>1. PICK i \in 0..Len(Root) : l = SubSeq(Root, 1, i)
    BY <1>1, <1>4 DEF Place
  <2>2. /\ Root \in Seq(Component) /\ l \in Seq(Component)
        /\ Len(l) = i /\ \A j \in 1..i : l[j] = Root[j]
    BY <2>1, PathAssumption
  <2>3. IsPrefix(l, Root)
    BY <2>2, PrefixPointwise
  <2>4. IsPrefix(k, Root)
    BY <2>2, <2>3, PrefixTransitive
  <2>5. k = SubSeq(Root, 1, Len(k)) /\ Len(k) \in 0..Len(Root)
    BY <2>2, <2>4, PrefixPointwise, PrefixIsSubSeq
  <2>6. k \in Place
    BY <2>5 DEF Place
  <2> QED
    BY <1>2, <2>4, <2>6, PathAssumption
<1> QED
  BY <1>3, <1>4

\* The place under p that components m+1 to i of a path name.
Under(p, path, m, i) == p \o SubSeq(path, m + 1, i)

\* What is joined keeps its elements.
Joins(w, u, v, S) ==
    /\ w \in Seq(S)
    /\ Len(w) = Len(u) + Len(v)
    /\ \A j \in 1..Len(u) : w[j] = u[j]
    /\ \A j \in 1..Len(v) : w[Len(u) + j] = v[j]

LEMMA Joined ==
  ASSUME NEW S, NEW u \in Seq(S), NEW v \in Seq(S)
  PROVE  Joins(u \o v, u, v, S)
<1>1. ASSUME NEW j \in 1..Len(u) PROVE (u \o v)[j] = u[j]
  OBVIOUS
<1>2. ASSUME NEW j \in 1..Len(v) PROVE (u \o v)[Len(u) + j] = v[j]
  OBVIOUS
<1> QED
  BY <1>1, <1>2 DEF Joins

LEMMA UnderFacts ==
  ASSUME NEW p \in Seq(Component), NEW path \in Seq(Component),
         NEW m \in 0..Len(path)
  PROVE  /\ Under(p, path, m, m) = p
         /\ \A i \in m..Len(path) : /\ Under(p, path, m, i) \in Seq(Component)
                                    /\ Len(Under(p, path, m, i)) = Len(p) + (i - m)
                                    /\ IsPrefix(p, Under(p, path, m, i))
         /\ \A i \in m..Len(path)-1 :
               Under(p, path, m, i + 1) = Append(Under(p, path, m, i), path[i + 1])
         /\ \A i, j \in m..Len(path) : i <= j =>
               IsPrefix(Under(p, path, m, i), Under(p, path, m, j))
<1> DEFINE n == Len(path)
           U(i) == Under(p, path, m, i)
<1>1. ASSUME NEW i \in m..n
      PROVE  /\ U(i) \in Seq(Component) /\ Len(U(i)) = Len(p) + (i - m)
             /\ \A j \in 1..Len(p) : U(i)[j] = p[j]
             /\ \A j \in Len(p)+1..Len(p)+(i-m) : U(i)[j] = path[j - Len(p) + m]
  <2> DEFINE q == SubSeq(path, m + 1, i)
  <2>1. q \in Seq(Component) /\ Len(q) = i - m /\ \A j \in 1..i-m : q[j] = path[j + m]
    OBVIOUS
  <2> HIDE DEF q
  <2>2. /\ p \o q \in Seq(Component) /\ Len(p \o q) = Len(p) + (i - m)
        /\ \A j \in 1..Len(p) : (p \o q)[j] = p[j]
        /\ \A j \in Len(p)+1..Len(p)+(i-m) : (p \o q)[j] = q[j - Len(p)]
    <3> DEFINE w == p \o q
    <3>1. Joins(w, p, q, Component)
      BY <2>1, Joined
    <3> HIDE DEF w
    <3>2. ASSUME NEW j \in Len(p)+1..Len(p)+(i-m)
          PROVE  w[j] = q[j - Len(p)]
      <4>1. j - Len(p) \in 1..Len(q) /\ Len(p) + (j - Len(p)) = j
        BY <2>1
      <4> QED
        BY <3>1, <4>1 DEF Joins
    <3>3. /\ w \in Seq(Component) /\ Len(w) = Len(p) + (i - m)
          /\ \A j \in 1..Len(p) : w[j] = p[j]
      BY <2>1, <3>1 DEF Joins
    <3> QED
      BY <3>2, <3>3 DEF w
  <2>3. \A j \in Len(p)+1..Len(p)+(i-m) : q[j - Len(p)] = path[j - Len(p) + m]
    BY <2>1
  <2>4. U(i) = p \o q
    BY DEF Under, q
  <2> HIDE DEF U
  <2> QED
    BY <2>2, <2>3, <2>4
<1> HIDE DEF U
<1>2. n \in Nat /\ m \in 0..n /\ Len(p) \in Nat
  OBVIOUS
<1>3. U(m) = p
  BY <1>1, <1>2
<1>4. ASSUME NEW i \in m..n, NEW j \in m..n, i <= j
      PROVE  IsPrefix(U(i), U(j))
  <2>1. ASSUME NEW k \in 1..Len(U(i)) PROVE U(i)[k] = U(j)[k]
    <3>1. k \in 1..Len(p) \/ k \in Len(p)+1..Len(p)+(i-m)
      BY <1>1, <1>2
    <3>2. CASE k \in 1..Len(p)
      <4>1. U(i)[k] = p[k] /\ U(j)[k] = p[k]
        BY <1>1, <3>2
      <4> QED
        BY <4>1
    <3>3. CASE k \in Len(p)+1..Len(p)+(i-m)
      <4>1. k \in Len(p)+1..Len(p)+(j-m)
        BY <1>2, <1>4, <3>3
      <4>2. U(i)[k] = path[k - Len(p) + m] /\ U(j)[k] = path[k - Len(p) + m]
        BY <1>1, <3>3, <4>1
      <4> QED
        BY <4>2
    <3> QED
      BY <3>1, <3>2, <3>3
  <2>2. Len(U(i)) <= Len(U(j))
    BY <1>1, <1>2, <1>4
  <2> QED
    BY <1>1, <2>1, <2>2, PrefixPointwise
<1>5. \A i \in m..n : IsPrefix(p, U(i))
  BY <1>2, <1>3, <1>4
<1>6. ASSUME NEW i \in m..n-1
      PROVE  U(i + 1) = Append(U(i), path[i + 1])
  <2>1. i \in m..n /\ i + 1 \in m..n /\ path[i + 1] \in Component
    BY <1>2
  <2> DEFINE r == Append(U(i), path[i + 1])
             s == U(i + 1)
  <2>2. /\ r \in Seq(Component) /\ Len(r) = Len(p) + (i - m) + 1
        /\ \A j \in 1..Len(p) + (i - m) : r[j] = U(i)[j]
        /\ r[Len(p) + (i - m) + 1] = path[i + 1]
    <3>1. U(i) \in Seq(Component) /\ Len(U(i)) = Len(p) + (i - m)
      BY <1>1, <2>1
    <3> DEFINE u == U(i)
    <3>2. u \in Seq(Component) /\ Len(u) = Len(p) + (i - m)
      BY <3>1
    <3> HIDE DEF u
    <3>3. /\ Append(u, path[i + 1]) \in Seq(Component)
          /\ Len(Append(u, path[i + 1])) = Len(u) + 1
          /\ \A j \in 1..Len(u) : Append(u, path[i + 1])[j] = u[j]
          /\ Append(u, path[i + 1])[Len(u) + 1] = path[i + 1]
      BY <2>1, <3>2
    <3>4. /\ Append(u, path[i + 1]) \in Seq(Component)
          /\ Len(Append(u, path[i + 1])) = Len(p) + (i - m) + 1
          /\ \A j \in 1..Len(p) + (i - m) : Append(u, path[i + 1])[j] = u[j]
          /\ Append(u, path[i + 1])[Len(p) + (i - m) + 1] = path[i + 1]
      BY <3>2, <3>3
    <3> QED
      BY <3>4 DEF u
  <2>3. /\ s \in Seq(Component) /\ Len(s) = Len(p) + (i - m) + 1
        /\ s[Len(p) + (i - m) + 1] = path[i + 1]
    <3>1. (i + 1) - m = (i - m) + 1 /\ Len(p) + ((i + 1) - m) = Len(p) + (i - m) + 1
      BY <1>2
    <3>2. Len(p) + (i - m) + 1 \in Len(p)+1..Len(p)+((i+1)-m)
      BY <1>2, <2>1
    <3>3. s[Len(p) + (i - m) + 1] = path[Len(p) + (i - m) + 1 - Len(p) + m]
      <4> DEFINE x == i + 1
      <4>1. x \in m..n
        BY <2>1
      <4> HIDE DEF x
      <4>2. \A j \in Len(p)+1..Len(p)+(x-m) : U(x)[j] = path[j - Len(p) + m]
        BY <1>1, <4>1
      <4>3. \A j \in Len(p)+1..Len(p)+((i+1)-m) : s[j] = path[j - Len(p) + m]
        BY <4>2 DEF x
      <4> HIDE DEF s
      <4> QED
        BY <3>2, <4>3
    <3>4. Len(p) + (i - m) + 1 - Len(p) + m = i + 1
      BY <1>2
    <3> QED
      BY <1>1, <2>1, <3>1, <3>3, <3>4
  <2>4. \A j \in 1..Len(p) + (i - m) : s[j] = U(i)[j]
    <3>1. IsPrefix(U(i), s) /\ Len(U(i)) = Len(p) + (i - m)
      BY <1>1, <1>2, <1>4, <2>1
    <3> QED
      BY <1>1, <2>1, <2>3, <3>1, PrefixPointwise
  <2> HIDE DEF r, s
  <2>5. \A j \in 1..Len(p) + (i - m) + 1 : r[j] = s[j]
    <3>1. \A j \in 1..Len(p) + (i - m) + 1 :
             j \in 1..Len(p) + (i - m) \/ j = Len(p) + (i - m) + 1
      BY <1>2
    <3> QED
      BY <2>2, <2>3, <2>4, <3>1
  <2>6. r = s
    <3>1. Len(r) = Len(s) /\ Len(r) \in Nat
      BY <2>2, <2>3
    <3>2. 1..Len(r) = 1..Len(p) + (i - m) + 1
      BY <2>2
    <3>3. \A j \in 1..Len(r) : r[j] = s[j]
      BY <2>5, <3>2
    <3>4. IsPrefix(r, s)
      BY <2>2, <2>3, <3>1, <3>3, PrefixPointwise
    <3> QED
      BY <2>2, <2>3, <3>1, <3>4, PrefixEqual
  <2> QED
    BY <2>6 DEF r, s
<1> QED
  BY <1>1, <1>3, <1>4, <1>5, <1>6 DEF U


\* Once a component on the way is not a directory, nothing is found any more.
LEMMA FoundLost ==
  ASSUME NEW t, NEW path \in Seq(Component), NEW i \in 0..Len(path),
         Found(t, path)[i] = NULL
  PROVE  \A j \in i..Len(path) : Found(t, path)[j] = NULL
<1> DEFINE f == Found(t, path)
           K == {k \in Nat : i + k <= Len(path) => f[i + k] = NULL}
<1>0. \A j \in 1..Len(path) : f[j - 1] = NULL => f[j] = NULL
  BY FoundFacts, HoldsPlace, PathAssumption DEF NextPlace
<1> HIDE DEF f
<1>1. 0 \in K
  BY DEF f
<1>2. ASSUME NEW k \in Nat, k \in K PROVE k + 1 \in K
  <2> SUFFICES ASSUME i + (k + 1) <= Len(path) PROVE f[i + (k + 1)] = NULL
    OBVIOUS
  <2>1. f[i + k] = NULL /\ i + (k + 1) \in 1..Len(path) /\ i + (k + 1) - 1 = i + k
    BY <1>2
  <2> QED
    BY <1>0, <2>1
<1> HIDE DEF K
<1>3. Nat \subseteq K
  BY <1>1, <1>2, NatSetInduction
<1>4. ASSUME NEW j \in i..Len(path) PROVE f[j] = NULL
  <2>1. j - i \in Nat /\ i + (j - i) = j
    OBVIOUS
  <2>2. j - i \in K
    BY <1>3, <2>1
  <2> QED
    BY <2>1, <2>2 DEF K
<1> QED
  BY <1>4 DEF f

\* r is where path leads in t: its first m components are found and the place of
\* the last of them is in the worktree and no link; if components remain it is a
\* directory that has nothing under the next name, and they are rejoined.
Resolution(t, path, r, m) ==
    /\ m \in 0..Len(path)
    /\ \A i \in 0..m-1 : Holds(t, Found(t, path)[i]) = DIR
    /\ Found(t, path)[m] \in Place
    /\ Holds(t, Found(t, path)[m]) \notin {ABSENT, LINK}
    /\ IsPrefix(Root, Found(t, path)[m])
    /\ m < Len(path) =>
          /\ Holds(t, Found(t, path)[m]) = DIR
          /\ Holds(t, Append(Found(t, path)[m], path[m + 1])) = ABSENT
    /\ r = Under(Found(t, path)[m], path, m, Len(path))

\* No link leads to a link.
LEMMA FoundNoLink ==
  ASSUME NEW t \in Trees, NEW path \in Seq(Component), NEW m \in 0..Len(path),
         Found(t, path)[m] # NULL
  PROVE  Holds(t, Found(t, path)[m]) # LINK
<1> DEFINE f == Found(t, path)
<1>1. CASE m = 0
  <2>1. IsPrefix(Root, Root) /\ Root \in Place
    BY PathAssumption, PrefixPointwise, HoldsPlace
  <2>2. Root \notin Loc
    BY <2>1, PathAssumption
  <2>3. f[0] = Root
    BY FoundFacts
  <2> QED
    BY <1>1, <2>1, <2>2, <2>3, HoldsPlace, PathAssumption
<1>2. CASE m # 0
  <2>1. m \in 1..Len(path) /\ f[m] = NextPlace(t, f[m-1], path[m])
    BY <1>2, FoundFacts
  <2> DEFINE l == Append(f[m-1], path[m])
  <2>2. f[m] = IF Holds(t, l) = LINK THEN Link[l] ELSE l
    BY <2>1 DEF NextPlace
  <2> HIDE DEF f, l
  <2>3. CASE Holds(t, l) = LINK
    <3>1. l \in Loc /\ t[l] = LINK
      BY <2>3, HoldsPlace, PathAssumption
    <3>2. l \in DOMAIN Link
      BY <3>1, PathAssumption
    <3>3. Link[l] \in (Place \ DOMAIN Link) \cup {NULL}
      BY <3>2, PathAssumption
    <3>4. f[m] \in Place \ DOMAIN Link
      BY <2>2, <2>3, <3>3 DEF f
    <3>5. CASE f[m] \in Loc
      <4>1. t[f[m]] # LINK
        BY <3>4, <3>5, PathAssumption
      <4> QED
        BY <3>5, <4>1, HoldsPlace DEF f
    <3>6. CASE f[m] \notin Loc
      BY <3>4, <3>6, HoldsPlace, PathAssumption DEF f
    <3> QED
      BY <3>5, <3>6
  <2>4. CASE Holds(t, l) # LINK
    BY <2>2, <2>4 DEF f
  <2> QED
    BY <2>3, <2>4
<1> QED
  BY <1>1, <1>2

LEMMA ResolveWithinFacts ==
  ASSUME NEW t \in Trees, NEW path \in Seq(Component),
         ResolveWithin(t, path) # NULL
  PROVE  \E m : Resolution(t, path, ResolveWithin(t, path), m)
<1> DEFINE f == Found(t, path)
           n == Len(path)
           seen(i) == /\ Holds(t, f[i-1]) = DIR
                      /\ Holds(t, Append(f[i-1], path[i])) # ABSENT
           S == {0} \cup {i \in DOMAIN path : seen(i)}
           m == Max(S)
           r == ResolveWithin(t, path)
<1>1. n \in Nat /\ DOMAIN path = 1..n
  OBVIOUS
<1>2. m \in S /\ \A i \in S : m >= i
  <2>1. S \in SUBSET (0..n) /\ S # {}
    BY <1>1
  <2> HIDE DEF S
  <2> QED
    BY <1>1, <2>1, MaxExists
<1>3. r = IF \/ Holds(t, f[m]) = ABSENT
             \/ m < n /\ Holds(t, f[m]) # DIR
             \/ ~Inside(f[m])
          THEN NULL ELSE Rejoin(f, path, m)
  BY DEF ResolveWithin
<1>4. m \in 0..n
  BY <1>1, <1>2
<1>5. ~(m + 1 \in 1..n /\ seen(m + 1))
  <2> SUFFICES ASSUME m + 1 \in S PROVE FALSE
    BY <1>1
  <2> HIDE DEF S, m
  <2> QED
    BY <1>2, <1>4
<1> HIDE DEF m, S, f
<1>6. /\ Holds(t, f[m]) # ABSENT /\ (m < n => Holds(t, f[m]) = DIR)
      /\ IsPrefix(Root, f[m]) /\ r = Under(f[m], path, m, n)
  BY <1>3 DEF Inside, Rejoin, Under
<1>7. f[m] \in Place /\ f[m] # NULL
  BY <1>6, HoldsPlace
<1>8. ASSUME NEW i \in 0..m-1 PROVE Holds(t, f[i]) = DIR
  <2>1. i + 1 \in 0..n /\ m \in (i+1)..n
    BY <1>1, <1>4
  <2>2. f[i + 1] # NULL
    BY <1>7, <2>1, FoundLost DEF f
  <2>3. f[i + 1] = NextPlace(t, f[i], path[i + 1])
    <3>1. i + 1 \in 1..n /\ (i + 1) - 1 = i
      BY <1>1, <1>4
    <3> QED
      BY <3>1, FoundFacts DEF f
  <2> QED
    BY <2>2, <2>3 DEF NextPlace
<1>9. m < n => Holds(t, Append(f[m], path[m + 1])) = ABSENT
  <2> SUFFICES ASSUME m < n PROVE Holds(t, Append(f[m], path[m + 1])) = ABSENT
    OBVIOUS
  <2>1. m + 1 \in 1..n /\ (m + 1) - 1 = m
    BY <1>1, <1>4
  <2> QED
    BY <1>5, <1>6, <2>1
<1>10. Holds(t, f[m]) # LINK
  BY <1>4, <1>7, FoundNoLink DEF f
<1>11. Resolution(t, path, r, m)
  <2> HIDE DEF r
  <2> QED
    BY <1>4, <1>6, <1>7, <1>8, <1>9, <1>10 DEF Resolution, f
<1> QED
  BY <1>11


LEMMA ResolutionFacts ==
  ASSUME NEW t \in Trees, NEW path \in Seq(Component), NEW r, NEW m,
         Resolution(t, path, r, m)
  PROVE  /\ r \in Seq(Component) /\ IsPrefix(Root, r)
         /\ \A i \in m+1..Len(path) :
               Holds(t, Under(Found(t, path)[m], path, m, i)) = ABSENT
         /\ Holds(t, r) # LINK
         /\ Holds(t, r) # ABSENT => m = Len(path)
         /\ m = Len(path) => r = Found(t, path)[m]
         /\ \A a \in Loc : IsStrictPrefix(a, r) => t[a] \in {DIR, ABSENT}
<1> DEFINE p == Found(t, path)[m]
           n == Len(path)
           U(i) == Under(p, path, m, i)
<1>1. /\ m \in 0..n /\ n \in Nat
      /\ p \in Place /\ Holds(t, p) \notin {ABSENT, LINK} /\ IsPrefix(Root, p)
      /\ m < n => Holds(t, p) = DIR /\ Holds(t, Append(p, path[m + 1])) = ABSENT
      /\ r = U(n)
  BY DEF Resolution
<1> HIDE DEF p
<1>2. p \in Seq(Component) /\ Root \in Seq(Component)
  BY <1>1, PlaceSeq, PathAssumption
<1>3. /\ U(m) = p
      /\ \A i \in m..n : /\ U(i) \in Seq(Component) /\ Len(U(i)) = Len(p) + (i - m)
                         /\ IsPrefix(p, U(i))
      /\ \A i \in m..n-1 : U(i + 1) = Append(U(i), path[i + 1])
      /\ \A i, j \in m..n : i <= j => IsPrefix(U(i), U(j))
  BY ZenonT(60), <1>1, <1>2, UnderFacts
<1> HIDE DEF U
<1>4. r \in Seq(Component) /\ IsPrefix(p, r)
  BY <1>1, <1>3
<1>5. IsPrefix(Root, r)
  BY <1>1, <1>2, <1>4, PrefixTransitive
<1>6. m < n => U(m + 1) = Append(p, path[m + 1]) /\ m + 1 \in m..n
  BY <1>1, <1>3
<1>7. ASSUME NEW i \in m+1..n PROVE Holds(t, U(i)) = ABSENT
  <2>1. m < n /\ i \in m..n /\ m + 1 \in m..n /\ m + 1 <= i
    BY <1>1
  <2>2. Holds(t, U(m + 1)) = ABSENT /\ U(m + 1) \in Seq(Component)
    BY <1>1, <1>3, <1>6, <2>1
  <2>3. IsPrefix(U(m + 1), U(i)) /\ U(i) \in Seq(Component)
    BY <1>3, <2>1
  <2> QED
    BY <2>2, <2>3, AbsentBelow
<1>8. m = n => r = p
  BY <1>1, <1>3
<1>9. m # n => Holds(t, r) = ABSENT
  <2>1. m # n => n \in m+1..n
    BY <1>1
  <2> QED
    BY <1>1, <1>7, <2>1
<1>10. Holds(t, r) # LINK /\ (Holds(t, r) # ABSENT => m = n)
  BY <1>1, <1>8, <1>9, PathAssumption
<1>11. ASSUME NEW a \in Loc, IsStrictPrefix(a, p)
       PROVE  t[a] = DIR
  <2>1. a \in Seq(Component) /\ IsPrefix(a, p) /\ a # p
    BY <1>11, PathAssumption DEF IsStrictPrefix
  <2>2. CASE p \in Loc
    <3>1. a \in Above[p] /\ t[p] # ABSENT
      BY <1>1, <1>11, <2>2, HoldsPlace DEF Above
    <3> QED
      BY <2>2, <3>1, PathAssumption
  <2>3. CASE p \notin Loc
    <3>1. PICK i \in 0..Len(Root) : p = SubSeq(Root, 1, i)
      BY <1>1, <2>3 DEF Place
    <3>2. Len(p) = i /\ \A j \in 1..i : p[j] = Root[j]
      BY <1>2, <3>1
    <3>3. IsPrefix(p, Root)
      BY <1>2, <3>2, PrefixPointwise
    <3>4. IsPrefix(a, Root)
      BY <1>2, <2>1, <3>3, PrefixTransitive
    <3> QED
      BY <3>4, PathAssumption
  <2> QED
    BY <2>2, <2>3
<1>12. ASSUME NEW a \in Loc, IsStrictPrefix(a, r)
       PROVE  t[a] \in {DIR, ABSENT}
  <2>1. a \in Seq(Component) /\ IsPrefix(a, r) /\ a # r /\ Len(a) < Len(r)
    BY <1>4, <1>12, PathAssumption, StrictPrefixShorter DEF IsStrictPrefix
  <2>2. CASE Len(a) < Len(p)
    <3>1. IsPrefix(a, p)
      BY <1>2, <1>4, <2>1, <2>2, PrefixLinear
    <3>2. IsStrictPrefix(a, p)
      BY <1>2, <2>1, <2>2, <3>1, StrictPrefixShorter
    <3> QED
      BY <1>11, <3>2
  <2>3. CASE Len(a) = Len(p)
    <3>1. IsPrefix(a, p)
      BY <1>2, <1>4, <2>1, <2>3, PrefixLinear
    <3>2. a = p
      BY <1>2, <2>1, <2>3, <3>1, PrefixEqual
    <3>3. m < n
      BY <1>1, <1>8, <2>1, <3>2
    <3> QED
      BY <1>1, <3>2, <3>3, HoldsPlace
  <2>4. CASE Len(p) < Len(a)
    <3>1. m < n
      BY <1>1, <1>8, <2>1, <2>4
    <3>2. /\ m + 1 \in m..n /\ U(m+1) \in Seq(Component) /\ IsPrefix(U(m+1), r)
          /\ Len(U(m+1)) = Len(p) + 1 /\ Holds(t, U(m+1)) = ABSENT
      <4>1. m + 1 \in m..n /\ m + 1 \in m+1..n /\ n \in m..n /\ m + 1 <= n /\ (m + 1) - m = 1
        BY <1>1, <3>1
      <4>2. U(m+1) \in Seq(Component) /\ Len(U(m+1)) = Len(p) + ((m + 1) - m)
        BY <1>3, <4>1
      <4> QED
        BY <1>1, <1>3, <1>7, <4>1, <4>2
    <3>3. Len(p) \in Nat /\ Len(a) \in Nat
      BY <1>2, <2>1
    <3>4. Len(U(m+1)) <= Len(a)
      BY <2>4, <3>2, <3>3
    <3>5. IsPrefix(U(m+1), a)
      BY <1>4, <2>1, <3>2, <3>4, PrefixLinear
    <3>6. Holds(t, a) = ABSENT
      BY <2>1, <3>2, <3>5, AbsentBelow
    <3> QED
      BY <3>6, HoldsPlace
  <2>5. Len(a) \in Nat /\ Len(p) \in Nat
    BY <1>2, <2>1
  <2> QED
    BY <2>2, <2>3, <2>4, <2>5
<1> QED
  BY <1>4, <1>5, <1>7, <1>8, <1>10, <1>12 DEF U, p

\* The target of a planned operation: a file or nothing, in the worktree, with
\* nothing but directories above it, as far as they exist.
LEMMA TargetFacts ==
  ASSUME NEW t \in Trees, NEW name \in Name,
         Resolve[t][name] # NULL, Holds(t, Resolve[t][name]) # DIR
  PROVE  /\ Resolve[t][name] \in Loc /\ IsPrefix(Root, Resolve[t][name])
         /\ t[Resolve[t][name]] \in Content \cup {ABSENT}
         /\ \A a \in Above[Resolve[t][name]] : t[a] \in {DIR, ABSENT}
         /\ Rel[name] \in Seq(Component) \ {<<>>}
         /\ \E m : Resolution(t, Rel[name], Resolve[t][name], m)
<1> DEFINE l == Resolve[t][name]
           path == Rel[name]
<1>1. path # NULL /\ l = ResolveWithin(t, path)
  BY DEF Resolve
<1>2. path \in Seq(Component) \ {<<>>}
  BY <1>1, PathAssumption
<1>3. l \in Place
  BY ReachAssumption
<1>4. l \in Loc
  BY <1>3, HoldsPlace
<1> HIDE DEF l, path
<1>5. PICK m : Resolution(t, path, l, m)
  BY <1>1, <1>2, ResolveWithinFacts DEF l
<1>6. /\ IsPrefix(Root, l) /\ Holds(t, l) # LINK
      /\ \A a \in Loc : IsStrictPrefix(a, l) => t[a] \in {DIR, ABSENT}
  BY <1>2, <1>5, ResolutionFacts
<1>7. t[l] \in Content \cup {ABSENT}
  <2>1. t[l] \in Held /\ Holds(t, l) = t[l]
    BY <1>4, PathAssumption, HoldsPlace
  <2> QED
    BY <1>6, <2>1 DEF Held, l
<1>8. \A a \in Above[l] : t[a] \in {DIR, ABSENT}
  BY <1>4, <1>6 DEF Above
<1> QED
  BY <1>2, <1>4, <1>5, <1>6, <1>7, <1>8 DEF l, path


\* Following the same path later, when directories and links are still there and
\* other places may hold something else: what is found is the resolved place or
\* nothing, and it is found once every place above it is a directory.
LEMMA FoundAgain ==
  ASSUME NEW t \in Trees, NEW path \in Seq(Component), NEW r \in Loc, NEW m,
         Resolution(t, path, r, m),
         NEW fs \in [Loc -> Held],
         \A l \in Loc : t[l] = DIR => fs[l] = DIR,
         \A l \in Loc : t[l] = LINK <=> fs[l] = LINK
  PROVE  /\ Found(fs, path)[Len(path)] \in {NULL, r}
         /\ \/ \A a \in Above[r] : fs[a] = DIR
            \/ t[r] # ABSENT
            => Found(fs, path)[Len(path)] = r
<1> DEFINE n == Len(path)
           f == Found(t, path)
           g == Found(fs, path)
           p == f[m]
           U(i) == Under(p, path, m, i)
<1>1. /\ m \in 0..n /\ n \in Nat
      /\ \A i \in 0..m-1 : Holds(t, f[i]) = DIR
      /\ p \in Place /\ r = U(n)
  BY DEF Resolution
<1>2. /\ f[0] = Root /\ \A i \in 1..n : f[i] = NextPlace(t, f[i-1], path[i])
      /\ g[0] = Root /\ \A i \in 1..n : g[i] = NextPlace(fs, g[i-1], path[i])
  BY FoundFacts
<1>3. /\ \A i \in m+1..n : Holds(t, U(i)) = ABSENT
      /\ Holds(t, r) # ABSENT => m = n
      /\ m = n => r = p
  BY ResolutionFacts
<1>4. p \in Seq(Component)
  BY <1>1, PlaceSeq
<1> HIDE DEF f, g, p
<1>5. /\ U(m) = p
      /\ \A i \in m..n : U(i) \in Seq(Component) /\ Len(U(i)) = Len(p) + (i - m)
      /\ \A i \in m..n-1 : U(i + 1) = Append(U(i), path[i + 1])
      /\ \A i \in m..n : IsPrefix(U(i), U(n))
  <2>1. \A i \in m..n : n \in m..n /\ i <= n
    BY <1>1
  <2> QED
    BY <1>1, <1>4, <2>1, UnderFacts
<1> HIDE DEF U
<1>6. \A l : Holds(t, l) = DIR => Holds(fs, l) = DIR
  BY DEF Holds
<1>7. \A l : Holds(t, l) = LINK <=> Holds(fs, l) = LINK
  BY PathAssumption DEF Holds
<1>8. \A i \in 0..m : g[i] = f[i]
  <2> DEFINE K == {i \in Nat : i <= m => g[i] = f[i]}
  <2>1. 0 \in K
    BY <1>2
  <2>2. ASSUME NEW i \in Nat, i \in K PROVE i + 1 \in K
    <3> SUFFICES ASSUME i + 1 <= m PROVE g[i + 1] = f[i + 1]
      OBVIOUS
    <3>1. i \in 0..m-1 /\ i + 1 \in 1..n /\ (i + 1) - 1 = i /\ g[i] = f[i]
      BY <1>1, <2>2
    <3>2. Holds(t, f[i]) = DIR /\ Holds(fs, f[i]) = DIR
      BY <1>1, <1>6, <3>1
    <3>3. g[i+1] = NextPlace(fs, g[i], path[i+1]) /\ f[i+1] = NextPlace(t, f[i], path[i+1])
      BY <1>2, <3>1
    <3> QED
      BY <1>7, <3>1, <3>2, <3>3 DEF NextPlace
  <2> HIDE DEF K
  <2>3. Nat \subseteq K
    BY <2>1, <2>2, NatSetInduction
  <2> QED
    BY <1>1, <2>3 DEF K
<1>9. ASSUME NEW i \in m..n-1, g[i] = U(i)
      PROVE  g[i + 1] = IF Holds(fs, U(i)) = DIR THEN U(i + 1) ELSE NULL
  <2>1. i + 1 \in 1..n /\ (i + 1) - 1 = i /\ i + 1 \in m+1..n
    BY <1>1
  <2>2. g[i + 1] = NextPlace(fs, U(i), path[i + 1])
    BY <1>2, <1>9, <2>1
  <2>3. Holds(fs, U(i + 1)) # LINK /\ U(i + 1) = Append(U(i), path[i + 1])
    BY <1>3, <1>5, <1>7, <2>1, PathAssumption
  <2> QED
    BY <2>2, <2>3 DEF NextPlace
<1>10. \A i \in 0..n : g[i] = NULL => \A j \in i..n : g[j] = NULL
  BY FoundLost DEF g
<1>11. ASSUME NEW i \in m..n-1, \A a \in Above[r] : fs[a] = DIR
       PROVE  Holds(fs, U(i)) = DIR
  <2>1. i \in m..n /\ n \in m..n /\ i < n
    BY <1>1
  <2>2. /\ U(i) \in Seq(Component) /\ r \in Seq(Component) /\ IsPrefix(U(i), r)
        /\ Len(U(i)) = Len(p) + (i - m) /\ Len(r) = Len(p) + (n - m)
    BY <1>1, <1>5, <2>1
  <2>3. Len(U(i)) < Len(r) /\ Len(U(i)) \in 0..Len(r)
    BY <1>1, <1>4, <2>1, <2>2
  <2>4. IsStrictPrefix(U(i), r) /\ U(i) = SubSeq(r, 1, Len(U(i)))
    BY <2>2, <2>3, StrictPrefixShorter, PrefixIsSubSeq
  <2>5. U(i) \in Place
    BY <2>3, <2>4, PathAssumption
  <2>6. CASE U(i) \in Loc
    <3>1. U(i) \in Above[r]
      BY <2>4, <2>6 DEF Above
    <3> QED
      BY <1>11, <2>6, <3>1, HoldsPlace
  <2>7. CASE U(i) \notin Loc
    BY <2>5, <2>7, HoldsPlace
  <2> QED
    BY <2>6, <2>7
<1> DEFINE K == {k \in Nat : m + k <= n => g[m + k] \in {NULL, U(m + k)}}
           L == {k \in Nat : m + k <= n => g[m + k] = U(m + k)}
<1>12. 0 \in K /\ 0 \in L
  BY <1>1, <1>5, <1>8 DEF p
<1>13. ASSUME NEW k \in Nat, k \in K PROVE k + 1 \in K
  <2> SUFFICES ASSUME m + (k + 1) <= n
               PROVE  g[m + (k + 1)] \in {NULL, U(m + (k + 1))}
    OBVIOUS
  <2>1. m + k \in m..n-1 /\ m + k \in 0..n /\ m + (k + 1) = (m + k) + 1
        /\ (m + k) + 1 \in (m + k)..n /\ g[m + k] \in {NULL, U(m + k)}
    BY <1>1, <1>13
  <2>2. CASE g[m + k] = NULL
    BY <1>10, <2>1, <2>2
  <2>3. CASE g[m + k] = U(m + k)
    BY <1>9, <2>1, <2>3
  <2> QED
    BY <2>1, <2>2, <2>3
<1>14. ASSUME \A a \in Above[r] : fs[a] = DIR, NEW k \in Nat, k \in L
       PROVE  k + 1 \in L
  <2> SUFFICES ASSUME m + (k + 1) <= n PROVE g[m + (k + 1)] = U(m + (k + 1))
    OBVIOUS
  <2>1. m + k \in m..n-1 /\ m + (k + 1) = (m + k) + 1 /\ g[m + k] = U(m + k)
    BY <1>1, <1>14
  <2> QED
    BY <1>9, <1>11, <1>14, <2>1
<1> HIDE DEF K, L
<1>15. n - m \in Nat /\ m + (n - m) = n /\ m + (n - m) <= n
  BY <1>1
<1>16. g[n] \in {NULL, r}
  <2>1. n - m \in K
    BY <1>12, <1>13, <1>15, NatSetInduction
  <2> QED
    BY <1>1, <1>15, <2>1 DEF K
<1>17. ASSUME \A a \in Above[r] : fs[a] = DIR PROVE g[n] = r
  <2>1. \A k \in Nat : k \in L => k + 1 \in L
    BY <1>14, <1>17
  <2>2. n - m \in L
    BY <1>12, <1>15, <2>1, NatSetInduction
  <2> QED
    BY <1>1, <1>15, <2>2 DEF L
<1>18. ASSUME t[r] # ABSENT PROVE g[n] = r
  <2>1. m = n /\ r = p
    BY <1>3, <1>18, HoldsPlace
  <2> QED
    BY <1>1, <1>8, <2>1 DEF p
<1> QED
  BY <1>16, <1>17, <1>18 DEF g

=============================================================================

---------------------------- MODULE ExtractProofs ----------------------------
(***************************************************************************)
(* What extract writes, proved for any artifacts: every file in its place, *)
(* and a directory that packs to the artifact it came from.                *)
(*                                                                         *)
(* The first half is about packing alone.  FlattenSeq is whatever follows  *)
(* its recurrence (FlattenSeqIs), so what is flattened can be taken apart; *)
(* the items read off the layers of a pack are the items packed, the files *)
(* renamed to where they were put (PackOfBuilt, by induction over them);   *)
(* and packed from what extract writes each item has its layers again      *)
(* (SameLayers), because all that lies deeper than the files, the config   *)
(* and the pack file lies where it lay in the tree that was packed         *)
(* (DeeperIsAsItWas).  RoundTrip puts this together.                       *)
(*                                                                         *)
(* The second half is about the command.  In an open directory all that    *)
(* belongs to its artifact is stored or waits, nothing waits behind the    *)
(* pack file, and nothing else is written (Underway); so a directory with  *)
(* a pack file is the tree RoundTrip asks for.                             *)
(***************************************************************************)
EXTENDS ReaderProofs

-----------------------------------------------------------------------------
(* Sequences of any elements, and what FlattenSeq makes of a sequence of   *)
(* them: the last value of a running concatenation.                        *)

IsSeq(s) == s \in Seq(Elements(s))
AreSeqs(F, L) ==
  L \in Nat /\ F = [i \in 1 .. L |-> F[i]] /\ \A i \in 1 .. L : IsSeq(F[i])
Runs(up, F, L) == up[0] = << >> /\ \A n \in 1 .. L : up[n] = up[n - 1] \o F[n]

LEMMA AreSeqsOf ==
  ASSUME NEW F, NEW L, AreSeqs(F, L)
  PROVE  \E X : F \in [1 .. L -> Seq(X)]
<1>1. PICK X : X = UNION {Elements(F[i]) : i \in 1 .. L}
  OBVIOUS
<1>2. ASSUME NEW i \in 1 .. L PROVE F[i] \in Seq(X)
  <2>1. Elements(F[i]) \subseteq X
    BY <1>1
  <2> QED BY <2>1, SeqOfMore DEF AreSeqs, IsSeq
<1>3. F \in [1 .. L -> Seq(X)]
  BY <1>2 DEF AreSeqs
<1> QED BY <1>3

LEMMA FlattenSeqRuns ==
  ASSUME NEW F, NEW L, AreSeqs(F, L)
  PROVE  \E up : Runs(up, F, L) /\ FlattenSeq(F) = up[L] /\ IsSeq(FlattenSeq(F))
<1>0. PICK X : L \in Nat /\ F \in [1 .. L -> Seq(X)] /\ Len(F) = L
  <2>1. PICK X : F \in [1 .. L -> Seq(X)]
    BY AreSeqsOf
  <2> QED BY <2>1 DEF AreSeqs
<1>1. FlattenSeq(F) \in Seq(X)
  BY <1>0, FlattenSeqHas
<1>2. IsSeq(FlattenSeq(F))
  BY <1>1, SeqOfElements DEF IsSeq
<1>3. CASE L = 0
  <2>1. FlattenSeq(F) = F /\ F = << >>
    BY <1>0, <1>3 DEF FlattenSeq
  <2>2. PICK up : up = [n \in 0 .. 0 |-> << >>]
    OBVIOUS
  <2>3. up[0] = << >> /\ 1 .. L = {}
    BY <1>3, <2>2
  <2> QED BY <1>2, <1>3, <2>1, <2>3 DEF Runs
<1>4. CASE L # 0
  <2>1. \E up : up[0] = << >> /\ (\A n \in 1 .. L : up[n] = up[n - 1] \o F[n]) /\ FlattenSeq(F) = up[L]
    BY <1>0, <1>4, FlattenSeqGoes
  <2> QED BY <1>2, <2>1 DEF Runs
<1> QED BY <1>3, <1>4

(* There is only one such concatenation, so any will do.                   *)
LEMMA FlattenSeqIs ==
  ASSUME NEW F, NEW L, AreSeqs(F, L), NEW up, Runs(up, F, L)
  PROVE  FlattenSeq(F) = up[L]
<1>1. PICK h : Runs(h, F, L) /\ FlattenSeq(F) = h[L]
  BY FlattenSeqRuns
<1>2. L \in Nat
  BY DEF AreSeqs
<1> DEFINE S == {n \in 0 .. L : h[n] = up[n]}
<1>3. 0 \in S
  BY <1>1, <1>2 DEF Runs
<1>4. ASSUME NEW n \in 1 .. L, n - 1 \in S PROVE n \in S
  <2>1. n \in 0 .. L /\ h[n - 1] = up[n - 1]
    BY <1>2, <1>4
  <2>2. h[n] = h[n - 1] \o F[n] /\ up[n] = up[n - 1] \o F[n]
    BY <1>1 DEF Runs
  <2> QED BY <2>1, <2>2
<1>5. \A n \in 0 .. L : n \in S
  <2> HIDE DEF S
  <2> QED BY <1>2, <1>3, <1>4, CountingUp
<1>6. L \in 0 .. L
  BY <1>2
<1> QED BY <1>1, <1>5, <1>6

LEMMA TypedDomain ==
  ASSUME NEW X, NEW s \in Seq(X)
  PROVE  Len(s) \in Nat /\ DOMAIN s = 1 .. Len(s) /\ \A i \in DOMAIN s : i \in Nat
OBVIOUS

(* Concatenation, of sequences of any elements.                            *)
AreJoined(s, t, u) ==
  /\ IsSeq(u) /\ Len(s) \in Nat /\ Len(t) \in Nat
  /\ Len(u) = Len(s) + Len(t) /\ DOMAIN u = 1 .. Len(s) + Len(t)
  /\ DOMAIN s = 1 .. Len(s) /\ DOMAIN t = 1 .. Len(t)
  /\ \A i \in 1 .. Len(s) + Len(t) : u[i] = IF i <= Len(s) THEN s[i] ELSE t[i - Len(s)]

LEMMA OneOf ==
  ASSUME NEW x, NEW s, s = << x >>
  PROVE  DOMAIN s = {1} /\ s[1] = x /\ IsSeq(s)
<1>1. s \in Seq({x}) /\ DOMAIN s = {1} /\ s[1] = x
  OBVIOUS
<1> QED BY <1>1, SeqOfElements DEF IsSeq

LEMMA JoinOf ==
  ASSUME NEW s, NEW t, IsSeq(s), IsSeq(t)
  PROVE  AreJoined(s, t, s \o t)
<1>1. PICK X : X = Elements(s) \cup Elements(t)
  OBVIOUS
<1>2. s \in Seq(X) /\ t \in Seq(X)
  BY <1>1, SeqOfMore DEF IsSeq
<1>3. s \o t \in Seq(X)
  BY <1>2
<1>4. IsSeq(s \o t)
  BY <1>3, SeqOfElements DEF IsSeq
<1> QED BY <1>2, <1>3, <1>4 DEF AreJoined

LEMMA JoinNothing ==
  ASSUME NEW s, IsSeq(s)
  PROVE  << >> \o s = s /\ s \o << >> = s /\ IsSeq(<< >>)
BY DEF IsSeq

LEMMA JoinThree ==
  ASSUME NEW s, NEW t, NEW u, IsSeq(s), IsSeq(t), IsSeq(u)
  PROVE  (s \o t) \o u = s \o (t \o u)
<1>1. PICK X : X = Elements(s) \cup Elements(t) \cup Elements(u)
  OBVIOUS
<1>2. s \in Seq(X) /\ t \in Seq(X) /\ u \in Seq(X)
  BY <1>1, SeqOfMore DEF IsSeq
<1> HIDE DEF IsSeq
<1> QED BY <1>2

LEMMA RunsAreSeqs ==
  ASSUME NEW F, NEW L, AreSeqs(F, L), NEW up, Runs(up, F, L)
  PROVE  \A n \in 0 .. L : IsSeq(up[n])
<1>1. L \in Nat
  BY DEF AreSeqs
<1> DEFINE S == {n \in 0 .. L : IsSeq(up[n])}
<1>2. 0 \in S
  <2>1. IsSeq(<< >>)
    BY DEF IsSeq
  <2>2. up[0] = << >> /\ 0 \in 0 .. L
    BY <1>1 DEF Runs
  <2> QED BY <2>1, <2>2, Zenon
<1>3. ASSUME NEW n \in 1 .. L, n - 1 \in S PROVE n \in S
  <2>1. n \in 0 .. L /\ up[n] = up[n - 1] \o F[n] /\ IsSeq(up[n - 1]) /\ IsSeq(F[n])
    BY <1>1, <1>3 DEF Runs, AreSeqs
  <2>2. PICK s, t : s = up[n - 1] /\ t = F[n]
    OBVIOUS
  <2>3. IsSeq(s \o t)
    BY <2>1, <2>2, JoinOf DEF AreJoined
  <2>4. IsSeq(up[n])
    BY <2>1, <2>2, <2>3, Zenon
  <2> QED BY <2>1, <2>4
<1>4. \A n \in 0 .. L : n \in S
  <2> HIDE DEF S
  <2> QED BY <1>1, <1>2, <1>3, CountingUp
<1> QED BY <1>4

(* What is flattened part by part.                                         *)
Behind(A, n, B, m, C) == C = [k \in 1 .. n + m |-> IF k <= n THEN A[k] ELSE B[k - n]]
LEMMA FlattenBoth ==
  ASSUME NEW A, NEW n, AreSeqs(A, n), NEW B, NEW m, AreSeqs(B, m), NEW C, Behind(A, n, B, m, C)
  PROVE  FlattenSeq(C) = FlattenSeq(A) \o FlattenSeq(B)
<1>0. C = [k \in 1 .. n + m |-> IF k <= n THEN A[k] ELSE B[k - n]]
  BY DEF Behind
<1>1. PICK a : Runs(a, A, n) /\ FlattenSeq(A) = a[n]
  BY FlattenSeqRuns
<1>2. PICK b : Runs(b, B, m) /\ FlattenSeq(B) = b[m]
  BY FlattenSeqRuns
<1>3. n \in Nat /\ m \in Nat /\ n + m \in Nat
  BY DEF AreSeqs
<1>4. (\A k \in 0 .. n : IsSeq(a[k])) /\ (\A k \in 0 .. m : IsSeq(b[k]))
  BY <1>1, <1>2, RunsAreSeqs
<1>5. PICK up : up = [k \in 0 .. n + m |-> IF k <= n THEN a[k] ELSE a[n] \o b[k - n]]
  OBVIOUS
<1>6. ASSUME NEW k \in 0 .. m PROVE n + k \in 0 .. n + m /\ up[n + k] = a[n] \o b[k]
  <2>1. n + k \in 0 .. n + m /\ n + k - n = k
    BY <1>3
  <2>2. CASE k = 0
    <3>1. n + k = n /\ up[n] = a[n] /\ b[0] = << >> /\ IsSeq(a[n])
      BY <1>2, <1>3, <1>4, <1>5, <2>1, <2>2 DEF Runs
    <3> QED BY <2>1, <2>2, <3>1, JoinNothing
  <2>3. CASE k # 0
    <3>1. PICK j \in 0 .. n + m : j = n + k
      BY <2>1
    <3>2. ~(j <= n) /\ j - n = k
      BY <1>3, <2>3, <3>1
    <3>3. up[j] = a[n] \o b[j - n]
      BY <1>5, <3>2
    <3> QED BY <2>1, <3>1, <3>2, <3>3, Zenon
  <2> QED BY <2>2, <2>3
<1>7. AreSeqs(C, n + m)
  <2>1. ASSUME NEW k \in 1 .. n + m PROVE IsSeq(C[k])
    <3>1. CASE k <= n
      <4>1. k \in 1 .. n /\ C[k] = A[k]
        BY <1>0, <1>3, <3>1
      <4> QED BY <4>1 DEF AreSeqs
    <3>2. CASE ~(k <= n)
      <4>1. k - n \in 1 .. m /\ C[k] = B[k - n]
        BY <1>0, <1>3, <3>2
      <4> QED BY <4>1 DEF AreSeqs
    <3> QED BY <3>1, <3>2
  <2> QED BY <1>0, <1>3, <2>1 DEF AreSeqs
<1>8. Runs(up, C, n + m)
  <2>1. up[0] = << >>
    BY <1>1, <1>3, <1>5 DEF Runs
  <2>2. ASSUME NEW k \in 1 .. n + m PROVE up[k] = up[k - 1] \o C[k]
    <3>1. CASE k <= n
      <4>1. k \in 1 .. n /\ C[k] = A[k] /\ up[k] = a[k] /\ up[k - 1] = a[k - 1]
        BY <1>0, <1>3, <1>5, <3>1
      <4> QED BY <1>1, <4>1 DEF Runs
    <3>2. CASE ~(k <= n)
      <4>1. PICK j \in 1 .. m : j = k - n
        BY <1>3, <3>2
      <4>2. /\ k = n + j /\ j \in 0 .. m /\ j - 1 \in 0 .. m /\ k - 1 = n + (j - 1)
            /\ C[k] = B[j] /\ n \in 0 .. n
        BY <1>0, <1>3, <3>2, <4>1
      <4>3. up[k] = a[n] \o b[j] /\ up[k - 1] = a[n] \o b[j - 1]
        BY <1>6, <4>2
      <4>4. b[j] = b[j - 1] \o B[j] /\ IsSeq(B[j]) /\ IsSeq(b[j - 1]) /\ IsSeq(a[n])
        BY <1>2, <1>4, <4>2 DEF Runs, AreSeqs
      <4>5. PICK s, t, u : s = a[n] /\ t = b[j - 1] /\ u = B[j]
        OBVIOUS
      <4>6. (s \o t) \o u = s \o (t \o u)
        <5>1. IsSeq(s) /\ IsSeq(t) /\ IsSeq(u)
          BY <4>4, <4>5, Zenon
        <5> QED BY <5>1, JoinThree
      <4> QED BY <4>2, <4>3, <4>4, <4>5, <4>6, Zenon
    <3> QED BY <3>1, <3>2
  <2> QED BY <2>1, <2>2 DEF Runs
<1>9. FlattenSeq(C) = up[n + m]
  BY <1>7, <1>8, FlattenSeqIs
<1>10. m \in 0 .. m
  BY <1>3
<1> QED BY <1>1, <1>2, <1>6, <1>9, <1>10

LEMMA FlattenFirst ==
  ASSUME NEW L \in Nat \ {0}, NEW x, NEW F,
         F = [i \in 1 .. L |-> IF i = 1 THEN << x >> ELSE << >>]
  PROVE  FlattenSeq(F) = << x >>
<1>1. PICK one : one = << x >>
  OBVIOUS
<1>2. IsSeq(one)
  BY <1>1, OneOf
<1>3. /\ IsSeq(<< >>) /\ << >> \o one = one /\ one \o << >> = one
  BY <1>2, JoinNothing
<1>4. F = [i \in 1 .. L |-> IF i = 1 THEN one ELSE << >>]
  BY <1>1
<1>5. AreSeqs(F, L)
  BY <1>2, <1>3, <1>4 DEF AreSeqs
<1>6. PICK up : up = [n \in 0 .. L |-> IF n = 0 THEN << >> ELSE one]
  OBVIOUS
<1>7. Runs(up, F, L)
  <2>1. up[0] = << >>
    BY <1>6
  <2>2. ASSUME NEW n \in 1 .. L PROVE up[n] = up[n - 1] \o F[n]
    <3>1. up[n] = one
      BY <1>6
    <3>2. CASE n = 1
      <4>1. F[n] = one /\ up[n - 1] = << >>
        BY <1>4, <1>6, <3>2
      <4> QED BY <1>3, <3>1, <4>1
    <3>3. CASE n # 1
      <4>1. n - 1 \in 0 .. L /\ n - 1 # 0
        BY <3>3
      <4>2. F[n] = << >> /\ up[n - 1] = one
        BY <1>4, <1>6, <3>3, <4>1
      <4> QED BY <1>3, <3>1, <4>2
    <3> QED BY <3>2, <3>3
  <2> QED BY <2>1, <2>2 DEF Runs
<1>8. FlattenSeq(F) = up[L]
  BY <1>5, <1>7, FlattenSeqIs
<1> QED BY <1>1, <1>6, <1>8

LEMMA OneMore ==
  ASSUME NEW n \in Nat \ {0}, NEW g, NEW one, one = << g[n] >>
  PROVE  [i \in 1 .. n - 1 |-> g[i]] \o one = [i \in 1 .. n |-> g[i]]
<1>1. PICK s : s = [i \in 1 .. n - 1 |-> g[i]]
  OBVIOUS
<1>2. PICK t : t = [i \in 1 .. n |-> g[i]]
  OBVIOUS
<1>3. IsSeq(s) /\ Len(s) = n - 1
  <2>1. s \in Seq({g[i] : i \in 1 .. n}) /\ Len(s) = n - 1
    BY <1>1
  <2> QED BY <2>1, SeqOfElements DEF IsSeq
<1>4. IsSeq(one) /\ Len(one) = 1 /\ one[1] = g[n]
  BY OneOf
<1>5. PICK u : u = s \o one
  OBVIOUS
<1>6. AreJoined(s, one, u)
  BY <1>3, <1>4, <1>5, JoinOf
<1>7. /\ IsSeq(u) /\ DOMAIN u = 1 .. n
      /\ \A i \in 1 .. n : u[i] = IF i <= n - 1 THEN s[i] ELSE one[i - (n - 1)]
  BY <1>3, <1>4, <1>6 DEF AreJoined
<1>8. ASSUME NEW i \in 1 .. n PROVE u[i] = g[i]
  <2>1. CASE i <= n - 1
    BY <1>1, <1>7, <2>1
  <2>2. CASE ~(i <= n - 1)
    <3>1. i = n /\ i - (n - 1) = 1
      BY <2>2
    <3> QED BY <1>4, <1>7, <2>2, <3>1
  <2> QED BY <2>1, <2>2
<1>9. u = [i \in DOMAIN u |-> u[i]]
  BY <1>7 DEF IsSeq
<1>10. u = t
  BY <1>2, <1>7, <1>8, <1>9
<1> QED BY <1>1, <1>2, <1>5, <1>10

LEMMA FlattenOnes ==
  ASSUME NEW L \in Nat, NEW g, NEW F, F = [i \in 1 .. L |-> << g[i] >>]
  PROVE  FlattenSeq(F) = [i \in 1 .. L |-> g[i]]
<1>1. AreSeqs(F, L)
  <2>1. ASSUME NEW i \in 1 .. L PROVE IsSeq(F[i])
    <3>1. F[i] = << g[i] >>
      OBVIOUS
    <3> QED BY <3>1, OneOf
  <2> QED BY <2>1 DEF AreSeqs
<1>2. PICK up : up = [n \in 0 .. L |-> [i \in 1 .. n |-> g[i]]]
  OBVIOUS
<1>3. Runs(up, F, L)
  <2>1. up[0] = << >>
    <3>1. up[0] = [i \in 1 .. 0 |-> g[i]]
      BY <1>2
    <3> QED BY <3>1
  <2>2. ASSUME NEW n \in 1 .. L PROVE up[n] = up[n - 1] \o F[n]
    <3>1. n \in Nat \ {0} /\ n \in 0 .. L /\ n - 1 \in 0 .. L
      OBVIOUS
    <3>2. PICK one : one = << g[n] >>
      OBVIOUS
    <3>3. [i \in 1 .. n - 1 |-> g[i]] \o one = [i \in 1 .. n |-> g[i]]
      BY <3>1, <3>2, OneMore
    <3>4. F[n] = one
      BY <3>2
    <3>5. up[n] = [i \in 1 .. n |-> g[i]] /\ up[n - 1] = [i \in 1 .. n - 1 |-> g[i]]
      BY <1>2, <3>1
    <3> QED BY <3>3, <3>4, <3>5
  <2> QED BY <2>1, <2>2 DEF Runs
<1>4. FlattenSeq(F) = up[L]
  BY <1>1, <1>3, FlattenSeqIs
<1>5. L \in 0 .. L
  OBVIOUS
<1> QED BY <1>2, <1>4, <1>5

-----------------------------------------------------------------------------
(* Packing, and the pack file extract writes.  A directory has files of    *)
(* the tree in it; what is mounted is not taken for files; and when all of *)
(* it is one manifest, no directory is packed twice and a config is there. *)

FilesIn(path, tree) == {i \in DOMAIN Walk : Walk[i] \in DOMAIN tree /\ IsStrictPrefix(path, Walk[i])}
Suitable(item, tree) ==
  /\ item.config = NoPath
  /\ \/ item.kind = "file"
     \/ /\ item.kind = "dir" /\ item.path \in Seq(STRING) /\ item.path # NoPath
        /\ FilesIn(item.path, tree) # {}
     \/ item.kind = "oci" /\ KindOf(Entry(item.of, item.platform, None)) # "files"
Mixed(items) == \E i \in DOMAIN items : items[i].kind = "oci" \/ items[i].platform # None
DirsDiffer(items) ==
  \A i, j \in DOMAIN items :
    items[i].kind = "dir" /\ items[j].kind = "dir" /\ items[i].path = items[j].path => i = j
WellPacked(pack, tree) ==
  /\ IsSeq(pack.items) /\ ~Refused(pack)
  /\ \A i \in DOMAIN pack.items : Suitable(pack.items[i], tree)
  /\ ~Mixed(pack.items) => /\ DirsDiffer(pack.items)
                           /\ pack.config # NoPath => tree[pack.config] # None

(* The layers of an item, and what is read of them.                        *)
FileLayer(path, tree)   == Layer(<< Last(path) >>, NoPath, tree[path])
DirLayer(path, w, tree) == Layer(SubSeq(w, Len(path) + 1, Len(w)), path, tree[w])

LEMMA UnderDir ==
  ASSUME NEW path \in Seq(STRING), path # NoPath, NEW w \in Seq(STRING),
         IsStrictPrefix(path, w), NEW tree
  PROVE  /\ LayerPath(DirLayer(path, w, tree)) = w
         /\ DirLayer(path, w, tree).of = tree[w] /\ DirLayer(path, w, tree).dir = path
         /\ Len(w) \in Nat /\ Len(w) > 1
<1>1. PICK n, m \in Nat : n = Len(path) /\ m = Len(w)
  OBVIOUS
<1>2. n <= m /\ SubSeq(path, 1, n) = SubSeq(w, 1, n) /\ path # w
  BY <1>1 DEF IsStrictPrefix, IsPrefix
<1>3. n # 0
  BY <1>1 DEF NoPath
<1>4. \A i \in 1 .. n : path[i] = w[i]
  <2>1. ASSUME NEW i \in 1 .. n PROVE SubSeq(path, 1, n)[i] = path[i] /\ SubSeq(w, 1, n)[i] = w[i]
    BY <1>1, <1>2
  <2> QED BY <1>2, <2>1
<1>5. n # m
  BY <1>1, <1>2, <1>4
<1>6. PICK rest : rest = SubSeq(w, n + 1, m)
  OBVIOUS
<1>7. /\ rest \in Seq(STRING) /\ Len(rest) = m - n
      /\ \A i \in 1 .. m - n : rest[i] = w[i + n]
  BY <1>1, <1>2, <1>5, <1>6
<1>8. path \o rest = w
  <2>1. PICK u : u = path \o rest
    OBVIOUS
  <2>2. /\ u \in Seq(STRING) /\ Len(u) = m
        /\ \A i \in 1 .. m : u[i] = IF i <= n THEN path[i] ELSE rest[i - n]
    BY <1>1, <1>2, <1>7, <2>1
  <2>3. ASSUME NEW i \in 1 .. m PROVE u[i] = w[i]
    <3>1. CASE i <= n
      <4>1. i \in 1 .. n
        BY <1>1, <3>1
      <4> QED BY <1>4, <2>2, <3>1, <4>1
    <3>2. CASE ~(i <= n)
      <4>1. i - n \in 1 .. m - n /\ i - n + n = i
        BY <1>1, <3>2
      <4>2. u[i] = rest[i - n] /\ rest[i - n] = w[i - n + n]
        BY <1>7, <2>2, <3>2, <4>1
      <4> QED BY <4>1, <4>2
    <3> QED BY <3>1, <3>2
  <2>4. u = w
    BY <1>1, <2>2, <2>3
  <2> QED BY <2>1, <2>4
<1>9. PICK l : l = DirLayer(path, w, tree)
  OBVIOUS
<1>10. l.dir = path /\ l.title = rest /\ l.of = tree[w]
  BY <1>1, <1>6, <1>9 DEF DirLayer, Layer
<1>11. LayerPath(l) = w
  BY <1>8, <1>10 DEF LayerPath
<1>12. Len(w) \in Nat /\ Len(w) > 1
  BY <1>1, <1>2, <1>3, <1>5
<1> QED BY <1>9, <1>10, <1>11, <1>12

LEMMA FileLayerIs ==
  ASSUME NEW path, NEW tree
  PROVE  /\ LayerPath(FileLayer(path, tree)) = << Last(path) >>
         /\ FileLayer(path, tree).of = tree[path] /\ FileLayer(path, tree).dir = NoPath
<1>1. PICK l, x : l = FileLayer(path, tree) /\ x = Last(path)
  OBVIOUS
<1>2. l.dir = NoPath /\ l.title = << x >> /\ l.of = tree[path]
  BY <1>1 DEF FileLayer, Layer
<1>3. NoPath \o << x >> = << x >>
  BY DEF NoPath
<1> QED BY <1>1, <1>2, <1>3 DEF LayerPath

LEMMA ElementsOfFlat ==
  ASSUME NEW F, NEW L, AreSeqs(F, L)
  PROVE  \A l : l \in Elements(FlattenSeq(F)) <=> \E i \in 1 .. L : l \in Elements(F[i])
<1>1. PICK X : F \in [1 .. L -> Seq(X)] /\ L \in Nat
  BY AreSeqsOf DEF AreSeqs
<1>2. Flattened(FlattenSeq(F), L, F)
  BY <1>1, FlattenSeqHas
<1> QED BY <1>2 DEF Flattened

LEMMA LayersOfDir ==
  ASSUME NEW item, NEW tree, item.kind = "dir"
  PROVE  /\ IsSeq(LayersOf(item, tree))
         /\ \A l : l \in Elements(LayersOf(item, tree)) <=>
                    \E i \in FilesIn(item.path, tree) : l = DirLayer(item.path, Walk[i], tree)
<1>1. PICK path : path = item.path
  OBVIOUS
<1>2. PICK L \in Nat : DOMAIN Walk = 1 .. L
  BY WalkAssumption
<1>3. PICK F : F = [i \in 1 .. L |->
                      IF i \in FilesIn(path, tree) THEN << DirLayer(path, Walk[i], tree) >>
                                                   ELSE << >>]
  OBVIOUS
<1>4. LayersOf(item, tree) = FlattenSeq(F)
  <2>1. [i \in DOMAIN Walk |->
          IF Walk[i] \in DOMAIN tree /\ IsStrictPrefix(item.path, Walk[i])
          THEN << Layer(SubSeq(Walk[i], Len(item.path) + 1, Len(Walk[i])), item.path,
                        tree[Walk[i]]) >>
          ELSE << >>] = F
    BY <1>1, <1>2, <1>3 DEF FilesIn, DirLayer
  <2> QED BY <2>1 DEF LayersOf
<1>5. ASSUME NEW i \in 1 .. L
      PROVE  /\ IsSeq(F[i])
             /\ \A l : l \in Elements(F[i]) <=>
                        i \in FilesIn(path, tree) /\ l = DirLayer(path, Walk[i], tree)
  <2>1. CASE i \in FilesIn(path, tree)
    <3>1. PICK l : l = DirLayer(path, Walk[i], tree)
      OBVIOUS
    <3>2. F[i] = << l >>
      BY <1>3, <2>1, <3>1
    <3>3. PICK s : s = F[i]
      OBVIOUS
    <3>4. IsSeq(s) /\ Elements(s) = {l}
      BY <3>2, <3>3, OneOf DEF Elements
    <3> QED BY <2>1, <3>1, <3>3, <3>4
  <2>2. CASE i \notin FilesIn(path, tree)
    <3>1. F[i] = << >>
      BY <1>3, <2>2
    <3>2. IsSeq(<< >>) /\ Elements(<< >>) = {}
      BY DEF IsSeq, Elements
    <3> QED BY <2>2, <3>1, <3>2
  <2> QED BY <2>1, <2>2
<1>6. AreSeqs(F, L)
  BY <1>3, <1>5 DEF AreSeqs
<1>7. IsSeq(FlattenSeq(F))
  BY <1>6, FlattenSeqRuns
<1>8. \A l : l \in Elements(FlattenSeq(F)) <=>
            \E i \in FilesIn(path, tree) : l = DirLayer(path, Walk[i], tree)
  <2>1. FilesIn(path, tree) \subseteq 1 .. L
    BY <1>2 DEF FilesIn
  <2> QED BY <1>5, <1>6, <2>1, ElementsOfFlat
<1> QED BY <1>1, <1>4, <1>7, <1>8

LEMMA LayersOfFile ==
  ASSUME NEW item, NEW tree, item.kind = "file"
  PROVE  /\ LayersOf(item, tree) = << FileLayer(item.path, tree) >>
         /\ IsSeq(LayersOf(item, tree))
         /\ \A l : l \in Elements(LayersOf(item, tree)) <=> l = FileLayer(item.path, tree)
<1>1. PICK l : l = FileLayer(item.path, tree)
  OBVIOUS
<1>2. PICK s : s = LayersOf(item, tree)
  OBVIOUS
<1>3. s = << l >>
  BY <1>1, <1>2 DEF LayersOf, FileLayer
<1>4. IsSeq(s) /\ Elements(s) = {l}
  BY <1>3, OneOf DEF Elements
<1> QED BY <1>1, <1>2, <1>3, <1>4

-----------------------------------------------------------------------------
(* The items read off the layers, and those of a pack file again.          *)

First(s, i) == \A j \in 1 .. i - 1 : s[j].dir # s[i].dir
ItemFor(s, i, platform) ==
  IF s[i].dir = NoPath THEN << Item("file", LayerPath(s[i]), platform) >>
  ELSE IF First(s, i) THEN << Item("dir", s[i].dir, platform) >> ELSE << >>

LEMMA ItemsAreFor ==
  ASSUME NEW s, NEW n \in Nat, DOMAIN s = 1 .. n, NEW platform, NEW F,
         F = [i \in 1 .. n |-> ItemFor(s, i, platform)]
  PROVE  ItemsOf(s, platform) = FlattenSeq(F) /\ AreSeqs(F, n)
<1>1. ItemsOf(s, platform) = FlattenSeq(F)
  BY DEF ItemsOf, ItemFor, First
<1>2. ASSUME NEW i \in 1 .. n PROVE IsSeq(F[i])
  <2>1. \/ F[i] = << Item("file", LayerPath(s[i]), platform) >>
        \/ F[i] = << Item("dir", s[i].dir, platform) >>
        \/ F[i] = << >>
    BY DEF ItemFor
  <2>2. IsSeq(<< >>)
    BY DEF IsSeq
  <2> QED BY <2>1, <2>2, OneOf
<1> QED BY <1>1, <1>2 DEF AreSeqs

(* Layers that bring no directory that was there leave the items apart.    *)
Fresh(s, t) == \A l \in Elements(t), m \in Elements(s) : l.dir = NoPath \/ l.dir # m.dir
LEMMA ItemsOfBoth ==
  ASSUME NEW s, NEW t, IsSeq(s), IsSeq(t), Fresh(s, t), NEW platform
  PROVE  ItemsOf(s \o t, platform) = ItemsOf(s, platform) \o ItemsOf(t, platform)
<1>1. PICK u : u = s \o t
  OBVIOUS
<1>2. AreJoined(s, t, u)
  BY <1>1, JoinOf
<1>3. PICK n, m \in Nat : n = Len(s) /\ m = Len(t)
  BY <1>2 DEF AreJoined
<1>4. /\ DOMAIN u = 1 .. n + m /\ DOMAIN s = 1 .. n /\ DOMAIN t = 1 .. m
      /\ \A i \in 1 .. n + m : u[i] = IF i <= n THEN s[i] ELSE t[i - n]
  BY <1>2, <1>3 DEF AreJoined
<1>5. PICK A, B, C :
        /\ A = [i \in 1 .. n |-> ItemFor(s, i, platform)]
        /\ B = [i \in 1 .. m |-> ItemFor(t, i, platform)]
        /\ C = [i \in 1 .. n + m |-> ItemFor(u, i, platform)]
  OBVIOUS
<1>6. /\ ItemsOf(s, platform) = FlattenSeq(A) /\ AreSeqs(A, n)
      /\ ItemsOf(t, platform) = FlattenSeq(B) /\ AreSeqs(B, m)
      /\ ItemsOf(u, platform) = FlattenSeq(C)
  <2>1. n + m \in Nat
    BY <1>3
  <2> QED BY <1>3, <1>4, <1>5, <2>1, ItemsAreFor
<1>7. ASSUME NEW i \in 1 .. n PROVE ItemFor(u, i, platform) = ItemFor(s, i, platform)
  <2>1. u[i] = s[i] /\ \A j \in 1 .. i - 1 : u[j] = s[j]
    BY <1>3, <1>4
  <2>2. First(u, i) <=> First(s, i)
    BY <2>1 DEF First
  <2> QED BY <2>1, <2>2 DEF ItemFor
<1>8. ASSUME NEW i \in 1 .. m PROVE ItemFor(u, n + i, platform) = ItemFor(t, i, platform)
  <2>1. PICK k \in 1 .. n + m : k = n + i /\ ~(k <= n) /\ k - n = i
    BY <1>3
  <2>2. u[k] = t[i]
    BY <1>4, <2>1
  <2>3. ASSUME t[i].dir # NoPath PROVE First(u, k) <=> First(t, i)
    <3>1. ASSUME First(u, k), NEW j \in 1 .. i - 1 PROVE t[j].dir # t[i].dir
      <4>1. PICK h \in 1 .. n + m : h = n + j /\ ~(h <= n) /\ h - n = j /\ h \in 1 .. k - 1
        BY <1>3, <2>1
      <4>2. u[h] = t[j]
        BY <1>4, <4>1
      <4> QED BY <2>2, <3>1, <4>1, <4>2 DEF First
    <3>2. ASSUME First(t, i), NEW h \in 1 .. k - 1 PROVE u[h].dir # u[k].dir
      <4>1. CASE h <= n
        <5>1. h \in 1 .. n /\ h \in 1 .. n + m
          BY <1>3, <4>1
        <5>2. u[h] = s[h] /\ s[h] \in Elements(s) /\ t[i] \in Elements(t)
          BY <1>4, <4>1, <5>1 DEF Elements
        <5> QED BY <2>2, <2>3, <5>2 DEF Fresh
      <4>2. CASE ~(h <= n)
        <5>1. h \in 1 .. n + m /\ h - n \in 1 .. i - 1
          BY <1>3, <2>1, <4>2
        <5>2. u[h] = t[h - n]
          BY <1>4, <4>2, <5>1
        <5> QED BY <2>2, <3>2, <5>1, <5>2 DEF First
      <4> QED BY <4>1, <4>2
    <3> QED BY <3>1, <3>2 DEF First
  <2>4. ItemFor(u, k, platform) = ItemFor(t, i, platform)
    BY <2>2, <2>3 DEF ItemFor
  <2> QED BY <2>1, <2>4
<1>9. C = [k \in 1 .. n + m |-> IF k <= n THEN A[k] ELSE B[k - n]]
  <2>1. ASSUME NEW k \in 1 .. n + m PROVE C[k] = IF k <= n THEN A[k] ELSE B[k - n]
    <3>1. C[k] = ItemFor(u, k, platform)
      BY <1>5
    <3>2. CASE k <= n
      <4>1. k \in 1 .. n
        BY <1>3, <3>2
      <4> QED BY <1>5, <1>7, <3>1, <3>2, <4>1
    <3>3. CASE ~(k <= n)
      <4>0. k - n \in 1 .. m /\ k = n + (k - n)
        BY <1>3, <3>3
      <4>1. PICK i \in 1 .. m : i = k - n /\ k = n + i
        BY <4>0
      <4>2. ItemFor(u, k, platform) = ItemFor(t, i, platform) /\ B[i] = ItemFor(t, i, platform)
        BY <1>5, <1>8, <4>1
      <4> QED BY <3>1, <3>3, <4>1, <4>2
    <3> QED BY <3>2, <3>3
  <2>2. C = [k \in 1 .. n + m |-> C[k]]
    BY <1>5
  <2> QED BY <2>1, <2>2
<1>10. FlattenSeq(C) = FlattenSeq(A) \o FlattenSeq(B)
  <2>1. AreSeqs(A, n) /\ AreSeqs(B, m)
    BY <1>6
  <2>2. Behind(A, n, B, m, C)
    BY <1>9 DEF Behind
  <2> QED BY <2>1, <2>2, FlattenBoth
<1> QED BY <1>1, <1>6, <1>10

(* A file is in the directory that extract made, a directory where it was. *)
Renamed(item) ==
  IF item.kind = "file" THEN Item("file", << Last(item.path) >>, item.platform)
  ELSE IF item.kind = "dir" THEN Item("dir", item.path, item.platform)
  ELSE Mounted(item.of, item.platform)

LEMMA ItemsOfItem ==
  ASSUME NEW item, NEW tree, Suitable(item, tree), item.kind # "oci"
  PROVE  ItemsOf(LayersOf(item, tree), item.platform) = << Renamed(item) >>
<1>1. PICK s, platform : s = LayersOf(item, tree) /\ platform = item.platform
  OBVIOUS
<1>2. CASE item.kind = "file"
  <2>1. PICK l : l = FileLayer(item.path, tree)
    OBVIOUS
  <2>2. s = << l >>
    BY <1>1, <1>2, <2>1, LayersOfFile
  <2>3. 1 \in Nat \ {0} /\ DOMAIN s = 1 .. 1 /\ s[1] = l
    BY <2>2
  <2>4. l.dir = NoPath /\ LayerPath(l) = << Last(item.path) >>
    BY <2>1, FileLayerIs
  <2>5. PICK x : x = Item("file", << Last(item.path) >>, platform)
    OBVIOUS
  <2>6. PICK F : F = [i \in 1 .. 1 |-> ItemFor(s, i, platform)]
    OBVIOUS
  <2>7. F = [i \in 1 .. 1 |-> IF i = 1 THEN << x >> ELSE << >>]
    BY <2>3, <2>4, <2>5, <2>6 DEF ItemFor
  <2>8. FlattenSeq(F) = << x >>
    BY <2>3, <2>7, FlattenFirst
  <2>9. ItemsOf(s, platform) = FlattenSeq(F)
    BY <2>3, <2>6, ItemsAreFor
  <2> QED BY <1>1, <1>2, <2>5, <2>8, <2>9 DEF Renamed
<1>3. CASE item.kind = "dir"
  <2>1. PICK path : path = item.path
    OBVIOUS
  <2>2. path \in Seq(STRING) /\ path # NoPath /\ FilesIn(path, tree) # {}
    BY <1>3, <2>1 DEF Suitable
  <2>3. /\ IsSeq(s)
        /\ \A l : l \in Elements(s) <=>
                   \E i \in FilesIn(path, tree) : l = DirLayer(path, Walk[i], tree)
    BY <1>1, <1>3, <2>1, LayersOfDir
  <2>4. PICK n \in Nat : n = Len(s) /\ DOMAIN s = 1 .. n
    BY <2>3, TypedDomain DEF IsSeq
  <2>5. n # 0
    <3>1. PICK l : l \in Elements(s)
      BY <2>2, <2>3
    <3> QED BY <2>4, <3>1 DEF Elements
  <2>6. ASSUME NEW i \in 1 .. n PROVE s[i].dir = path
    <3>1. s[i] \in Elements(s)
      BY <2>4 DEF Elements
    <3>2. PICK k : s[i] = DirLayer(path, Walk[k], tree)
      BY <2>3, <3>1
    <3>3. DirLayer(path, Walk[k], tree).dir = path
      BY DEF DirLayer, Layer
    <3> QED BY <3>2, <3>3
  <2>7. PICK x : x = Item("dir", path, platform)
    OBVIOUS
  <2>8. PICK F : F = [i \in 1 .. n |-> ItemFor(s, i, platform)]
    OBVIOUS
  <2>9. ASSUME NEW i \in 1 .. n PROVE ItemFor(s, i, platform) = IF i = 1 THEN << x >> ELSE << >>
    <3>1. CASE i = 1
      <4>1. First(s, i)
        BY <3>1 DEF First
      <4> QED BY <2>2, <2>6, <2>7, <3>1, <4>1 DEF ItemFor
    <3>2. CASE i # 1
      <4>1. 1 \in 1 .. i - 1 /\ 1 \in 1 .. n
        BY <3>2
      <4>2. ~First(s, i)
        BY <2>6, <4>1 DEF First
      <4> QED BY <2>2, <2>6, <3>2, <4>2 DEF ItemFor
    <3> QED BY <3>1, <3>2
  <2>10. F = [i \in 1 .. n |-> IF i = 1 THEN << x >> ELSE << >>]
    BY <2>8, <2>9
  <2>11. FlattenSeq(F) = << x >>
    BY <2>5, <2>10, FlattenFirst
  <2>12. ItemsOf(s, platform) = FlattenSeq(F)
    BY <2>4, <2>8, ItemsAreFor
  <2> QED BY <1>1, <1>3, <2>1, <2>7, <2>11, <2>12 DEF Renamed
<1> QED BY <1>2, <1>3 DEF Suitable

-----------------------------------------------------------------------------
(* What is built, its own layers, and the pack file of it.                 *)

MemberOf(item, tree) ==
  IF item.kind = "oci" THEN item.of ELSE Manifest(None, None, LayersOf(item, tree))
EntryOf(item, tree) == Entry(MemberOf(item, tree), item.platform, None)
AllLayers(items, tree) == FlattenSeq([i \in DOMAIN items |-> LayersOf(items[i], tree)])
ConfigOf(pack, tree) == ConfigIn(tree, pack.config)
RenamedItems(items) == [i \in DOMAIN items |-> Renamed(items[i])]

LEMMA BuiltIs ==
  ASSUME NEW pack, NEW tree, ~Refused(pack),
         \A i \in DOMAIN pack.items : pack.items[i].config = NoPath
  PROVE  /\ Mixed(pack.items) => Build(pack, tree) =
              Index(pack.name, [i \in DOMAIN pack.items |-> EntryOf(pack.items[i], tree)])
         /\ ~Mixed(pack.items) => Build(pack, tree) =
              Manifest(pack.name, ConfigOf(pack, tree), AllLayers(pack.items, tree))
<1>1. CASE Mixed(pack.items)
  <2> DEFINE built(item) == Entry(IF item.kind = "oci" THEN item.of
                                  ELSE Manifest(None, ConfigIn(tree, item.config), LayersOf(item, tree)),
                                  item.platform, None)
  <2>1. Build(pack, tree) = Index(pack.name, [i \in DOMAIN pack.items |-> built(pack.items[i])])
    BY <1>1, Zenon DEF Build, IndexExpected, Mixed
  <2>2. ConfigIn(tree, NoPath) = None
    BY DEF ConfigIn
  <2>3. \A i \in DOMAIN pack.items : built(pack.items[i]) = EntryOf(pack.items[i], tree)
    BY <2>2 DEF EntryOf, MemberOf
  <2> HIDE DEF built
  <2>4. [i \in DOMAIN pack.items |-> built(pack.items[i])]
        = [i \in DOMAIN pack.items |-> EntryOf(pack.items[i], tree)]
    BY <2>3
  <2> QED BY <1>1, <2>1, <2>4
<1>2. CASE ~Mixed(pack.items)
  BY <1>2, Zenon DEF Build, IndexExpected, Mixed, ConfigOf, AllLayers
<1> QED BY <1>1, <1>2

LEMMA WellBuiltIs ==
  ASSUME NEW pack, NEW tree, WellPacked(pack, tree)
  PROVE  /\ Mixed(pack.items) => Build(pack, tree) =
              Index(pack.name, [i \in DOMAIN pack.items |-> EntryOf(pack.items[i], tree)])
         /\ ~Mixed(pack.items) => Build(pack, tree) =
              Manifest(pack.name, ConfigOf(pack, tree), AllLayers(pack.items, tree))
BY BuiltIs DEF WellPacked, Suitable

LEMMA EntryIs ==
  ASSUME NEW item, NEW tree, Suitable(item, tree)
  PROVE  /\ item.kind # "oci" => /\ KindOf(EntryOf(item, tree)) = "files"
                                /\ EntryOf(item, tree).of.layers = LayersOf(item, tree)
         /\ item.kind = "oci" => /\ KindOf(EntryOf(item, tree)) # "files"
                                /\ EntryOf(item, tree).of = item.of
         /\ EntryOf(item, tree).platform = item.platform
<1>1. PICK e, s : e = EntryOf(item, tree) /\ s = LayersOf(item, tree)
  OBVIOUS
<1>2. e.of = MemberOf(item, tree) /\ e.platform = item.platform /\ e.name = None
  BY <1>1 DEF EntryOf, Entry
<1>3. CASE item.kind # "oci"
  <2>1. e.of = [kind |-> "manifest", name |-> None, config |-> None, layers |-> s]
    BY <1>1, <1>2, <1>3 DEF MemberOf, Manifest
  <2>2. e.of.kind = "manifest" /\ e.of.name = None /\ e.of.config = None /\ e.of.layers = s
    BY <2>1
  <2>3. KindOf(e) = "files"
    BY <1>2, <2>2 DEF KindOf, IsIndex
  <2> QED BY <1>1, <1>2, <1>3, <2>2, <2>3
<1>4. CASE item.kind = "oci"
  <2>1. e = Entry(item.of, item.platform, None)
    BY <1>1, <1>4 DEF EntryOf, MemberOf
  <2>2. KindOf(e) # "files"
    BY <1>4, <2>1 DEF Suitable
  <2>3. e.of = item.of
    BY <1>2, <1>4 DEF MemberOf
  <2> QED BY <1>1, <1>2, <1>4, <2>2, <2>3
<1> QED BY <1>3, <1>4

LEMMA LayersOfAre ==
  ASSUME NEW item, NEW tree, Suitable(item, tree), item.kind # "oci"
  PROVE  /\ IsSeq(LayersOf(item, tree))
         /\ \A l \in Elements(LayersOf(item, tree)) :
              l.dir = NoPath \/ (item.kind = "dir" /\ l.dir = item.path)
<1>1. CASE item.kind = "file"
  BY <1>1, LayersOfFile, FileLayerIs
<1>2. CASE item.kind = "dir"
  <2>1. ASSUME NEW l \in Elements(LayersOf(item, tree)) PROVE l.dir = item.path
    <3>1. PICK i : l = DirLayer(item.path, Walk[i], tree)
      BY <1>2, LayersOfDir
    <3> QED BY <3>1 DEF DirLayer, Layer
  <2> QED BY <1>2, <2>1, LayersOfDir
<1> QED BY <1>1, <1>2 DEF Suitable

LEMMA ItemsAre ==
  ASSUME NEW items, IsSeq(items), NEW tree, \A i \in DOMAIN items : Suitable(items[i], tree)
  PROVE  \E L \in Nat : /\ DOMAIN items = 1 .. L
                        /\ ~Mixed(items) =>
                             AreSeqs([i \in DOMAIN items |-> LayersOf(items[i], tree)], L)
<1>1. PICK L \in Nat : DOMAIN items = 1 .. L
  BY TypedDomain DEF IsSeq
<1>2. PICK F : F = [i \in DOMAIN items |-> LayersOf(items[i], tree)]
  OBVIOUS
<1>3. ASSUME ~Mixed(items) PROVE AreSeqs(F, L)
  <2>1. \A i \in 1 .. L : F[i] = LayersOf(items[i], tree) /\ IsSeq(LayersOf(items[i], tree))
    BY <1>1, <1>2, <1>3, LayersOfAre DEF Mixed
  <2>2. \A i \in 1 .. L : IsSeq(F[i])
    BY <2>1
  <2> QED BY <1>1, <1>2, <2>2 DEF AreSeqs
<1> QED BY <1>1, <1>2, <1>3

LEMMA OwnOfBuilt ==
  ASSUME NEW pack, NEW tree, WellPacked(pack, tree), NEW l
  PROVE  l \in Own(Build(pack, tree)) <=>
           \E i \in DOMAIN pack.items :
             pack.items[i].kind # "oci" /\ l \in Elements(LayersOf(pack.items[i], tree))
<1>1. PICK items, b : items = pack.items /\ b = Build(pack, tree)
  OBVIOUS
<1>2. IsSeq(items) /\ \A i \in DOMAIN items : Suitable(items[i], tree)
  BY <1>1 DEF WellPacked
<1>3. CASE Mixed(items)
  <2>1. PICK members : members = [i \in DOMAIN items |-> EntryOf(items[i], tree)]
    OBVIOUS
  <2>2. b = Index(pack.name, members)
    BY <1>1, <1>3, <2>1, WellBuiltIs
  <2>3. IsIndex(b) /\ b.members = members
    BY <2>2 DEF Index, IsIndex
  <2>4. \A i \in DOMAIN items : members[i] = EntryOf(items[i], tree)
    BY <2>1
  <2>5. \A i : i \in OwnMembers(b) <=> i \in DOMAIN items /\ items[i].kind # "oci"
    BY <1>2, <2>1, <2>3, <2>4, EntryIs DEF OwnMembers
  <2>6. \A i \in OwnMembers(b) : b.members[i].of.layers = LayersOf(items[i], tree)
    BY <1>2, <2>3, <2>4, <2>5, EntryIs
  <2>7. Own(b) = UNION {Elements(b.members[i].of.layers) : i \in OwnMembers(b)}
    BY <2>3 DEF Own
  <2>8. l \in Own(b) <=> \E i \in OwnMembers(b) : l \in Elements(b.members[i].of.layers)
    BY <2>7
  <2> QED BY <1>1, <2>5, <2>6, <2>8
<1>4. CASE ~Mixed(items)
  <2>1. PICK F : F = [i \in DOMAIN items |-> LayersOf(items[i], tree)]
    OBVIOUS
  <2>2. PICK L \in Nat : DOMAIN items = 1 .. L /\ AreSeqs(F, L)
    BY <1>2, <1>4, <2>1, ItemsAre
  <2>3. b = Manifest(pack.name, ConfigOf(pack, tree), FlattenSeq(F))
    BY <1>1, <1>4, <2>1, WellBuiltIs DEF AllLayers
  <2>4. ~IsIndex(b) /\ b.layers = FlattenSeq(F)
    BY <2>3 DEF Manifest, IsIndex
  <2>5. l \in Own(b) <=> \E i \in 1 .. L : l \in Elements(F[i])
    BY <2>2, <2>4, ElementsOfFlat DEF Own
  <2>6. \A i \in 1 .. L : F[i] = LayersOf(items[i], tree) /\ items[i].kind # "oci"
    BY <1>4, <2>1, <2>2 DEF Mixed
  <2> QED BY <1>1, <2>2, <2>5, <2>6
<1> QED BY <1>1, <1>3, <1>4

(* The items of the layers of all items: an induction over them.           *)
LEMMA ItemsOfAll ==
  ASSUME NEW items, IsSeq(items), NEW tree, \A i \in DOMAIN items : Suitable(items[i], tree),
         ~Mixed(items), DirsDiffer(items)
  PROVE  ItemsOf(AllLayers(items, tree), None) = RenamedItems(items)
<1>1. PICK F : F = [i \in DOMAIN items |-> LayersOf(items[i], tree)]
  OBVIOUS
<1>2. PICK L \in Nat : DOMAIN items = 1 .. L /\ AreSeqs(F, L)
  BY <1>1, ItemsAre
<1>3. PICK up : Runs(up, F, L) /\ FlattenSeq(F) = up[L]
  BY <1>2, FlattenSeqRuns
<1>4. \A n \in 0 .. L : IsSeq(up[n])
  BY <1>2, <1>3, RunsAreSeqs
<1>5. ASSUME NEW i \in 1 .. L
      PROVE  /\ F[i] = LayersOf(items[i], tree) /\ Suitable(items[i], tree)
             /\ items[i].kind # "oci" /\ items[i].platform = None /\ IsSeq(F[i])
  BY <1>1, <1>2 DEF Mixed, AreSeqs
<1> DEFINE Comes(n) == \A l \in Elements(up[n]) : \E i \in 1 .. n : l \in Elements(F[i])
           Gives(n) == ItemsOf(up[n], None) = [i \in 1 .. n |-> Renamed(items[i])]
           S == {n \in 0 .. L : Comes(n) /\ Gives(n)}
<1>6. 0 \in S
  <2>1. up[0] = << >> /\ Elements(<< >>) = {}
    BY <1>3 DEF Runs, Elements
  <2>2. Comes(0)
    BY <2>1
  <2>3. ItemsOf(<< >>, None) = << >>
    <3>1. PICK none : none = << >>
      OBVIOUS
    <3>2. PICK m \in Nat : m = 0
      OBVIOUS
    <3>3. DOMAIN none = 1 .. m
      BY <3>1, <3>2
    <3>4. PICK H : H = [i \in 1 .. m |-> ItemFor(none, i, None)]
      OBVIOUS
    <3>5. ItemsOf(none, None) = FlattenSeq(H)
      BY ONLY m \in Nat, <3>3, <3>4, ItemsAreFor
    <3>6. H = << >> /\ Len(H) = 0
      BY <3>2, <3>4
    <3> QED BY <3>1, <3>5, <3>6 DEF FlattenSeq
  <2>4. [i \in 1 .. 0 |-> Renamed(items[i])] = << >>
    OBVIOUS
  <2>5. Gives(0)
    BY <2>1, <2>3, <2>4
  <2> QED BY <2>2, <2>5
<1>7. ASSUME NEW n \in 1 .. L, n - 1 \in S PROVE n \in S
  <2>1. Comes(n - 1) /\ Gives(n - 1) /\ n \in 0 .. L /\ n - 1 \in 0 .. L
    BY <1>7
  <2>2. PICK s, t : s = up[n - 1] /\ t = F[n]
    OBVIOUS
  <2>3. up[n] = s \o t /\ IsSeq(s) /\ IsSeq(t)
    BY <1>3, <1>4, <1>5, <2>1, <2>2 DEF Runs
  <2>4. Fresh(s, t)
    <3> SUFFICES ASSUME NEW l \in Elements(t), NEW m \in Elements(s), l.dir # NoPath, l.dir = m.dir
                 PROVE  FALSE
      BY DEF Fresh
    <3>1. PICK i \in 1 .. n - 1 : m \in Elements(F[i])
      BY <2>1, <2>2
    <3>2. i \in 1 .. L /\ i # n
      BY <2>1
    <3>3. items[n].kind = "dir" /\ l.dir = items[n].path
      BY <1>5, <2>2, LayersOfAre
    <3>4. items[i].kind = "dir" /\ m.dir = items[i].path
      BY <1>5, <3>1, <3>2, LayersOfAre
    <3> QED BY <1>2, <3>2, <3>3, <3>4 DEF DirsDiffer
  <2>5. Comes(n)
    <3>1. PICK X : X = Elements(s) \cup Elements(t)
      OBVIOUS
    <3>2. s \in Seq(X) /\ t \in Seq(X)
      BY <2>3, <3>1, SeqOfMore DEF IsSeq
    <3>3. Elements(s \o t) = Elements(s) \cup Elements(t)
      BY <3>2, ElementsOfBoth
    <3> SUFFICES ASSUME NEW l \in Elements(up[n]) PROVE \E i \in 1 .. n : l \in Elements(F[i])
      OBVIOUS
    <3>4. l \in Elements(s) \/ l \in Elements(t)
      BY <2>3, <3>3
    <3>5. CASE l \in Elements(s)
      <4>1. PICK i \in 1 .. n - 1 : l \in Elements(F[i])
        BY <2>1, <2>2, <3>5
      <4>2. i \in 1 .. n
        BY <2>1
      <4> QED BY <4>1, <4>2
    <3>6. CASE l \in Elements(t)
      <4>1. n \in 1 .. n
        BY <2>1
      <4> QED BY <2>2, <3>6, <4>1
    <3> QED BY <3>4, <3>5, <3>6
  <2>6. Gives(n)
    <3>1. ItemsOf(s \o t, None) = ItemsOf(s, None) \o ItemsOf(t, None)
      BY <2>3, <2>4, ItemsOfBoth
    <3>2. PICK one : one = << Renamed(items[n]) >>
      OBVIOUS
    <3>3. ItemsOf(t, None) = one
      BY <1>5, <2>2, <3>2, ItemsOfItem
    <3>4. PICK g : g = [i \in 1 .. n |-> Renamed(items[i])]
      OBVIOUS
    <3>5. g[n] = Renamed(items[n])
          /\ [i \in 1 .. n - 1 |-> g[i]] = [i \in 1 .. n - 1 |-> Renamed(items[i])]
          /\ [i \in 1 .. n |-> g[i]] = g
      BY <3>4
    <3>6. n \in Nat \ {0} /\ one = << g[n] >>
      BY <3>2, <3>5
    <3>7. [i \in 1 .. n - 1 |-> g[i]] \o one = [i \in 1 .. n |-> g[i]]
      BY <3>6, OneMore
    <3> QED BY <2>1, <2>2, <2>3, <3>1, <3>3, <3>4, <3>5, <3>7, Zenon
  <2> QED BY <2>1, <2>5, <2>6
<1>8. \A n \in 0 .. L : n \in S
  <2> HIDE DEF S
  <2> QED BY <1>6, <1>7, CountingUp
<1>9. L \in S
  BY <1>8
<1> QED BY <1>1, <1>2, <1>3, <1>9 DEF AllLayers, RenamedItems

LEMMA PackOfBuilt ==
  ASSUME NEW pack, NEW tree, WellPacked(pack, tree)
  PROVE  PackOf(Build(pack, tree)) =
           Pack(pack.name, IF Mixed(pack.items) \/ pack.config = NoPath THEN NoPath ELSE ConfigAt,
                RenamedItems(pack.items))
<1>1. PICK items, b : items = pack.items /\ b = Build(pack, tree)
  OBVIOUS
<1>2. IsSeq(items) /\ \A i \in DOMAIN items : Suitable(items[i], tree)
  BY <1>1 DEF WellPacked
<1>3. CASE Mixed(items)
  <2>1. PICK members : members = [i \in DOMAIN items |-> EntryOf(items[i], tree)]
    OBVIOUS
  <2>2. b = Index(pack.name, members)
    BY <1>1, <1>3, <2>1, WellBuiltIs
  <2>3. IsIndex(b) /\ b.members = members /\ b.name = pack.name
    BY <2>2 DEF Index, IsIndex
  <2>4. PICK L \in Nat : DOMAIN items = 1 .. L
    BY <1>2, TypedDomain DEF IsSeq
  <2>5. PICK F : F = [i \in DOMAIN members |-> ItemsOfMember(members[i])]
    OBVIOUS
  <2>6. PICK g : g = RenamedItems(items)
    OBVIOUS
  <2>7. ASSUME NEW i \in 1 .. L PROVE ItemsOfMember(members[i]) = << g[i] >>
    <3>1. members[i] = EntryOf(items[i], tree) /\ g[i] = Renamed(items[i]) /\ Suitable(items[i], tree)
      BY <1>2, <2>1, <2>4, <2>6 DEF RenamedItems
    <3>2. CASE items[i].kind = "oci"
      <4>1. ItemsOfMember(members[i]) = << Mounted(items[i].of, items[i].platform) >>
        BY <3>1, <3>2, EntryIs DEF ItemsOfMember
      <4> QED BY <3>1, <3>2, <4>1 DEF Renamed
    <3>3. CASE items[i].kind # "oci"
      <4>1. ItemsOfMember(members[i]) = ItemsOf(LayersOf(items[i], tree), items[i].platform)
        BY <3>1, <3>3, EntryIs DEF ItemsOfMember
      <4> QED BY <3>1, <3>3, <4>1, ItemsOfItem
    <3> QED BY <3>2, <3>3
  <2>8. F = [i \in 1 .. L |-> << g[i] >>]
    BY <2>1, <2>4, <2>5, <2>7
  <2>9. FlattenSeq(F) = [i \in 1 .. L |-> g[i]]
    BY <2>8, FlattenOnes
  <2>10. [i \in 1 .. L |-> g[i]] = g
    BY <2>4, <2>6 DEF RenamedItems
  <2>11. PackOf(b) = Pack(pack.name, NoPath, FlattenSeq(F))
    BY <2>3, <2>5 DEF PackOf
  <2> QED BY <1>1, <1>3, <2>6, <2>9, <2>10, <2>11
<1>4. CASE ~Mixed(items)
  <2>1. b = Manifest(pack.name, ConfigOf(pack, tree), AllLayers(items, tree))
    BY <1>1, <1>4, WellBuiltIs
  <2>2. /\ ~IsIndex(b) /\ b.name = pack.name /\ b.config = ConfigOf(pack, tree)
        /\ b.layers = AllLayers(items, tree)
    BY <2>1 DEF Manifest, IsIndex
  <2>3. ItemsOf(b.layers, None) = RenamedItems(items)
    BY <1>1, <1>2, <1>4, <2>2, ItemsOfAll DEF WellPacked
  <2>4. b.config = None <=> pack.config = NoPath
    BY <1>1, <1>4, <2>2 DEF ConfigOf, ConfigIn, WellPacked
  <2>5. PackOf(b) = Pack(pack.name, IF b.config = None THEN NoPath ELSE ConfigAt, RenamedItems(items))
    BY <2>2, <2>3 DEF PackOf
  <2> QED BY <1>1, <1>4, <2>4, <2>5
<1> QED BY <1>3, <1>4

-----------------------------------------------------------------------------
(* All that extract writes of an artifact: its own layers and its config,  *)
(* which is taken for one more, and the pack file behind them.             *)

ThePack(b)   == <<"pack", PackOf(b)>>
PackLayer(b) == Layer(PackFile, NoPath, ThePack(b))
Config(b)    == IF ~IsIndex(b) /\ b.config # None THEN {Layer(ConfigAt, NoPath, b.config)} ELSE {}
Contents(b)  == Own(b) \cup Config(b)
All(b)       == Contents(b) \cup {PackLayer(b)}

(* A tree with that in it, and nothing else.                               *)
TreeIs(b, tree) ==
  /\ \A p \in DOMAIN tree : \E l \in All(b) : p = LayerPath(l)
  /\ \A l \in All(b) : LayerPath(l) \in DOMAIN tree /\ tree[LayerPath(l)] = l.of

LEMMA LayerAtTop ==
  ASSUME NEW name, NEW of
  PROVE  /\ LayerPath(Layer(<< name >>, NoPath, of)) = << name >>
         /\ Layer(<< name >>, NoPath, of).of = of
<1>1. PICK l : l = Layer(<< name >>, NoPath, of)
  OBVIOUS
<1>2. l.dir = NoPath /\ l.title = << name >> /\ l.of = of
  BY <1>1 DEF Layer
<1>3. NoPath \o << name >> = << name >>
  BY DEF NoPath
<1> QED BY <1>1, <1>2, <1>3 DEF LayerPath

(* Whatever lies deeper than the files is as it was in the tree packed.    *)
LEMMA DeeperIsAsItWas ==
  ASSUME NEW pack, NEW tree, WellPacked(pack, tree), NEW l \in All(Build(pack, tree)),
         Len(LayerPath(l)) # 1
  PROVE  LayerPath(l) \in DOMAIN tree /\ l.of = tree[LayerPath(l)]
<1>1. PICK b : b = Build(pack, tree)
  OBVIOUS
<1>2. ASSUME NEW name, LayerPath(l) = << name >> PROVE FALSE
  <2>1. Len(<< name >>) = 1
    OBVIOUS
  <2> QED BY <1>2, <2>1
<1>3. l # PackLayer(b)
  BY <1>2, LayerAtTop DEF PackLayer, PackFile
<1>4. l \notin Config(b)
  BY <1>2, LayerAtTop DEF Config, ConfigAt
<1>5. l \in Own(b)
  BY <1>1, <1>3, <1>4 DEF All, Contents
<1>6. PICK i \in DOMAIN pack.items :
        pack.items[i].kind # "oci" /\ l \in Elements(LayersOf(pack.items[i], tree))
  BY <1>1, <1>5, OwnOfBuilt
<1>7. PICK item : item = pack.items[i]
  OBVIOUS
<1>8. Suitable(item, tree)
  BY <1>7 DEF WellPacked
<1>9. CASE item.kind = "file"
  BY <1>2, <1>6, <1>7, <1>9, LayersOfFile, FileLayerIs
<1>10. CASE item.kind = "dir"
  <2>1. PICK k \in FilesIn(item.path, tree) : l = DirLayer(item.path, Walk[k], tree)
    BY <1>6, <1>7, <1>10, LayersOfDir
  <2>2. Walk[k] \in DOMAIN tree /\ Walk[k] \in Seq(STRING) /\ IsStrictPrefix(item.path, Walk[k])
    BY <2>1, WalkAssumption DEF FilesIn
  <2>3. item.path \in Seq(STRING) /\ item.path # NoPath
    BY <1>8, <1>10 DEF Suitable
  <2>4. LayerPath(l) = Walk[k] /\ l.of = tree[Walk[k]]
    BY <2>1, <2>2, <2>3, UnderDir
  <2> QED BY <2>2, <2>4
<1> QED BY <1>6, <1>7, <1>8, <1>9, <1>10 DEF Suitable

LEMMA RenamedIs ==
  ASSUME NEW item, NEW tree, Suitable(item, tree)
  PROVE  /\ Renamed(item).kind = item.kind /\ Renamed(item).platform = item.platform
         /\ item.kind = "oci" => Renamed(item).of = item.of
         /\ item.kind = "dir" => Renamed(item).path = item.path
         /\ item.kind = "file" => Renamed(item).path = << Last(item.path) >>
         /\ Renamed(item).config = NoPath
<1>1. CASE item.kind = "file"
  <2>1. PICK x, p : x = Renamed(item) /\ p = << Last(item.path) >>
    OBVIOUS
  <2>2. x = [kind |-> "file", path |-> p, platform |-> item.platform, config |-> NoPath]
    BY <1>1, <2>1 DEF Renamed, Item
  <2> QED BY <1>1, <2>1, <2>2
<1>2. CASE item.kind = "dir"
  BY <1>2 DEF Renamed, Item
<1>3. CASE item.kind = "oci"
  BY <1>3 DEF Renamed, Mounted
<1> QED BY <1>1, <1>2, <1>3 DEF Suitable

(* So an item has the same layers again.                                   *)
LEMMA SameLayers ==
  ASSUME NEW pack, NEW tree, WellPacked(pack, tree), NEW again, TreeIs(Build(pack, tree), again),
         NEW i \in DOMAIN pack.items, pack.items[i].kind # "oci"
  PROVE  LayersOf(Renamed(pack.items[i]), again) = LayersOf(pack.items[i], tree)
<1>1. PICK b, item, new : b = Build(pack, tree) /\ item = pack.items[i] /\ new = Renamed(item)
  OBVIOUS
<1>2. Suitable(item, tree)
  BY <1>1 DEF WellPacked
<1>3. ASSUME NEW l \in Elements(LayersOf(item, tree))
      PROVE  LayerPath(l) \in DOMAIN again /\ again[LayerPath(l)] = l.of
  <2>1. l \in All(b)
    BY <1>1, <1>3, OwnOfBuilt DEF All, Contents
  <2> QED BY <1>1, <2>1 DEF TreeIs
<1>4. CASE item.kind = "file"
  <2>1. PICK l, p : l = FileLayer(item.path, tree) /\ p = << Last(item.path) >>
    OBVIOUS
  <2>2. LayersOf(item, tree) = << l >> /\ LayerPath(l) = p /\ l.of = tree[item.path]
        /\ l \in Elements(LayersOf(item, tree))
    BY <1>4, <2>1, LayersOfFile, FileLayerIs
  <2>3. again[p] = tree[item.path]
    BY <1>3, <2>2
  <2>4. new.kind = "file" /\ new.path = p
    BY <1>1, <1>2, <1>4, <2>1, RenamedIs
  <2>5. Last(p) = Last(item.path)
    <3>1. PICK x : x = Last(item.path)
      OBVIOUS
    <3>2. Len(<< x >>) = 1 /\ << x >>[1] = x
      OBVIOUS
    <3> QED BY <2>1, <3>1, <3>2 DEF Last
  <2>6. FileLayer(p, again) = l
    BY <2>1, <2>3, <2>5 DEF FileLayer
  <2>7. LayersOf(new, again) = << l >>
    BY <2>4, <2>6, LayersOfFile
  <2> QED BY <1>1, <2>2, <2>7
<1>5. CASE item.kind = "dir"
  <2>1. PICK path : path = item.path
    OBVIOUS
  <2>2. path \in Seq(STRING) /\ path # NoPath
    BY <1>2, <1>5, <2>1 DEF Suitable
  <2>3. new.kind = "dir" /\ new.path = path
    BY <1>1, <1>2, <1>5, <2>1, RenamedIs
  <2>4. ASSUME NEW k \in DOMAIN Walk, IsStrictPrefix(path, Walk[k])
        PROVE  /\ Walk[k] \in DOMAIN again <=> Walk[k] \in DOMAIN tree
               /\ Walk[k] \in DOMAIN tree => again[Walk[k]] = tree[Walk[k]]
    <3>1. PICK w : w = Walk[k]
      OBVIOUS
    <3>2. w \in Seq(STRING)
      BY <3>1, WalkAssumption
    <3>3. ASSUME w \in DOMAIN tree PROVE w \in DOMAIN again /\ again[w] = tree[w]
      <4>1. k \in FilesIn(path, tree)
        BY <2>4, <3>1, <3>3 DEF FilesIn
      <4>2. PICK l : l = DirLayer(path, w, tree)
        OBVIOUS
      <4>3. l \in Elements(LayersOf(item, tree))
        BY <1>5, <2>1, <3>1, <4>1, <4>2, LayersOfDir
      <4>4. LayerPath(l) = w /\ l.of = tree[w]
        BY <2>2, <2>4, <3>1, <3>2, <4>2, UnderDir
      <4> QED BY <1>3, <4>3, <4>4
    <3>4. ASSUME w \in DOMAIN again PROVE w \in DOMAIN tree
      <4>1. PICK l \in All(b) : w = LayerPath(l)
        BY <1>1, <3>4 DEF TreeIs
      <4>2. Len(w) # 1
        <5>1. LayerPath(DirLayer(path, w, tree)) = w /\ Len(w) \in Nat /\ Len(w) > 1
          BY <2>2, <2>4, <3>1, <3>2, UnderDir
        <5>2. PICK n \in Nat : n = Len(w) /\ n > 1
          BY <5>1
        <5>3. n # 1
          BY <5>2
        <5> QED BY <5>2, <5>3
      <4> QED BY <1>1, <4>1, <4>2, DeeperIsAsItWas
    <3> QED BY <3>1, <3>3, <3>4
  <2>5. [k \in DOMAIN Walk |->
          IF Walk[k] \in DOMAIN again /\ IsStrictPrefix(path, Walk[k])
          THEN << Layer(SubSeq(Walk[k], Len(path) + 1, Len(Walk[k])), path, again[Walk[k]]) >>
          ELSE << >>]
        = [k \in DOMAIN Walk |->
          IF Walk[k] \in DOMAIN tree /\ IsStrictPrefix(path, Walk[k])
          THEN << Layer(SubSeq(Walk[k], Len(path) + 1, Len(Walk[k])), path, tree[Walk[k]]) >>
          ELSE << >>]
    BY <2>4
  <2>6. "dir" # "file"
    OBVIOUS
  <2>7. LayersOf(new, again) = LayersOf(item, tree)
    BY <1>5, <2>1, <2>3, <2>5, <2>6 DEF LayersOf
  <2> QED BY <1>1, <2>7
<1> QED BY <1>1, <1>2, <1>4, <1>5 DEF Suitable

(* "The directory that would rebuild it" (README.md:577): an artifact that *)
(* was packed comes out again when what extract writes of it, and nothing  *)
(* else, is packed by the pack file extract writes, whatever the tree was  *)
(* and whatever its items are, for one platform or for several, as long as *)
(* none has a config of its own and no directory is empty.                 *)
THEOREM RoundTrip ==
  ASSUME NEW pack, NEW tree, WellPacked(pack, tree), NEW again, TreeIs(Build(pack, tree), again)
  PROVE  again[PackFile] = ThePack(Build(pack, tree))
         /\ Build(again[PackFile][2], again) = Build(pack, tree)
<1>1. PICK b, items, new : b = Build(pack, tree) /\ items = pack.items /\ new = RenamedItems(items)
  OBVIOUS
<1>2. PICK config : config = IF Mixed(items) \/ pack.config = NoPath THEN NoPath ELSE ConfigAt
  OBVIOUS
<1>3. PICK packed : packed = Pack(pack.name, config, new)
  OBVIOUS
<1>4. PackOf(b) = packed
  BY <1>1, <1>2, <1>3, PackOfBuilt
<1>5. packed.name = pack.name /\ packed.config = config /\ packed.items = new
  BY <1>3 DEF Pack
<1>6. again[PackFile] = ThePack(b)
  <2>1. LayerPath(PackLayer(b)) = PackFile /\ PackLayer(b).of = ThePack(b)
    BY LayerAtTop DEF PackLayer, PackFile
  <2> QED BY <1>1, <2>1 DEF TreeIs, All
<1>7. again[PackFile][2] = packed
  BY <1>4, <1>6 DEF ThePack
<1>8. /\ DOMAIN new = DOMAIN items
      /\ \A i \in DOMAIN items : /\ new[i] = Renamed(items[i]) /\ Suitable(items[i], tree)
                                /\ new[i].kind = items[i].kind /\ new[i].platform = items[i].platform
                                /\ new[i].config = NoPath
  <2>1. \A i \in DOMAIN items : new[i] = Renamed(items[i]) /\ Suitable(items[i], tree)
    BY <1>1 DEF RenamedItems, WellPacked
  <2> QED BY <1>1, <2>1, RenamedIs DEF RenamedItems
<1>9. Mixed(new) <=> Mixed(items)
  BY <1>8 DEF Mixed
<1>10. ~Refused(packed)
  <2>1. items # << >> /\ (Mixed(items) => config = NoPath)
    BY <1>1, <1>2 DEF WellPacked, Refused
  <2>2. new # << >>
    <3>1. PICK L \in Nat : DOMAIN items = 1 .. L
      BY <1>1, TypedDomain DEF WellPacked, IsSeq
    <3>2. DOMAIN items # {}
      BY <1>1, <2>1, <3>1 DEF WellPacked, IsSeq
    <3> QED BY <1>8, <3>2
  <2> QED BY <1>5, <1>8, <1>9, <2>1, <2>2 DEF Refused, IndexExpected, Mixed
<1>11. ASSUME NEW i \in DOMAIN items, items[i].kind # "oci"
       PROVE  LayersOf(new[i], again) = LayersOf(items[i], tree)
  BY <1>1, <1>8, <1>11, SameLayers
<1>12. CASE Mixed(items)
  <2>1. ASSUME NEW i \in DOMAIN items PROVE EntryOf(new[i], again) = EntryOf(items[i], tree)
    <3>1. MemberOf(new[i], again) = MemberOf(items[i], tree)
      BY <1>8, <1>11, RenamedIs DEF MemberOf
    <3> QED BY <1>8, <3>1 DEF EntryOf
  <2>2. [i \in DOMAIN new |-> EntryOf(new[i], again)] = [i \in DOMAIN items |-> EntryOf(items[i], tree)]
    BY <1>8, <2>1
  <2>3. Build(packed, again) = Index(pack.name, [i \in DOMAIN new |-> EntryOf(new[i], again)])
    BY <1>5, <1>8, <1>9, <1>12, <1>10, BuiltIs
  <2>4. b = Index(pack.name, [i \in DOMAIN items |-> EntryOf(items[i], tree)])
    BY <1>1, <1>12, WellBuiltIs
  <2> QED BY <1>1, <1>6, <1>7, <2>2, <2>3, <2>4
<1>13. CASE ~Mixed(items)
  <2>1. \A i \in DOMAIN items : items[i].kind # "oci"
    BY <1>13 DEF Mixed
  <2>2. [i \in DOMAIN new |-> LayersOf(new[i], again)]
        = [i \in DOMAIN items |-> LayersOf(items[i], tree)]
    BY <1>8, <1>11, <2>1
  <2>3. AllLayers(new, again) = AllLayers(items, tree)
    BY <2>2 DEF AllLayers
  <2>4. b = Manifest(pack.name, ConfigOf(pack, tree), AllLayers(items, tree))
    BY <1>1, <1>13, WellBuiltIs
  <2>5. ConfigOf(packed, again) = ConfigOf(pack, tree)
    <3>1. CASE pack.config = NoPath
      BY <1>2, <1>5, <3>1 DEF ConfigOf, ConfigIn
    <3>2. CASE pack.config # NoPath
      <4>1. PICK c : c = ConfigOf(pack, tree)
        OBVIOUS
      <4>2. c # None
        BY <1>1, <1>13, <3>2, <4>1 DEF ConfigOf, ConfigIn, WellPacked
      <4>3. ~IsIndex(b) /\ b.config = c
        BY <2>4, <4>1 DEF Manifest, IsIndex
      <4>4. Layer(ConfigAt, NoPath, c) \in All(b)
        BY <4>2, <4>3 DEF All, Contents, Config
      <4>5. again[ConfigAt] = c
        BY <1>1, <4>4, LayerAtTop DEF TreeIs, ConfigAt
      <4>6. config = ConfigAt /\ ConfigAt # NoPath
        BY <1>2, <1>13, <3>2 DEF ConfigAt, NoPath
      <4> QED BY <1>5, <4>1, <4>5, <4>6 DEF ConfigOf, ConfigIn
    <3> QED BY <3>1, <3>2
  <2>6. Build(packed, again) = Manifest(pack.name, ConfigOf(packed, again), AllLayers(new, again))
    BY <1>5, <1>8, <1>9, <1>13, <1>10, BuiltIs
  <2> QED BY <1>1, <1>6, <1>7, <2>3, <2>4, <2>5, <2>6
<1> QED BY <1>12, <1>13

-----------------------------------------------------------------------------
(* What extract writes, of artifacts that are apart: of each that is       *)
(* mounted below one, the files and the config have paths of their own,    *)
(* and no two of them are given one directory.                             *)

NamesDiffer(b) ==
  \A l \in Contents(b) :
    /\ LayerPath(l) # PackFile
    /\ \A m \in Contents(b) : LayerPath(l) = LayerPath(m) => l.of = m.of

Mounts(b) == IF IsIndex(b) THEN {e \in Elements(b.members) : KindOf(e) = "artifact"} ELSE {}
OpenedAt(S, a, b, dir) ==
  \/ b = a /\ dir = RootDir(a)
  \/ \E e \in S : b = e.of /\ dir = DirOf(e, <<"sha256", e.of>>)
Encloses(S, a) == \A b, dir : OpenedAt(S, a, b, dir) => Mounts(b) \subseteq S

(* What is mounted, and mounted in that, and so on.                        *)
Enclosure(a) == CHOOSE S : Encloses(S, a)
Below(a)     == {e \in Enclosure(a) : \A S : Encloses(S, a) => e \in S}
Among(a, b, dir) == OpenedAt(Below(a), a, b, dir)

MadeOf(a, Layers) == \A b, dir : Among(a, b, dir) => Made(b, Layers)
LayersIn(a)       == CHOOSE Layers : MadeOf(a, Layers)
Apart(a) ==
  /\ \E S : Encloses(S, a)
  /\ \E Layers : MadeOf(a, Layers)
  /\ \A b, dir : Among(a, b, dir) => NamesDiffer(b)
  /\ \A b, c, dir : Among(a, b, dir) /\ Among(a, c, dir) => b = c

LEMMA AmongIs ==
  ASSUME NEW a, Apart(a), NEW b, NEW dir, Among(a, b, dir)
  PROVE  Made(b, LayersIn(a)) /\ NamesDiffer(b) /\ Mounts(b) \subseteq Below(a)
<1>1. Encloses(Enclosure(a), a)
  BY Zenon DEF Apart, Enclosure
<1>2. MadeOf(a, LayersIn(a))
  BY Zenon DEF Apart, LayersIn
<1>3. ASSUME NEW S, Encloses(S, a) PROVE Mounts(b) \subseteq S
  <2>1. Below(a) \subseteq S
    BY <1>3 DEF Below
  <2>2. OpenedAt(S, a, b, dir)
    BY <2>1 DEF Among, OpenedAt
  <2> QED BY <1>3, <2>2 DEF Encloses
<1>4. Mounts(b) \subseteq Below(a)
  BY <1>1, <1>3 DEF Below
<1> QED BY <1>2, <1>4 DEF MadeOf, Apart

(* All that is written has a path of its own, then.                        *)
LEMMA AllDiffer ==
  ASSUME NEW b, NamesDiffer(b)
  PROVE  /\ PackLayer(b) \in All(b) /\ Contents(b) \subseteq All(b) /\ Own(b) \subseteq All(b)
         /\ LayerPath(PackLayer(b)) = PackFile /\ PackLayer(b).of = ThePack(b)
         /\ \A l, m \in All(b) : LayerPath(l) = LayerPath(m) => l.of = m.of
         /\ \A l \in All(b) : l = PackLayer(b) \/ l \in Contents(b)
<1>1. LayerPath(PackLayer(b)) = PackFile /\ PackLayer(b).of = ThePack(b)
  BY LayerAtTop DEF PackLayer, PackFile
<1>2. \A l \in All(b) : l = PackLayer(b) \/ l \in Contents(b)
  BY DEF All
<1>3. ASSUME NEW l \in All(b), NEW m \in All(b), LayerPath(l) = LayerPath(m) PROVE l.of = m.of
  <2>1. l \in Contents(b) => LayerPath(l) # PackFile
    BY DEF NamesDiffer
  <2>2. m \in Contents(b) => LayerPath(m) # PackFile
    BY DEF NamesDiffer
  <2>3. CASE l = PackLayer(b)
    BY <1>1, <1>2, <1>3, <2>2, <2>3
  <2>4. CASE l \in Contents(b)
    BY <1>1, <1>2, <1>3, <2>1, <2>4 DEF NamesDiffer
  <2> QED BY <1>2, <2>3, <2>4
<1> QED BY <1>1, <1>2, <1>3 DEF All, Contents

(* Jobs in a directory, its pack file, and one that is for a layer.        *)
Ours(d, job)   == job.do \in {"member", "write"} /\ job.dir = d
IsPack(d, job) == Ours(d, job) /\ job.do = "write" /\ job.path = PackFile
For(d, job, l) ==
  /\ Ours(d, job)
  /\ job.do = "member" => KindOf(job.entry) = "files" /\ l \in Elements(job.entry.of.layers)
  /\ job.do = "write" => job.path = LayerPath(l) /\ job.of = l.of

(* What a job may be, and what it may be in the directory of b.            *)
Known(a, job) ==
  /\ job.do \in {"artifact", "member", "write"}
  /\ job.do = "artifact" =>
       Among(a, job.entry.of, DirOf(job.entry, job.fallback))
  /\ job.do = "member" =>
       /\ KindOf(job.entry) = "artifact" => job.entry \in Below(a)
       /\ KindOf(job.entry) = "files" => job.entry.of.layers \in Seq(LayersIn(a))
Belongs(b, d, job) ==
  Ours(d, job) =>
    /\ job.do = "member" => IsIndex(b) /\ job.entry \in Elements(b.members)
    /\ job.do = "write" => \E l \in All(b) : job.path = LayerPath(l) /\ job.of = l.of

HasFile(dir, path, v) == <<dir, path>> \in DOMAIN disk /\ disk[<<dir, path>>] = v
IsStored(d, l) == HasFile(d, LayerPath(l), l.of)
Waits(d, l) == \E i \in DOMAIN jobs : For(d, jobs[i], l)

(* In an open directory each layer is stored or waits, and the pack file   *)
(* comes last: nothing waits behind it, and when it is there all is.       *)
(* Nothing is there that does not belong there.                            *)
AllBelong(b, d) == \A i \in DOMAIN jobs : Belongs(b, d, jobs[i])
PackIsLast(d) ==
  \A j \in DOMAIN jobs : IsPack(d, jobs[j]) => \A k \in DOMAIN jobs : k > j => ~Ours(d, jobs[k])
PackMeansAll(b, d) ==
  <<d, PackFile>> \in DOMAIN disk =>
    /\ \A k \in DOMAIN jobs : ~Ours(d, jobs[k])
    /\ disk[<<d, PackFile>>] # Partial => \A l \in All(b) : IsStored(d, l)
NothingElse(b, d) ==
  \A path : <<d, path>> \in DOMAIN disk => \E l \in All(b) : path = LayerPath(l)
Underway(b, d) ==
  /\ AllBelong(b, d) /\ PackIsLast(d) /\ PackMeansAll(b, d) /\ NothingElse(b, d)
  /\ status = "running" => \A l \in All(b) : IsStored(d, l) \/ Waits(d, l)
  /\ status = "done" => \A l \in All(b) : IsStored(d, l)

(* Jobs and files are in open directories only, and only artifacts below   *)
(* the root are opened, the root first.                                    *)
Opened(b, d) == b \in DOMAIN seen /\ seen[b] = d
IsDir(d)     == \E b : Opened(b, d)
Home(job)    == \A d : job.do # "artifact" /\ job.dir = d => IsDir(d)
AllKnown(a)  == \A i \in DOMAIN jobs : Known(a, jobs[i])
AllHome      == \A i \in DOMAIN jobs : Home(jobs[i])
DiskIsHome   == \A d, path : <<d, path>> \in DOMAIN disk => IsDir(d)
DiskIsPlaces == \A k \in DOMAIN disk : k = <<k[1], k[2]>>
SeenIsOpened(a) == \A b, d : Opened(b, d) => Among(a, b, d)
AllUnderway     == \A b, d : Opened(b, d) => Underway(b, d)
Ordered(a) ==
  /\ IsSeq(jobs) /\ status \in {"idle", "running", "done", "failed"}
  /\ status # "running" => jobs = << >>
  /\ status = "idle" => DOMAIN seen = {}
  /\ status = "done" => a \in DOMAIN seen
  /\ status = "running" /\ a \notin DOMAIN seen => jobs = << RootJob(a) >>
Extraction(a) ==
  /\ Ordered(a) /\ SeenIsOpened(a) /\ AllKnown(a) /\ AllHome /\ AllUnderway
  /\ DiskIsHome /\ DiskIsPlaces
Extractions ==
  /\ command \in Commands
  /\ command.name = "extract" => Extraction(command.of)
  /\ command.name # "extract" => DOMAIN seen = {}

-----------------------------------------------------------------------------
(* Jobs that take the place of the first.                                  *)

Instead(new) ==
  /\ IsSeq(new) /\ jobs # << >> /\ jobs' = new \o Tail(jobs)
Placed(new) ==
  /\ IsSeq(jobs')
  /\ \A i \in DOMAIN new : i \in DOMAIN jobs' /\ jobs'[i] = new[i]
  /\ \A i \in DOMAIN jobs' : i \in DOMAIN new \/
       (i > Len(new) /\ i - Len(new) + 1 \in DOMAIN jobs /\ jobs'[i] = jobs[i - Len(new) + 1])
  /\ \A i \in DOMAIN jobs : i > 1 =>
       i + Len(new) - 1 \in DOMAIN jobs' /\ jobs'[i + Len(new) - 1] = jobs[i]

LEMMA TailOf ==
  ASSUME NEW s, IsSeq(s), s # << >>
  PROVE  /\ IsSeq(Tail(s)) /\ Len(s) \in Nat \ {0} /\ DOMAIN s = 1 .. Len(s)
         /\ Head(s) = s[1] /\ 1 \in DOMAIN s
         /\ Len(Tail(s)) = Len(s) - 1 /\ DOMAIN Tail(s) = 1 .. Len(s) - 1
         /\ \A i \in 1 .. Len(s) - 1 : Tail(s)[i] = s[i + 1]
<1>1. PICK X : s \in Seq(X)
  BY DEF IsSeq
<1>2. Tail(s) \in Seq(X)
  BY <1>1
<1>3. IsSeq(Tail(s))
  BY <1>2, SeqOfElements DEF IsSeq
<1> QED BY <1>1, <1>2, <1>3

LEMMA PlacedInstead ==
  ASSUME IsSeq(jobs), NEW new, Instead(new)
  PROVE  Placed(new)
<1> DEFINE rest == Tail(jobs)
<1>0. /\ IsSeq(rest) /\ Len(jobs) \in Nat \ {0} /\ DOMAIN jobs = 1 .. Len(jobs)
      /\ Len(rest) = Len(jobs) - 1
      /\ \A i \in 1 .. Len(jobs) - 1 : rest[i] = jobs[i + 1]
  BY TailOf DEF Instead
<1>1. PICK n, m, k \in Nat : n = Len(new) /\ m = Len(jobs) /\ k = Len(rest)
  <2>1. Len(new) \in Nat
    BY DEF Instead, IsSeq
  <2>2. Len(rest) \in Nat
    BY <1>0
  <2> QED BY <1>0, <2>1, <2>2
<1>2. /\ IsSeq(rest) /\ m # 0 /\ DOMAIN jobs = 1 .. m /\ k = m - 1
      /\ \A i \in 1 .. m - 1 : rest[i] = jobs[i + 1]
  BY <1>0, <1>1
<1> HIDE DEF rest
<1>3. /\ IsSeq(new \o rest) /\ DOMAIN (new \o rest) = 1 .. n + k
      /\ DOMAIN new = 1 .. n
      /\ \A i \in 1 .. n + k : (new \o rest)[i] = IF i <= n THEN new[i] ELSE rest[i - n]
  <2>1. AreJoined(new, rest, new \o rest)
    BY <1>2, JoinOf DEF Instead
  <2> QED BY <1>1, <2>1 DEF AreJoined
<1>4. jobs' = new \o rest
  BY DEF Instead, rest
<1>5. ASSUME NEW i \in DOMAIN new PROVE i \in DOMAIN jobs' /\ jobs'[i] = new[i]
  <2>1. i \in 1 .. n + k /\ i <= n
    BY <1>1, <1>3, <1>5
  <2> QED BY <1>3, <1>4, <2>1
<1>6. ASSUME NEW i \in DOMAIN jobs', i \notin DOMAIN new
      PROVE  i > n /\ i - n + 1 \in DOMAIN jobs /\ jobs'[i] = jobs[i - n + 1]
  <2>1. i \in 1 .. n + k /\ ~(i <= n) /\ i > n
    BY <1>1, <1>3, <1>4, <1>6
  <2>2. i - n \in 1 .. m - 1 /\ i - n + 1 \in 1 .. m
    BY <1>1, <1>2, <2>1
  <2>3. jobs'[i] = rest[i - n]
    BY <1>3, <1>4, <2>1
  <2> QED BY <1>2, <2>1, <2>2, <2>3
<1>7. ASSUME NEW i \in DOMAIN jobs, i > 1
      PROVE  i + n - 1 \in DOMAIN jobs' /\ jobs'[i + n - 1] = jobs[i]
  <2>1. PICK j \in Nat : j = i + n - 1
    BY <1>1, <1>2, <1>7
  <2>2. /\ j \in 1 .. n + k /\ ~(j <= n) /\ j - n = i - 1
        /\ i - 1 \in 1 .. m - 1 /\ i - 1 + 1 = i
    BY <1>1, <1>2, <1>7, <2>1
  <2>3. jobs'[j] = rest[i - 1]
    BY <1>3, <1>4, <2>2
  <2>4. rest[i - 1] = jobs[i]
    BY <1>2, <2>2
  <2> QED BY <1>3, <1>4, <2>1, <2>2, <2>3, <2>4
<1> QED BY <1>1, <1>3, <1>4, <1>5, <1>6, <1>7 DEF Placed

-----------------------------------------------------------------------------
(* What a job is replaced by: known jobs, no pack file among them, none in *)
(* another directory, and in its own directory one for each of the layers. *)

Fits(a, b, d, new, dir, layers) ==
  /\ IsSeq(new)
  /\ \A i \in DOMAIN new : Known(a, new[i]) /\ (new[i].do # "artifact" => new[i].dir = dir)
  /\ \A i \in DOMAIN new : Belongs(b, d, new[i]) /\ ~IsPack(d, new[i])
  /\ dir # d => \A i \in DOMAIN new : ~Ours(d, new[i])
  /\ dir = d => \A l \in layers : \E i \in DOMAIN new : For(d, new[i], l)

LEMMA FilesFit ==
  ASSUME NEW a, NEW b, NEW d, NEW Layers, NEW layers \in Seq(Layers), NEW dir, NamesDiffer(b),
         dir = d => Elements(layers) \subseteq Own(b)
  PROVE  Fits(a, b, d, Files(layers, dir), dir, Elements(layers))
<1> DEFINE new == Files(layers, dir)
<1>1. PICK n \in Nat : n = Len(layers) /\ DOMAIN layers = 1 .. n
  BY ElementsOfSeq
<1>2. new = [i \in 1 .. n |-> WriteJob(dir, LayerPath(layers[i]), layers[i].of)]
  BY <1>1 DEF Files
<1>3. new \in Seq({new[i] : i \in 1 .. n}) /\ DOMAIN new = 1 .. n
  BY <1>2
<1>4. \A i \in 1 .. n : new[i] = WriteJob(dir, LayerPath(layers[i]), layers[i].of)
  BY <1>2
<1> HIDE DEF new
<1>5. IsSeq(new)
  BY <1>3, SeqOfElements DEF IsSeq
<1>6. ASSUME NEW i \in 1 .. n
      PROVE  /\ new[i].do = "write" /\ new[i].dir = dir /\ new[i].path = LayerPath(layers[i])
             /\ new[i].of = layers[i].of /\ layers[i] \in Elements(layers)
  <2>1. layers[i] \in Elements(layers)
    BY <1>1 DEF Elements
  <2>2. PICK job : job = new[i]
    OBVIOUS
  <2>3. job = [do |-> "write", dir |-> dir, path |-> LayerPath(layers[i]), of |-> layers[i].of]
    BY <1>4, <2>2 DEF WriteJob
  <2> QED BY <2>1, <2>2, <2>3
<1>7. ASSUME NEW i \in 1 .. n
      PROVE  Known(a, new[i]) /\ Belongs(b, d, new[i]) /\ ~IsPack(d, new[i])
  <2>1. dir = d => layers[i] \in All(b) /\ layers[i] \in Contents(b)
    BY <1>6, AllDiffer DEF Contents
  <2>2. Belongs(b, d, new[i])
    BY <1>6, <2>1 DEF Belongs, Ours
  <2>3. ~IsPack(d, new[i])
    BY <1>6, <2>1 DEF IsPack, Ours, NamesDiffer
  <2>4. Known(a, new[i])
    BY <1>6 DEF Known
  <2> QED BY <2>2, <2>3, <2>4
<1>8. dir # d => \A i \in 1 .. n : ~Ours(d, new[i])
  BY <1>6 DEF Ours
<1>9. ASSUME dir = d, NEW l \in Elements(layers)
      PROVE  \E i \in 1 .. n : For(d, new[i], l)
  <2>1. PICK i \in 1 .. n : l = layers[i]
    BY <1>1 DEF Elements
  <2>2. For(d, new[i], l)
    BY <1>6, <1>9, <2>1 DEF For, Ours
  <2> QED BY <2>2
<1>10. Fits(a, b, d, new, dir, Elements(layers))
  BY <1>3, <1>5, <1>6, <1>7, <1>8, <1>9 DEF Fits
<1> QED BY <1>10 DEF new

(* The layers a member's job is for.                                       *)
LayersFrom(e) == IF KindOf(e) = "files" THEN Elements(e.of.layers) ELSE {}

LEMMA MemberFits ==
  ASSUME NEW a, NEW job, Known(a, job), job.do = "member",
         NEW b, NEW d, NamesDiffer(b), Belongs(b, d, job)
  PROVE  Fits(a, b, d, Member(job.entry, job.dir), job.dir, LayersFrom(job.entry))
<1> DEFINE e == job.entry
           dir == job.dir
<1>1. /\ KindOf(e) = "artifact" => e \in Below(a)
      /\ KindOf(e) = "files" => e.of.layers \in Seq(LayersIn(a))
      /\ dir = d => IsIndex(b) /\ e \in Elements(b.members)
  BY DEF Known, Belongs, Ours
<1> HIDE DEF e, dir
<1>2. CASE KindOf(e) = "files"
  <2>1. ASSUME dir = d PROVE Elements(e.of.layers) \subseteq Own(b)
    <3>1. IsIndex(b) /\ e \in Elements(b.members)
      BY <1>1, <2>1
    <3>2. PICK i \in DOMAIN b.members : e = b.members[i]
      BY <3>1 DEF Elements
    <3>3. i \in OwnMembers(b)
      BY <1>2, <3>2 DEF OwnMembers
    <3> QED BY <3>1, <3>2, <3>3 DEF Own
  <2>2. Fits(a, b, d, Files(e.of.layers, dir), dir, Elements(e.of.layers))
    BY <1>1, <1>2, <2>1, FilesFit
  <2>3. Member(e, dir) = Files(e.of.layers, dir)
    BY <1>2 DEF Member
  <2> QED BY <1>2, <2>2, <2>3 DEF LayersFrom, e, dir
<1>3. CASE KindOf(e) = "image"
  <2>1. Member(e, dir) = << >>
    BY <1>3 DEF Member
  <2>2. IsSeq(<< >>) /\ DOMAIN << >> = {}
    BY DEF IsSeq
  <2> QED BY <1>3, <2>1, <2>2 DEF LayersFrom, Fits, e, dir
<1>4. CASE KindOf(e) = "artifact"
  <2> DEFINE new == << ArtifactJob(e, <<"sha256", e.of>>) >>
  <2>1. Member(e, dir) = new
    BY <1>4 DEF Member
  <2>2. DOMAIN new = {1} /\ new[1] = ArtifactJob(e, <<"sha256", e.of>>) /\ IsSeq(new)
    BY OneOf
  <2> HIDE DEF new
  <2>3. new[1].do = "artifact" /\ new[1].entry = e /\ new[1].fallback = <<"sha256", e.of>>
    BY <2>2 DEF ArtifactJob
  <2>4. Among(a, e.of, DirOf(e, <<"sha256", e.of>>))
    BY <1>1, <1>4 DEF Among, OpenedAt
  <2>5. Known(a, new[1]) /\ ~Ours(d, new[1])
    BY <2>3, <2>4 DEF Known, Ours
  <2> QED BY <1>4, <2>1, <2>2, <2>3, <2>5 DEF Fits, Belongs, IsPack, LayersFrom, e, dir
<1> QED BY <1>2, <1>3, <1>4 DEF KindOf

LEMMA PartsFit ==
  ASSUME NEW a, NEW b, NEW d, NamesDiffer(b), NEW c, NEW dir,
         Made(c, LayersIn(a)), Mounts(c) \subseteq Below(a), dir = d => c = b
  PROVE  Fits(a, b, d, Parts(c, dir), dir, Contents(c))
<1>1. CASE IsIndex(c)
  <2> DEFINE new == [i \in DOMAIN c.members |-> MemberJob(c.members[i], dir)]
  <2>1. Parts(c, dir) = new
    BY <1>1 DEF Parts
  <2>2. PICK n \in Nat : DOMAIN c.members = 1 .. n
    BY <1>1 DEF Made, IsList
  <2>3. DOMAIN new = 1 .. n /\ new \in Seq({new[i] : i \in 1 .. n})
    <3>1. new = [i \in 1 .. n |-> MemberJob(c.members[i], dir)]
      BY <2>2
    <3> HIDE DEF new
    <3>2. DOMAIN new = 1 .. n
      BY <3>1
    <3>3. new \in Seq({new[i] : i \in 1 .. n})
      BY <2>2, <3>1
    <3> QED BY <3>2, <3>3
  <2>4. IsSeq(new)
    <3> HIDE DEF new
    <3> QED BY <2>3, SeqOfElements DEF IsSeq
  <2>5. ASSUME NEW i \in 1 .. n
        PROVE  /\ new[i].do = "member" /\ new[i].entry = c.members[i] /\ new[i].dir = dir
               /\ c.members[i] \in Elements(c.members)
    BY <2>2 DEF MemberJob, Elements
  <2> HIDE DEF new
  <2>6. ASSUME NEW i \in 1 .. n
        PROVE  Known(a, new[i]) /\ Belongs(b, d, new[i]) /\ ~IsPack(d, new[i])
    <3>1. KindOf(c.members[i]) = "artifact" => c.members[i] \in Below(a)
      BY <1>1, <2>5 DEF Mounts
    <3>2. KindOf(c.members[i]) = "files" => c.members[i].of.layers \in Seq(LayersIn(a))
      BY <1>1, <2>2 DEF Made, KindOf
    <3>3. Belongs(b, d, new[i])
      BY <1>1, <2>5 DEF Belongs, Ours
    <3> QED BY <2>5, <3>1, <3>2, <3>3 DEF Known, IsPack
  <2>7. dir # d => \A i \in 1 .. n : ~Ours(d, new[i])
    BY <2>5 DEF Ours
  <2>8. ASSUME dir = d, NEW l \in Contents(c)
        PROVE  \E i \in 1 .. n : For(d, new[i], l)
    <3>1. PICK i \in OwnMembers(c) : l \in Elements(c.members[i].of.layers)
      BY <1>1 DEF Contents, Config, Own
    <3>2. i \in 1 .. n /\ KindOf(c.members[i]) = "files"
      BY <2>2 DEF OwnMembers
    <3>3. For(d, new[i], l)
      BY <2>5, <2>8, <3>1, <3>2 DEF For, Ours
    <3> QED BY <3>2, <3>3
  <2> QED BY <2>1, <2>3, <2>4, <2>5, <2>6, <2>7, <2>8 DEF Fits
<1>2. CASE ~IsIndex(c)
  <2> DEFINE config == IF c.config = None THEN << >> ELSE << WriteJob(dir, ConfigAt, c.config) >>
             files == Files(c.layers, dir)
  <2>1. Parts(c, dir) = config \o files
    BY <1>2 DEF Parts
  <2>2. Own(c) = Elements(c.layers)
    BY <1>2 DEF Own
  <2>3. Fits(a, b, d, files, dir, Own(c))
    BY <1>2, <2>2, FilesFit DEF Made
  <2>4. Fits(a, b, d, config, dir, Config(c))
    <3>1. CASE c.config = None
      <4>1. config = << >> /\ IsSeq(<< >>) /\ DOMAIN << >> = {}
        BY <3>1 DEF IsSeq
      <4>2. Config(c) = {}
        BY <3>1 DEF Config
      <4> QED BY <4>1, <4>2 DEF Fits
    <3>2. CASE c.config # None
      <4> DEFINE new == << WriteJob(dir, ConfigAt, c.config) >>
      <4>1. config = new
        BY <3>2
      <4>2. DOMAIN new = {1} /\ new[1] = WriteJob(dir, ConfigAt, c.config) /\ IsSeq(new)
        BY OneOf
      <4> HIDE DEF new
      <4>3. new[1].do = "write" /\ new[1].dir = dir /\ new[1].path = ConfigAt /\ new[1].of = c.config
        BY <4>2 DEF WriteJob
      <4>4. PICK l : l = Layer(ConfigAt, NoPath, c.config)
        OBVIOUS
      <4>5. LayerPath(l) = ConfigAt /\ l.of = c.config
        BY <4>4, LayerAtTop DEF ConfigAt
      <4>6. Config(c) = {l}
        BY <1>2, <3>2, <4>4 DEF Config
      <4>7. Belongs(b, d, new[1])
        BY <4>3, <4>5, <4>6 DEF Belongs, Ours, All, Contents
      <4>8. ConfigAt # PackFile
        BY DEF ConfigAt, PackFile
      <4>9. Known(a, new[1]) /\ ~IsPack(d, new[1]) /\ (dir # d => ~Ours(d, new[1]))
        BY <4>3, <4>8 DEF Known, IsPack, Ours
      <4>10. dir = d => For(d, new[1], l)
        BY <4>3, <4>5 DEF For, Ours
      <4> HIDE DEF config
      <4> QED BY <4>1, <4>2, <4>3, <4>6, <4>7, <4>9, <4>10 DEF Fits
    <3> QED BY <3>1, <3>2
  <2> HIDE DEF config, files
  <2>5. AreJoined(config, files, config \o files)
    BY <2>3, <2>4, JoinOf DEF Fits
  <2>6. PICK u, n, m : u = config \o files /\ n \in Nat /\ m \in Nat
                       /\ n = Len(config) /\ m = Len(files)
    BY <2>5 DEF AreJoined
  <2>7. /\ IsSeq(u) /\ DOMAIN u = 1 .. n + m /\ DOMAIN config = 1 .. n /\ DOMAIN files = 1 .. m
        /\ \A i \in 1 .. n + m : u[i] = IF i <= n THEN config[i] ELSE files[i - n]
    BY <2>5, <2>6 DEF AreJoined
  <2>8. ASSUME NEW i \in 1 .. n + m
        PROVE  \/ i \in DOMAIN config /\ u[i] = config[i]
               \/ i - n \in DOMAIN files /\ u[i] = files[i - n]
    <3>1. CASE i <= n
      BY <2>6, <2>7, <3>1
    <3>2. CASE ~(i <= n)
      <4>1. i - n \in 1 .. m
        BY <2>6, <3>2
      <4> QED BY <2>7, <3>2, <4>1
    <3> QED BY <3>1, <3>2
  <2>9. ASSUME NEW i \in DOMAIN files PROVE i + n \in 1 .. n + m /\ u[i + n] = files[i]
    <3>1. PICK j \in Nat : j = i + n
      BY <2>6, <2>7
    <3>2. j \in 1 .. n + m /\ ~(j <= n) /\ j - n = i
      BY <2>6, <2>7, <3>1
    <3> QED BY <2>7, <3>1, <3>2
  <2>10. \A i \in DOMAIN u : Known(a, u[i]) /\ (u[i].do # "artifact" => u[i].dir = dir)
    BY <2>3, <2>4, <2>7, <2>8 DEF Fits
  <2>11. \A i \in DOMAIN u : Belongs(b, d, u[i]) /\ ~IsPack(d, u[i])
    BY <2>3, <2>4, <2>7, <2>8 DEF Fits
  <2>12. dir # d => \A i \in DOMAIN u : ~Ours(d, u[i])
    BY <2>3, <2>4, <2>7, <2>8 DEF Fits
  <2>13. ASSUME dir = d, NEW l \in Contents(c) PROVE \E i \in DOMAIN u : For(d, u[i], l)
    <3>1. CASE l \in Own(c)
      BY <2>3, <2>7, <2>9, <2>13, <3>1 DEF Fits
    <3>2. CASE l \in Config(c)
      <4>1. PICK i \in DOMAIN config : For(d, config[i], l)
        BY <2>4, <2>13, <3>2 DEF Fits
      <4>2. i \in DOMAIN u /\ u[i] = config[i]
        BY <2>6, <2>7
      <4> QED BY <4>1, <4>2
    <3> QED BY <3>1, <3>2 DEF Contents
  <2> QED BY <2>1, <2>6, <2>7, <2>10, <2>11, <2>12, <2>13 DEF Fits
<1> QED BY <1>1, <1>2

(* The jobs of an artifact with the pack file behind them.                 *)
Closed(a, b, d, new, dir, layers) ==
  /\ IsSeq(new)
  /\ \A i \in DOMAIN new : Known(a, new[i]) /\ (new[i].do # "artifact" => new[i].dir = dir)
  /\ \A i \in DOMAIN new : Belongs(b, d, new[i]) /\ (IsPack(d, new[i]) => i = Len(new))
  /\ dir # d => \A i \in DOMAIN new : ~Ours(d, new[i])
  /\ dir = d => \A l \in layers : \E i \in DOMAIN new : For(d, new[i], l)

LEMMA PackedParts ==
  ASSUME NEW a, NEW b, NEW d, NEW c, NEW dir, NEW layers, NEW parts,
         Fits(a, b, d, parts, dir, layers), NamesDiffer(b), dir = d => c = b
  PROVE  Closed(a, b, d, parts \o << WritePack(c, dir) >>, dir, layers \cup {PackLayer(c)})
<1>1. PICK last : last = << WritePack(c, dir) >>
  OBVIOUS
<1>2. PICK new : new = parts \o last
  OBVIOUS
<1>3. DOMAIN last = {1} /\ last[1] = WritePack(c, dir) /\ IsSeq(last)
  BY <1>1, OneOf
<1>4. AreJoined(parts, last, new)
  BY <1>2, <1>3, JoinOf DEF Fits
<1>5. PICK n \in Nat : n = Len(parts)
  BY <1>4 DEF AreJoined
<1>6. Len(last) = 1
  BY <1>1
<1>7. /\ IsSeq(new) /\ Len(new) = n + 1 /\ DOMAIN new = 1 .. n + 1 /\ DOMAIN parts = 1 .. n
      /\ \A i \in 1 .. n + 1 : new[i] = IF i <= n THEN parts[i] ELSE last[i - n]
  BY <1>4, <1>5, <1>6 DEF AreJoined
<1>8. \A i \in 1 .. n : i \in DOMAIN new /\ new[i] = parts[i]
  BY <1>5, <1>7
<1>9. PICK job : job = WritePack(c, dir)
  OBVIOUS
<1>10. new[n + 1] = job
  BY <1>3, <1>5, <1>7, <1>9
<1>11. \A i \in DOMAIN new : i \in 1 .. n \/ i = n + 1
  BY <1>5, <1>7
<1>12. job.do = "write" /\ job.path = PackFile /\ job.dir = dir /\ job.of = ThePack(c)
  BY <1>9 DEF WritePack, WriteJob, ThePack
<1>13. /\ Known(a, job) /\ Belongs(b, d, job) /\ (dir # d => ~Ours(d, job))
       /\ dir = d => For(d, job, PackLayer(c))
  BY <1>12, AllDiffer DEF Known, Belongs, Ours, For
<1>14. \A i \in DOMAIN new : Known(a, new[i]) /\ (new[i].do # "artifact" => new[i].dir = dir)
  BY <1>7, <1>8, <1>10, <1>11, <1>12, <1>13 DEF Fits
<1>15. \A i \in DOMAIN new : Belongs(b, d, new[i]) /\ (IsPack(d, new[i]) => i = Len(new))
  BY <1>7, <1>8, <1>10, <1>11, <1>13 DEF Fits
<1>16. dir # d => \A i \in DOMAIN new : ~Ours(d, new[i])
  BY <1>7, <1>8, <1>10, <1>11, <1>13 DEF Fits
<1>17. ASSUME dir = d, NEW l \in layers \cup {PackLayer(c)}
       PROVE  \E i \in DOMAIN new : For(d, new[i], l)
  <2>1. CASE l \in layers
    BY <1>7, <1>8, <1>17, <2>1 DEF Fits
  <2>2. CASE l = PackLayer(c)
    <3>1. n + 1 \in DOMAIN new
      BY <1>5, <1>7
    <3> QED BY <1>10, <1>13, <1>17, <2>2, <3>1
  <2> QED BY <2>1, <2>2
<1> QED BY <1>1, <1>2, <1>7, <1>14, <1>15, <1>16, <1>17 DEF Closed

-----------------------------------------------------------------------------
(* The steps of an extraction, seen from one open directory.  Jobs that    *)
(* are replaced still belong, the pack file stays last, and what waits     *)
(* still waits.                                                            *)

Replaces(b, d, new) ==
  /\ Instead(new)
  /\ \A i \in DOMAIN new : Belongs(b, d, new[i]) /\ ~IsPack(d, new[i])
  /\ ~Ours(d, Head(jobs)) => \A i \in DOMAIN new : ~Ours(d, new[i])

LEMMA JobsComeFrom ==
  ASSUME IsSeq(jobs), NEW new, Instead(new)
  PROVE  /\ IsSeq(jobs)'
         /\ \A i \in DOMAIN jobs' : \/ \E k \in DOMAIN new : jobs'[i] = new[k]
                                    \/ \E k \in DOMAIN jobs : jobs'[i] = jobs[k]
<1>1. Placed(new)
  BY PlacedInstead
<1> QED BY <1>1 DEF Placed, IsSeq

LEMMA OrderStays ==
  ASSUME NEW b, NEW d, IsSeq(jobs), AllBelong(b, d), PackIsLast(d),
         NEW new, Replaces(b, d, new)
  PROVE  /\ AllBelong(b, d)' /\ PackIsLast(d)'
         /\ (\A k \in DOMAIN jobs : ~Ours(d, jobs[k])) =>
              \A k \in DOMAIN jobs' : ~Ours(d, jobs'[k])
<1>1. PICK n \in Nat : n = Len(new) /\ DOMAIN new = 1 .. n
  BY DEF Replaces, Instead, IsSeq
<1>2. Placed(new)
  BY PlacedInstead DEF Replaces
<1>3. Len(jobs) \in Nat /\ DOMAIN jobs = 1 .. Len(jobs) /\ Head(jobs) = jobs[1] /\ 1 \in DOMAIN jobs
  BY TailOf DEF Replaces, Instead
<1>4. IsSeq(jobs')
  BY <1>2 DEF Placed
<1>5. \A i \in DOMAIN jobs' :
        \/ i \in DOMAIN new /\ jobs'[i] = new[i]
        \/ /\ i \notin DOMAIN new /\ i > n
           /\ i - n + 1 \in DOMAIN jobs /\ jobs'[i] = jobs[i - n + 1]
  BY <1>1, <1>2 DEF Placed
<1>6. \A i \in DOMAIN jobs' : Belongs(b, d, jobs'[i])
  BY <1>5 DEF AllBelong, Replaces
<1>7. ASSUME NEW j \in DOMAIN jobs', IsPack(d, jobs'[j]), NEW k \in DOMAIN jobs', k > j
      PROVE  ~Ours(d, jobs'[k])
  <2>1. j \in Nat /\ k \in Nat
    BY <1>4, TypedDomain DEF IsSeq
  <2>2. j \notin DOMAIN new
    BY <1>5, <1>7 DEF Replaces
  <2>3. j > n /\ j - n + 1 \in DOMAIN jobs /\ jobs'[j] = jobs[j - n + 1]
    BY <1>5, <2>2
  <2>4. k \notin DOMAIN new
    BY <1>1, <1>7, <2>1, <2>3
  <2>5. k - n + 1 \in DOMAIN jobs /\ jobs'[k] = jobs[k - n + 1]
    BY <1>5, <2>4
  <2>6. k - n + 1 > j - n + 1
    BY <1>1, <1>7, <2>1
  <2>7. ~Ours(d, jobs[k - n + 1])
    BY <1>7, <2>3, <2>5, <2>6 DEF PackIsLast
  <2> QED BY <2>5, <2>7
<1>8. ASSUME \A k \in DOMAIN jobs : ~Ours(d, jobs[k]), NEW k \in DOMAIN jobs'
      PROVE  ~Ours(d, jobs'[k])
  BY <1>3, <1>5, <1>8 DEF Replaces
<1> QED BY <1>6, <1>7, <1>8 DEF AllBelong, PackIsLast

LEMMA WaitsOn ==
  ASSUME NEW d, NEW l, IsSeq(jobs), Waits(d, l), NEW new, Instead(new),
         For(d, Head(jobs), l) => \E i \in DOMAIN new : For(d, new[i], l)
  PROVE  Waits(d, l)'
<1>1. Placed(new)
  BY PlacedInstead
<1>2. /\ Len(jobs) \in Nat \ {0} /\ DOMAIN jobs = 1 .. Len(jobs)
      /\ Head(jobs) = jobs[1]
  BY TailOf DEF Instead
<1>3. PICK i \in DOMAIN jobs : For(d, jobs[i], l)
  BY DEF Waits
<1>4. CASE i = 1
  <2>1. PICK k \in DOMAIN new : For(d, new[k], l)
    BY <1>2, <1>3, <1>4
  <2> QED BY <1>1, <2>1 DEF Placed, Waits
<1>5. CASE i # 1
  <2>1. i > 1
    BY <1>2, <1>5
  <2> QED BY <1>1, <1>3, <2>1 DEF Placed, Waits
<1> QED BY <1>4, <1>5

(* A step that writes nothing and replaces a job.                          *)
LEMMA MovesOn ==
  ASSUME NEW b, NEW d, IsSeq(jobs), Underway(b, d), status = "running",
         UNCHANGED <<status, disk>>, NEW new, Replaces(b, d, new),
         \A l \in All(b) : For(d, Head(jobs), l) => \E i \in DOMAIN new : For(d, new[i], l)
  PROVE  Underway(b, d)'
<1>1. /\ AllBelong(b, d)' /\ PackIsLast(d)'
      /\ (\A k \in DOMAIN jobs : ~Ours(d, jobs[k])) =>
           \A k \in DOMAIN jobs' : ~Ours(d, jobs'[k])
  BY OrderStays DEF Underway
<1>2. PackMeansAll(b, d)' /\ NothingElse(b, d)'
  BY <1>1 DEF Underway, PackMeansAll, NothingElse, IsStored, HasFile
<1>3. ASSUME NEW l \in All(b) PROVE IsStored(d, l)' \/ Waits(d, l)'
  <2>1. CASE IsStored(d, l)
    BY <2>1 DEF IsStored, HasFile
  <2>2. CASE Waits(d, l)
    BY <2>2, WaitsOn DEF Replaces
  <2> QED BY <2>1, <2>2 DEF Underway
<1> QED BY <1>1, <1>2, <1>3 DEF Underway

(* A directory that is opened, in which nobody has anything yet.           *)
LEMMA OpenedIsUnderway ==
  ASSUME NEW a, NEW c, NEW d, NEW new, Closed(a, c, d, new, d, All(c)),
         IsSeq(jobs), Instead(new), status = "running", UNCHANGED <<status, disk>>,
         \A i \in DOMAIN jobs : ~Ours(d, jobs[i]),
         \A path : <<d, path>> \notin DOMAIN disk
  PROVE  Underway(c, d)'
<1>1. PICK n \in Nat : n = Len(new) /\ DOMAIN new = 1 .. n
  BY DEF Closed, IsSeq
<1>2. Placed(new)
  BY PlacedInstead
<1>3. \A i \in DOMAIN jobs' : \/ i \in DOMAIN new /\ jobs'[i] = new[i]
                              \/ i \notin DOMAIN new /\ ~Ours(d, jobs'[i])
  BY <1>1, <1>2 DEF Placed
<1>4. \A i \in DOMAIN jobs' : Belongs(c, d, jobs'[i])
  BY <1>3 DEF Closed, Belongs
<1>5. ASSUME NEW j \in DOMAIN jobs', IsPack(d, jobs'[j]), NEW k \in DOMAIN jobs', k > j
      PROVE  ~Ours(d, jobs'[k])
  <2>1. j = n
    BY <1>1, <1>3, <1>5 DEF Closed, IsPack
  <2>2. k \notin DOMAIN new
    BY <1>1, <1>5, <2>1
  <2> QED BY <1>3, <2>2
<1>6. \A l \in All(c) : Waits(d, l)'
  BY <1>2 DEF Closed, Placed, Waits
<1>7. \A path : <<d, path>> \notin DOMAIN disk'
  OBVIOUS
<1>8. AllBelong(c, d)' /\ PackIsLast(d)' /\ PackMeansAll(c, d)' /\ NothingElse(c, d)'
  BY <1>4, <1>5, <1>7 DEF AllBelong, PackIsLast, PackMeansAll, NothingElse
<1> QED BY <1>6, <1>8 DEF Underway

LEMMA NothingInstead ==
  ASSUME IsSeq(jobs), jobs # << >>, jobs' = Tail(jobs), NEW b, NEW d
  PROVE  Replaces(b, d, << >>)
<1>1. PICK X : Tail(jobs) \in Seq(X)
  BY TailOf DEF IsSeq
<1>2. << >> \o Tail(jobs) = Tail(jobs)
  BY <1>1
<1>3. IsSeq(<< >>) /\ DOMAIN << >> = {}
  BY DEF IsSeq
<1> QED BY <1>2, <1>3 DEF Replaces, Instead

LEMMA WithHas ==
  ASSUME NEW f, NEW x, NEW v
  PROVE  /\ \A y : y \in DOMAIN With(f, x, v) <=> y \in DOMAIN f \/ y = x
         /\ With(f, x, v)[x] = v
         /\ \A k \in DOMAIN f : k # x => With(f, x, v)[k] = f[k]
BY DEF With

(* A file that is written.                                                 *)
Written(v)    == disk' = With(disk, Place, v)
Here(dir, path) == dir = Head(jobs).dir /\ path = Head(jobs).path
Same(dir, path) ==
  /\ <<dir, path>> \in DOMAIN disk' <=> <<dir, path>> \in DOMAIN disk
  /\ <<dir, path>> \in DOMAIN disk => disk'[<<dir, path>>] = disk[<<dir, path>>]

LEMMA FileIsWritten ==
  ASSUME NEW v, Written(v), NEW dir, NEW path
  PROVE  /\ Here(dir, path) => HasFile(dir, path, v)'
         /\ ~Here(dir, path) => Same(dir, path)
<1>1. PICK x : x = Place
  OBVIOUS
<1>2. PICK y : y = <<dir, path>>
  OBVIOUS
<1>3. y = x <=> Here(dir, path)
  BY <1>1, <1>2 DEF Place, Here
<1>4. PICK f : f = With(disk, x, v)
  OBVIOUS
<1>5. /\ y \in DOMAIN f <=> y \in DOMAIN disk \/ y = x
      /\ f[x] = v
      /\ y \in DOMAIN disk /\ y # x => f[y] = disk[y]
  BY <1>4, WithHas
<1>6. disk' = f
  BY <1>1, <1>4 DEF Written
<1>7. y = x => y \in DOMAIN disk' /\ disk'[y] = v
  BY <1>5, <1>6
<1>8. y # x => /\ y \in DOMAIN disk' <=> y \in DOMAIN disk
               /\ y \in DOMAIN disk => disk'[y] = disk[y]
  BY <1>5, <1>6
<1> QED BY <1>2, <1>3, <1>7, <1>8 DEF HasFile, Same

LEMMA SameHas ==
  ASSUME NEW dir, NEW path, Same(dir, path), NEW v
  PROVE  HasFile(dir, path, v)' <=> HasFile(dir, path, v)
BY DEF Same, HasFile

LEMMA PlacesStay ==
  ASSUME DiskIsPlaces, UNCHANGED disk \/ \E v : Written(v)
  PROVE  DiskIsPlaces'
<1>1. CASE UNCHANGED disk
  BY <1>1 DEF DiskIsPlaces
<1>2. ASSUME NEW v, Written(v) PROVE DiskIsPlaces'
  <2>1. PICK x, y : x = Head(jobs).dir /\ y = Head(jobs).path
    OBVIOUS
  <2>2. Place = <<x, y>>
    BY <2>1 DEF Place
  <2>3. \A k : k \in DOMAIN disk' <=> k \in DOMAIN disk \/ k = <<x, y>>
    BY <1>2, <2>2, WithHas DEF Written
  <2>4. <<x, y>> = <<(<<x, y>>)[1], (<<x, y>>)[2]>>
    OBVIOUS
  <2> QED BY <2>3, <2>4 DEF DiskIsPlaces
<1> QED BY <1>1, <1>2

(* Nothing in a directory is touched by a write that is in another, and    *)
(* nothing is written that does not belong there.                          *)
LEMMA NotOursIsElsewhere ==
  ASSUME NEW d, NEW v, Written(v), Doing("write"), ~Ours(d, Head(jobs)), NEW path
  PROVE  Same(d, path)
BY FileIsWritten DEF Here, Ours, Doing

LEMMA NothingElseIsWritten ==
  ASSUME NEW b, NEW d, Belongs(b, d, Head(jobs)), NothingElse(b, d),
         NEW v, Written(v), Doing("write")
  PROVE  NothingElse(b, d)'
<1> SUFFICES ASSUME NEW path, <<d, path>> \in DOMAIN disk' PROVE \E l \in All(b) : path = LayerPath(l)
  BY DEF NothingElse
<1>1. CASE Here(d, path)
  <2>1. Ours(d, Head(jobs)) /\ Head(jobs).do = "write"
    BY <1>1 DEF Ours, Here, Doing
  <2> QED BY <1>1, <2>1 DEF Belongs, Here
<1>2. CASE ~Here(d, path)
  <2>1. Same(d, path)
    BY <1>2, FileIsWritten
  <2> QED BY <2>1 DEF Same, NothingElse
<1> QED BY <1>1, <1>2

LEMMA WritingIsRight ==
  ASSUME NEW b, NEW d, NamesDiffer(b), IsSeq(jobs), Underway(b, d), WriteBlob
  PROVE  Underway(b, d)'
<1> DEFINE job == Head(jobs)
<1>1. /\ Doing("write") /\ Written(job.of) /\ jobs' = Tail(jobs)
      /\ status = "running" /\ jobs # << >> /\ job.do = "write" /\ status' = "running"
  BY DEF WriteBlob, Written, Doing
<1>2. job = jobs[1] /\ 1 \in DOMAIN jobs /\ \A k \in DOMAIN jobs : k = 1 \/ k > 1
  BY <1>1, TailOf
<1>3. Belongs(b, d, job)
  BY <1>2 DEF Underway, AllBelong
<1>4. Replaces(b, d, << >>)
  BY <1>1, NothingInstead
<1>5. /\ IsSeq(jobs)' /\ AllBelong(b, d)' /\ PackIsLast(d)'
      /\ (\A k \in DOMAIN jobs : ~Ours(d, jobs[k])) =>
           \A k \in DOMAIN jobs' : ~Ours(d, jobs'[k])
  <2>1. IsSeq(jobs)'
    BY <1>4, JobsComeFrom DEF Replaces
  <2> QED BY <1>4, <2>1, OrderStays DEF Underway
<1>6. ASSUME NEW l, Waits(d, l), ~For(d, job, l) PROVE Waits(d, l)'
  BY <1>4, <1>6, WaitsOn DEF Replaces
<1>7. NothingElse(b, d)'
  BY <1>1, <1>3, NothingElseIsWritten DEF Underway
<1>8. /\ PackLayer(b) \in All(b) /\ Contents(b) \subseteq All(b)
      /\ LayerPath(PackLayer(b)) = PackFile /\ PackLayer(b).of = ThePack(b)
      /\ \A l, m \in All(b) : LayerPath(l) = LayerPath(m) => l.of = m.of
      /\ \A l \in All(b) : l = PackLayer(b) \/ l \in Contents(b)
  BY AllDiffer
<1>9. CASE ~Ours(d, job)
  <2>1. \A path : Same(d, path)
    BY <1>1, <1>9, NotOursIsElsewhere
  <2>2. \A l : IsStored(d, l)' <=> IsStored(d, l)
    BY <2>1, SameHas DEF IsStored
  <2>3. \A l : ~For(d, job, l)
    BY <1>9 DEF For
  <2>4. PackMeansAll(b, d)'
    BY <1>5, <2>1, <2>2 DEF Underway, PackMeansAll, Same
  <2> HIDE DEF job
  <2> QED BY <1>1, <1>5, <1>6, <1>7, <2>2, <2>3, <2>4 DEF Underway
<1>10. CASE Ours(d, job) /\ job.path = PackFile
  <2>1. IsPack(d, job)
    BY <1>1, <1>10 DEF IsPack
  <2>2. \A k \in DOMAIN jobs : k > 1 => ~Ours(d, jobs[k])
    BY <1>2, <2>1 DEF Underway, PackIsLast
  <2>3. ASSUME NEW l \in Contents(b) PROVE ~Waits(d, l)
    <3>1. ~For(d, job, l)
      BY <1>1, <1>10, <2>3 DEF For, NamesDiffer
    <3>2. \A k \in DOMAIN jobs : ~For(d, jobs[k], l)
      BY <1>2, <2>2, <3>1 DEF For
    <3> QED BY <3>2 DEF Waits
  <2>4. \A l \in Contents(b) : IsStored(d, l)
    BY <1>1, <1>8, <2>3 DEF Underway
  <2>5. ASSUME NEW l \in All(b) PROVE IsStored(d, l)'
    <3>1. CASE l \in Contents(b)
      <4>1. LayerPath(l) # PackFile
        BY <3>1 DEF NamesDiffer
      <4>2. Same(d, LayerPath(l))
        BY <1>1, <1>10, <4>1, FileIsWritten DEF Here
      <4> QED BY <2>4, <3>1, <4>2, SameHas DEF IsStored
    <3>2. CASE l = PackLayer(b)
      <4>1. PICK m \in All(b) : job.path = LayerPath(m) /\ job.of = m.of
        BY <1>1, <1>3, <1>10 DEF Belongs
      <4>2. LayerPath(l) = PackFile /\ job.of = l.of
        BY <1>10, <1>8, <3>2, <4>1
      <4>3. job.dir = d
        BY <1>10 DEF Ours
      <4>4. HasFile(d, LayerPath(l), l.of)'
        BY <1>1, <1>10, <4>2, <4>3, FileIsWritten DEF Here
      <4> QED BY <4>4 DEF IsStored
    <3> QED BY <1>8, <3>1, <3>2
  <2>6. ASSUME NEW k \in DOMAIN jobs' PROVE ~Ours(d, jobs'[k])
    <3>1. Placed(<< >>) /\ Len(<< >>) = 0 /\ DOMAIN << >> = {}
      BY <1>4, PlacedInstead DEF Replaces
    <3>2. k > 0 /\ k - 0 + 1 \in DOMAIN jobs /\ jobs'[k] = jobs[k - 0 + 1]
      BY <3>1 DEF Placed
    <3>3. k \in Nat
      BY <1>5, TypedDomain DEF IsSeq
    <3> QED BY <2>2, <3>2, <3>3
  <2>7. PackMeansAll(b, d)'
    BY <2>5, <2>6 DEF PackMeansAll
  <2> HIDE DEF job
  <2> QED BY <1>1, <1>5, <1>7, <2>5, <2>7 DEF Underway
<1>11. CASE Ours(d, job) /\ job.path # PackFile
  <2>1. <<d, PackFile>> \notin DOMAIN disk'
    <3>1. <<d, PackFile>> \notin DOMAIN disk
      BY <1>2, <1>11 DEF Underway, PackMeansAll
    <3>2. Same(d, PackFile)
      BY <1>1, <1>11, FileIsWritten DEF Here
    <3> QED BY <3>1, <3>2 DEF Same
  <2>2. job.dir = d
    BY <1>11 DEF Ours
  <2>3. ASSUME NEW l \in All(b), IsStored(d, l) PROVE IsStored(d, l)'
    <3>1. CASE LayerPath(l) = job.path
      <4>1. PICK m \in All(b) : job.path = LayerPath(m) /\ job.of = m.of
        BY <1>1, <1>3, <1>11 DEF Belongs
      <4>2. job.of = l.of
        BY <1>8, <2>3, <3>1, <4>1
      <4>3. HasFile(d, LayerPath(l), l.of)'
        BY <1>1, <2>2, <3>1, <4>2, FileIsWritten DEF Here
      <4> QED BY <4>3 DEF IsStored
    <3>2. CASE LayerPath(l) # job.path
      <4>1. Same(d, LayerPath(l))
        BY <1>1, <3>2, FileIsWritten DEF Here
      <4> QED BY <2>3, <4>1, SameHas DEF IsStored
    <3> QED BY <3>1, <3>2
  <2>4. ASSUME NEW l \in All(b), For(d, job, l) PROVE IsStored(d, l)'
    <3>1. job.path = LayerPath(l) /\ job.of = l.of
      BY <1>1, <2>4 DEF For
    <3>2. HasFile(d, LayerPath(l), l.of)'
      BY <1>1, <2>2, <3>1, FileIsWritten DEF Here
    <3> QED BY <3>2 DEF IsStored
  <2>5. PackMeansAll(b, d)'
    BY <2>1 DEF PackMeansAll
  <2> HIDE DEF job
  <2> QED BY <1>1, <1>5, <1>6, <1>7, <2>3, <2>4, <2>5 DEF Underway
<1> QED BY <1>9, <1>10, <1>11

LEMMA GivingUpIsRight ==
  ASSUME NEW b, NEW d, IsSeq(jobs), Underway(b, d), GiveUp
  PROVE  Underway(b, d)'
<1>1. /\ status = "running" /\ status' = "failed" /\ jobs # << >> /\ jobs' = << >>
      /\ UNCHANGED disk \/ (Doing("write") /\ Written(Partial))
  BY DEF GiveUp, Written
<1>2. DOMAIN jobs' = {}
  BY <1>1
<1>3. PackMeansAll(b, d)'
  <2>1. CASE UNCHANGED disk
    BY <1>2, <2>1 DEF Underway, PackMeansAll, IsStored, HasFile
  <2>2. CASE Doing("write") /\ Written(Partial) /\ Here(d, PackFile)
    BY <1>2, <2>2, FileIsWritten DEF PackMeansAll, HasFile
  <2>3. CASE Doing("write") /\ Written(Partial) /\ ~Here(d, PackFile)
    <3>1. Same(d, PackFile)
      BY <2>3, FileIsWritten
    <3>2. CASE <<d, PackFile>> \notin DOMAIN disk
      BY <3>1, <3>2 DEF PackMeansAll, Same
    <3>3. CASE <<d, PackFile>> \in DOMAIN disk
      <4>1. Head(jobs) = jobs[1] /\ 1 \in DOMAIN jobs
        BY <1>1, TailOf
      <4>2. ~Ours(d, Head(jobs))
        BY <3>3, <4>1 DEF Underway, PackMeansAll
      <4>3. \A path : Same(d, path)
        BY <2>3, <4>2, NotOursIsElsewhere
      <4>4. \A l : IsStored(d, l)' <=> IsStored(d, l)
        BY <4>3, SameHas DEF IsStored
      <4>5. disk'[<<d, PackFile>>] = disk[<<d, PackFile>>]
        BY <3>1, <3>3 DEF Same
      <4> QED BY <1>2, <3>3, <4>4, <4>5 DEF Underway, PackMeansAll
    <3> QED BY <3>2, <3>3
  <2> QED BY <1>1, <2>1, <2>2, <2>3
<1>4. AllBelong(b, d)' /\ PackIsLast(d)'
  BY <1>2 DEF AllBelong, PackIsLast
<1>5. NothingElse(b, d)'
  <2>1. CASE UNCHANGED disk
    BY <2>1 DEF Underway, NothingElse
  <2>2. CASE Doing("write") /\ Written(Partial)
    <3>1. Head(jobs) = jobs[1] /\ 1 \in DOMAIN jobs
      BY <1>1, TailOf
    <3>2. Belongs(b, d, Head(jobs))
      BY <3>1 DEF Underway, AllBelong
    <3> QED BY <2>2, <3>2, NothingElseIsWritten DEF Underway
  <2> QED BY <1>1, <2>1, <2>2
<1> QED BY <1>1, <1>3, <1>4, <1>5 DEF Underway

LEMMA FinishIsRight ==
  ASSUME NEW b, NEW d, Underway(b, d), Finish
  PROVE  Underway(b, d)'
<1>1. /\ status = "running" /\ status' = "done" /\ UNCHANGED <<disk, jobs>> /\ DOMAIN jobs = {}
  BY DEF Finish
<1>2. \A l \in All(b) : IsStored(d, l)
  BY <1>1 DEF Underway, Waits
<1>3. \A l \in All(b) : IsStored(d, l)'
  BY <1>1, <1>2 DEF IsStored, HasFile
<1>4. PackMeansAll(b, d)'
  BY <1>1, <1>3 DEF PackMeansAll
<1>5. AllBelong(b, d)' /\ PackIsLast(d)' /\ NothingElse(b, d)'
  BY <1>1 DEF Underway, AllBelong, PackIsLast, NothingElse
<1> QED BY <1>1, <1>3, <1>4, <1>5 DEF Underway

-----------------------------------------------------------------------------
(* The steps of an extraction, over all directories.                       *)

LEMMA HeadIs ==
  ASSUME NEW a, Extraction(a), jobs # << >>
  PROVE  /\ IsSeq(jobs) /\ status = "running" /\ Known(a, Head(jobs))
         /\ Home(Head(jobs))
         /\ \A b, d : Opened(b, d) => Belongs(b, d, Head(jobs)) /\ Underway(b, d)
<1>1. IsSeq(jobs) /\ status = "running"
  BY DEF Extraction, Ordered
<1>2. Head(jobs) = jobs[1] /\ 1 \in DOMAIN jobs
  BY <1>1, TailOf
<1> QED BY <1>1, <1>2 DEF Extraction, AllKnown, AllHome, AllUnderway, Underway, AllBelong

(* Until the root is open, opening it is all there is to do.               *)
LEMMA RootIsFirst ==
  ASSUME NEW a, Extraction(a), status = "running", a \notin DOMAIN seen
  PROVE  jobs # << >> /\ Head(jobs).do = "artifact" /\ Head(jobs).entry.of = a
<1>1. jobs = << RootJob(a) >>
  BY DEF Extraction, Ordered
<1>2. jobs # << >> /\ Head(jobs) = RootJob(a)
  BY <1>1
<1>3. RootJob(a).do = "artifact" /\ RootJob(a).entry = Root(a) /\ Root(a).of = a
  BY DEF RootJob, ArtifactJob, Root, Entry
<1> QED BY <1>2, <1>3

LEMMA OpenedAreApart ==
  ASSUME NEW a, Apart(a), Extraction(a), NEW b, NEW d, Opened(b, d)
  PROVE  /\ Made(b, LayersIn(a)) /\ NamesDiffer(b) /\ Mounts(b) \subseteq Below(a)
         /\ Among(a, b, d)
BY AmongIs DEF Extraction, SeenIsOpened

(* Known jobs in open directories, in the place of one.                    *)
LEMMA JobsStayKnown ==
  ASSUME NEW a, Extraction(a), NEW new, Instead(new),
         \A i \in DOMAIN new : Known(a, new[i]),
         \A i \in DOMAIN new : \A d : new[i].do # "artifact" /\ new[i].dir = d => IsDir(d)',
         \A d : IsDir(d) => IsDir(d)'
  PROVE  IsSeq(jobs)' /\ AllKnown(a)' /\ AllHome'
<1>1. IsSeq(jobs)
  BY DEF Extraction, Ordered
<1>2. /\ IsSeq(jobs)'
      /\ \A i \in DOMAIN jobs' : \/ \E k \in DOMAIN new : jobs'[i] = new[k]
                                 \/ \E k \in DOMAIN jobs : jobs'[i] = jobs[k]
  BY <1>1, JobsComeFrom
<1>3. AllKnown(a)'
  BY <1>2 DEF Extraction, AllKnown
<1>4. ASSUME NEW i \in DOMAIN jobs', NEW d, jobs'[i].do # "artifact", jobs'[i].dir = d
      PROVE  IsDir(d)'
  BY <1>2, <1>4 DEF Extraction, AllHome, Home
<1>5. AllHome'
  BY <1>4 DEF AllHome, Home
<1> QED BY <1>2, <1>3, <1>5

LEMMA SameDirs ==
  ASSUME UNCHANGED seen
  PROVE  /\ \A b, d : Opened(b, d)' <=> Opened(b, d)
         /\ \A d : IsDir(d)' <=> IsDir(d)
BY DEF Opened, IsDir

(* Steps that open nothing.                                                *)
LEMMA NothingOpened ==
  ASSUME NEW a, Extraction(a), UNCHANGED seen, Ordered(a)', AllKnown(a)', AllHome',
         DiskIsHome', DiskIsPlaces',
         \A b, d : Opened(b, d) => Underway(b, d)'
  PROVE  Extraction(a)'
<1>1. SeenIsOpened(a)'
  BY SameDirs DEF Extraction, SeenIsOpened
<1>2. AllUnderway'
  BY SameDirs DEF AllUnderway
<1> QED BY <1>1, <1>2 DEF Extraction

LEMMA JobReplaced ==
  ASSUME NEW a, Extraction(a), UNCHANGED <<status, disk, seen>>, a \in DOMAIN seen,
         NEW new, Instead(new),
         \A i \in DOMAIN new : Known(a, new[i]) /\ Home(new[i]),
         \A b, d : Opened(b, d) =>
           /\ Replaces(b, d, new)
           /\ \A l \in All(b) : For(d, Head(jobs), l) => \E i \in DOMAIN new : For(d, new[i], l)
  PROVE  Extraction(a)'
<1>1. jobs # << >>
  BY DEF Instead
<1>2. status = "running" /\ IsSeq(jobs)
  BY <1>1, HeadIs
<1>3. IsSeq(jobs)' /\ AllKnown(a)' /\ AllHome'
  <2>1. \A i \in DOMAIN new : \A d : new[i].do # "artifact" /\ new[i].dir = d => IsDir(d)'
    BY SameDirs DEF Home
  <2> QED BY <2>1, SameDirs, JobsStayKnown
<1>4. DiskIsHome' /\ DiskIsPlaces'
  BY SameDirs, PlacesStay DEF Extraction, DiskIsHome
<1>5. Ordered(a)'
  BY <1>2, <1>3 DEF Ordered
<1>6. ASSUME NEW b, NEW d, Opened(b, d) PROVE Underway(b, d)'
  BY <1>1, <1>2, <1>6, HeadIs, MovesOn
<1> QED BY <1>3, <1>4, <1>5, <1>6, NothingOpened

LEMMA TakeMemberSteps ==
  ASSUME NEW a, Apart(a), Extraction(a), TakeMember
  PROVE  Extraction(a)'
<1>1. PICK job, new : job = Head(jobs) /\ new = Member(job.entry, job.dir)
  OBVIOUS
<1>2. /\ jobs # << >> /\ job.do = "member" /\ UNCHANGED <<status, disk, seen>>
      /\ jobs' = new \o Tail(jobs)
  BY <1>1 DEF TakeMember, Doing
<1>3. /\ status = "running" /\ Known(a, job) /\ IsDir(job.dir)
      /\ \A b, d : Opened(b, d) => Belongs(b, d, job)
  BY <1>1, <1>2, HeadIs DEF Home
<1>4. a \in DOMAIN seen
  BY <1>1, <1>2, <1>3, RootIsFirst
<1>5. ASSUME NEW b, NEW d, Opened(b, d)
      PROVE  Fits(a, b, d, new, job.dir, LayersFrom(job.entry))
  BY <1>1, <1>2, <1>3, <1>5, MemberFits, OpenedAreApart
<1>6. Instead(new) /\ \A i \in DOMAIN new : Known(a, new[i]) /\ Home(new[i])
  BY <1>2, <1>3, <1>5 DEF Fits, Instead, IsDir, Home
<1>7. ASSUME NEW b, NEW d, Opened(b, d) PROVE Replaces(b, d, new)
  <2>1. ~Ours(d, job) => job.dir # d
    BY <1>2 DEF Ours
  <2> QED BY <1>1, <1>5, <1>6, <1>7, <2>1 DEF Fits, Replaces
<1>8. ASSUME NEW b, NEW d, Opened(b, d), NEW l \in All(b), For(d, job, l)
      PROVE  \E i \in DOMAIN new : For(d, new[i], l)
  <2>1. job.dir = d /\ l \in LayersFrom(job.entry)
    BY <1>2, <1>8 DEF For, Ours, LayersFrom
  <2> QED BY <1>5, <1>8, <2>1 DEF Fits
<1> QED BY <1>1, <1>2, <1>3, <1>4, <1>6, <1>7, <1>8, JobReplaced

(* An artifact that was met before, and one that is new.                   *)
LEMMA OpenAgainSteps ==
  ASSUME NEW a, Extraction(a), OpenArtifact, Head(jobs).entry.of \in DOMAIN seen
  PROVE  Extraction(a)'
<1>1. PICK job : job = Head(jobs)
  OBVIOUS
<1>2. /\ jobs # << >> /\ job.do = "artifact" /\ UNCHANGED <<status, disk, seen>>
      /\ jobs' = Tail(jobs)
  BY <1>1 DEF OpenArtifact, Doing
<1>3. status = "running" /\ IsSeq(jobs)
  BY <1>2, HeadIs
<1>4. a \in DOMAIN seen
  BY <1>1, <1>3, RootIsFirst
<1>5. \A b, d : Replaces(b, d, << >>)
  BY <1>2, <1>3, NothingInstead
<1>6. DOMAIN << >> = {} /\ Instead(<< >>)
  BY <1>5 DEF Replaces
<1>7. \A d, l : ~For(d, job, l)
  BY <1>2 DEF For, Ours
<1> QED BY <1>1, <1>2, <1>4, <1>5, <1>6, <1>7, JobReplaced

LEMMA OpenSteps ==
  ASSUME NEW a, Apart(a), Extraction(a), OpenArtifact, Head(jobs).entry.of \notin DOMAIN seen
  PROVE  Extraction(a)'
<1>1. PICK job, c, dir : job = Head(jobs) /\ c = job.entry.of /\ dir = DirOf(job.entry, job.fallback)
  OBVIOUS
<1>2. PICK new : new = Parts(c, dir) \o << WritePack(c, dir) >>
  OBVIOUS
<1>3. /\ jobs # << >> /\ job.do = "artifact" /\ UNCHANGED <<status, disk>>
      /\ seen' = With(seen, c, dir)
  BY <1>1 DEF OpenArtifact, Doing
<1>4. jobs' = new \o Tail(jobs)
  <2>1. jobs' = Parts(c, dir) \o << WritePack(c, dir) >> \o Tail(jobs)
    BY <1>1 DEF OpenArtifact
  <2> QED BY <1>2, <2>1
<1>5. IsSeq(jobs) /\ status = "running" /\ Known(a, job)
  BY <1>1, <1>3, HeadIs
<1>6. Among(a, c, dir)
  BY <1>1, <1>3, <1>5 DEF Known
<1>7. Made(c, LayersIn(a)) /\ NamesDiffer(c) /\ Mounts(c) \subseteq Below(a)
  BY <1>6, AmongIs
<1>8. ASSUME NEW b, Opened(b, dir) PROVE FALSE
  <2>1. b # c
    BY <1>1, <1>8 DEF Opened
  <2>2. Among(a, b, dir)
    BY <1>8, OpenedAreApart
  <2> QED BY <1>6, <2>1, <2>2 DEF Apart
<1>9. \A b, d : Opened(b, d)' <=> Opened(b, d) \/ (b = c /\ d = dir)
  <2>1. \A b : b \in DOMAIN seen' <=> b \in DOMAIN seen \/ b = c
    BY <1>3, WithHas
  <2>2. seen'[c] = dir /\ \A b \in DOMAIN seen : b # c => seen'[b] = seen[b]
    BY <1>3, WithHas
  <2>3. c \notin DOMAIN seen
    BY <1>1
  <2> QED BY <2>1, <2>2, <2>3 DEF Opened
<1>10. (\A d : IsDir(d) => IsDir(d)') /\ IsDir(dir)'
  BY <1>9 DEF IsDir
<1>11. Closed(a, c, dir, new, dir, All(c))
  BY <1>2, <1>7, PartsFit, PackedParts DEF All
<1>12. Instead(new)
  BY <1>3, <1>4, <1>11 DEF Closed, Instead
<1>13. IsSeq(jobs)' /\ AllKnown(a)' /\ AllHome'
  BY <1>10, <1>11, <1>12, JobsStayKnown DEF Closed
<1>14. Underway(c, dir)'
  <2>1. ~IsDir(dir)
    BY <1>8 DEF IsDir
  <2>2. \A i \in DOMAIN jobs : ~Ours(dir, jobs[i])
    BY <2>1 DEF Extraction, AllHome, Home, Ours
  <2>3. \A path : <<dir, path>> \notin DOMAIN disk
    BY <2>1 DEF Extraction, DiskIsHome
  <2> QED BY <1>3, <1>5, <1>11, <1>12, <2>2, <2>3, OpenedIsUnderway
<1>15. ASSUME NEW b, NEW d, Opened(b, d) PROVE Underway(b, d)'
  <2>1. d # dir /\ NamesDiffer(b)
    BY <1>8, <1>15, OpenedAreApart
  <2>2. Closed(a, b, d, new, dir, All(c))
    BY <1>2, <1>7, <2>1, PartsFit, PackedParts DEF All
  <2>3. Replaces(b, d, new)
    BY <1>12, <2>1, <2>2 DEF Closed, Replaces, IsPack
  <2>4. \A l : ~For(d, Head(jobs), l)
    BY <1>1, <1>3 DEF For, Ours
  <2> QED BY <1>3, <1>5, <1>15, <2>3, <2>4, HeadIs, MovesOn
<1>16. AllUnderway'
  BY <1>9, <1>14, <1>15 DEF AllUnderway
<1>17. SeenIsOpened(a)'
  BY <1>6, <1>9 DEF Extraction, SeenIsOpened
<1>18. DiskIsHome' /\ DiskIsPlaces'
  BY <1>3, <1>10, PlacesStay DEF Extraction, DiskIsHome
<1>19. a \in DOMAIN seen'
  <2>1. a \in DOMAIN seen \/ a = c
    BY <1>1, <1>5, RootIsFirst
  <2> QED BY <1>3, <2>1, WithHas
<1>20. Ordered(a)'
  BY <1>3, <1>5, <1>13, <1>19 DEF Ordered
<1> QED BY <1>13, <1>16, <1>17, <1>18, <1>20 DEF Extraction

LEMMA DiskStaysHome ==
  ASSUME DiskIsHome, UNCHANGED seen, IsDir(Head(jobs).dir), NEW v, Written(v)
  PROVE  DiskIsHome'
<1> SUFFICES ASSUME NEW d, NEW path, <<d, path>> \in DOMAIN disk' PROVE IsDir(d)
  BY SameDirs DEF DiskIsHome
<1>1. CASE Here(d, path)
  BY <1>1 DEF Here
<1>2. CASE ~Here(d, path)
  <2>1. Same(d, path)
    BY <1>2, FileIsWritten
  <2> QED BY <2>1 DEF Same, DiskIsHome
<1> QED BY <1>1, <1>2

LEMMA WriteBlobSteps ==
  ASSUME NEW a, Apart(a), Extraction(a), WriteBlob
  PROVE  Extraction(a)'
<1>1. PICK v : v = Head(jobs).of
  OBVIOUS
<1>2. /\ jobs # << >> /\ Head(jobs).do = "write" /\ Written(v) /\ jobs' = Tail(jobs)
      /\ UNCHANGED <<status, seen>>
  BY <1>1 DEF WriteBlob, Doing, Written
<1>3. status = "running" /\ IsSeq(jobs) /\ IsDir(Head(jobs).dir)
  BY <1>2, HeadIs DEF Home
<1>4. Instead(<< >>)
  BY <1>2, <1>3, NothingInstead DEF Replaces
<1>5. IsSeq(jobs)' /\ AllKnown(a)' /\ AllHome'
  <2>1. DOMAIN << >> = {}
    OBVIOUS
  <2> QED BY <1>2, <1>4, <2>1, SameDirs, JobsStayKnown
<1>6. DiskIsHome' /\ DiskIsPlaces'
  BY <1>2, <1>3, DiskStaysHome, PlacesStay DEF Extraction
<1>7. a \in DOMAIN seen
  BY <1>2, <1>3, RootIsFirst
<1>8. Ordered(a)'
  BY <1>2, <1>3, <1>5, <1>7 DEF Ordered
<1>9. ASSUME NEW b, NEW d, Opened(b, d) PROVE Underway(b, d)'
  BY <1>2, <1>3, <1>9, HeadIs, OpenedAreApart, WritingIsRight
<1> QED BY <1>2, <1>5, <1>6, <1>8, <1>9, NothingOpened

LEMMA EndSteps ==
  ASSUME NEW a, Extraction(a), GiveUp \/ Finish
  PROVE  Extraction(a)'
<1>1. /\ status = "running" /\ jobs' = << >> /\ UNCHANGED seen
      /\ (status' = "failed") \/ (status' = "done" /\ jobs = << >>)
  BY DEF GiveUp, Finish
<1>2. IsSeq(jobs)
  BY DEF Extraction, Ordered
<1>3. IsSeq(jobs') /\ DOMAIN jobs' = {}
  BY <1>1 DEF IsSeq
<1>4. AllKnown(a)' /\ AllHome'
  BY <1>3 DEF AllKnown, AllHome
<1>5. DiskIsHome'
  <2>1. CASE UNCHANGED disk
    BY <1>1, <2>1, SameDirs DEF Extraction, DiskIsHome
  <2>2. CASE ~UNCHANGED disk
    <3>1. Doing("write") /\ Written(Partial)
      BY <2>2 DEF GiveUp, Finish, Written
    <3>2. IsDir(Head(jobs).dir)
      BY <3>1, HeadIs DEF Doing, Home
    <3> QED BY <1>1, <3>1, <3>2, DiskStaysHome DEF Extraction
  <2> QED BY <2>1, <2>2
<1>9. DiskIsPlaces'
  BY PlacesStay DEF Extraction, GiveUp, Finish, Written
<1>6. status' = "done" => a \in DOMAIN seen
  BY <1>1, RootIsFirst
<1>7. Ordered(a)'
  BY <1>1, <1>3, <1>6 DEF Ordered, IsSeq
<1>8. ASSUME NEW b, NEW d, Opened(b, d) PROVE Underway(b, d)'
  <2>1. Underway(b, d)
    BY <1>8 DEF Extraction, AllUnderway
  <2> QED BY <1>2, <2>1, GivingUpIsRight, FinishIsRight
<1> QED BY <1>1, <1>4, <1>5, <1>7, <1>8, <1>9, NothingOpened

LEMMA BeginSteps ==
  ASSUME NEW a, Extraction(a), Begin(a)
  PROVE  Extraction(a)'
<1>1. /\ status = "idle" /\ status' = "running" /\ jobs' = << RootJob(a) >>
      /\ UNCHANGED <<disk, seen>>
  BY DEF Begin
<1>2. DOMAIN seen = {}
  BY <1>1 DEF Extraction, Ordered
<1>3. \A b, d : ~Opened(b, d)
  BY <1>2 DEF Opened
<1>4. DOMAIN jobs' = {1} /\ jobs'[1] = RootJob(a) /\ IsSeq(jobs')
  BY <1>1, OneOf
<1>5. PICK job : job = RootJob(a)
  OBVIOUS
<1>6. job.do = "artifact" /\ job.entry = Root(a) /\ job.fallback = <<"repo">> /\ Root(a).of = a
  BY <1>5 DEF RootJob, ArtifactJob, Root, Entry
<1>7. Among(a, job.entry.of, DirOf(job.entry, job.fallback))
  BY <1>6 DEF Among, OpenedAt, RootDir
<1>8. Known(a, job)
  BY <1>6, <1>7 DEF Known
<1>9. AllKnown(a)' /\ AllHome'
  BY <1>4, <1>5, <1>6, <1>8 DEF AllKnown, AllHome, Home
<1>10. DiskIsHome' /\ DiskIsPlaces'
  BY <1>1, SameDirs, PlacesStay DEF Extraction, DiskIsHome
<1>11. Ordered(a)'
  BY <1>1, <1>4 DEF Ordered, IsSeq
<1> QED BY <1>1, <1>3, <1>9, <1>10, <1>11, NothingOpened

LEMMA ExtractionRests ==
  ASSUME NEW a, Extraction(a), UNCHANGED extractVars
  PROVE  Extraction(a)'
<1>1. UNCHANGED <<status, disk, seen, jobs>>
  BY DEF extractVars
<1>2. Ordered(a)' /\ AllKnown(a)' /\ AllHome' /\ DiskIsHome' /\ DiskIsPlaces'
  BY <1>1, SameDirs, PlacesStay
     DEF Extraction, Ordered, IsSeq, AllKnown, AllHome, Home, DiskIsHome
<1>3. \A b, d : Opened(b, d) => Underway(b, d)'
  BY <1>1 DEF Extraction, AllUnderway, Underway, AllBelong, PackIsLast, PackMeansAll,
              NothingElse, IsStored, HasFile, Waits
<1> QED BY <1>1, <1>2, <1>3, NothingOpened

LEMMA ExtractionSteps ==
  ASSUME NEW a, Apart(a), Extraction(a), Begin(a) \/ ExtractStep
  PROVE  Extraction(a)'
BY BeginSteps, OpenAgainSteps, OpenSteps, TakeMemberSteps, WriteBlobSteps, EndSteps
   DEF ExtractStep

LEMMA ExtractionsHold ==
  (\A a \in Artifacts : Apart(a)) => (ReadersSpec => []Extractions)
<1> SUFFICES ASSUME \A a \in Artifacts : Apart(a) PROVE ReadersSpec => []Extractions
  OBVIOUS
<1>1. ReadersInit => Extractions
  <2>0. ASSUME ReadersInit PROVE DOMAIN seen = {}
    BY <2>0 DEF ReadersInit, ExtractInit
  <2> SUFFICES ASSUME ReadersInit, NEW a PROVE Extraction(a)
    BY <2>0 DEF ReadersInit, Extractions
  <2>1. status = "idle" /\ disk = << >> /\ seen = << >> /\ jobs = << >>
    BY DEF ReadersInit, ExtractInit
  <2>2. DOMAIN << >> = {} /\ IsSeq(<< >>)
    BY DEF IsSeq
  <2>3. \A b, d : ~Opened(b, d)
    BY <2>1, <2>2 DEF Opened
  <2>4. Ordered(a) /\ SeenIsOpened(a) /\ AllUnderway
    BY <2>1, <2>2, <2>3 DEF Ordered, SeenIsOpened, AllUnderway
  <2>5. AllKnown(a) /\ AllHome /\ DiskIsHome /\ DiskIsPlaces
    BY <2>1, <2>2 DEF AllKnown, AllHome, DiskIsHome, DiskIsPlaces
  <2> QED BY <2>4, <2>5 DEF Extraction
<1>2. Extractions /\ [ReadersNext]_readerVars => Extractions'
  <2> SUFFICES ASSUME Extractions, [ReadersNext]_readerVars, command.name = "extract"
               PROVE  command' = command /\ Extraction(command.of)'
    <3>1. ASSUME Extractions, [ReadersNext]_readerVars PROVE command' = command
      BY <3>1 DEF ReadersNext, readerVars, RunExtract, RunReference, RunRead, RunProxy
    <3>2. ASSUME Extractions, [ReadersNext]_readerVars, command.name # "extract"
          PROVE  DOMAIN seen' = {}
      <4>1. UNCHANGED seen
        BY <3>2 DEF ReadersNext, readerVars, RunExtract, RunReference, RunProxy, extractVars
      <4> QED BY <3>2, <4>1 DEF Extractions
    <3> QED BY <3>1, <3>2 DEF Extractions
  <2>1. command' = command
    BY DEF ReadersNext, readerVars, RunExtract, RunReference, RunRead, RunProxy
  <2>2. PICK a : a = command.of
    OBVIOUS
  <2>3. Extraction(a)
    BY <2>2 DEF Extractions
  <2>4. a \in Artifacts
    BY <2>2 DEF Extractions, Commands, ReadCommands, Command
  <2>5. ASSUME RunExtract PROVE Extraction(a)'
    BY <2>2, <2>3, <2>4, <2>5, ExtractionSteps DEF RunExtract
  <2>6. ASSUME UNCHANGED extractVars PROVE Extraction(a)'
    BY <2>3, <2>6, ExtractionRests
  <2>7. Extraction(a)'
    BY <2>5, <2>6 DEF ReadersNext, RunReference, RunProxy, readerVars
  <2> QED BY <2>1, <2>2, <2>7
<1> QED BY <1>1, <1>2, PTL DEF ReadersSpec

(* "Every packed file at its title (under the directory a dir:// item      *)
(* named)" (README.md:577-579): wherever the command breaks off, what List *)
(* says an artifact packs is in its directory once the pack file is, for   *)
(* the artifact asked for and for all that is mounted below it, as long as *)
(* the own files of each differ in their paths and no two of them are      *)
(* given one directory.                                                    *)
THEOREM FilesInPlaceHolds ==
  (\A a \in Artifacts : Apart(a)) => (ReadersSpec => []FilesInPlace)
<1> SUFFICES ASSUME \A a \in Artifacts : Apart(a) PROVE ReadersSpec => []FilesInPlace
  OBVIOUS
<1>1. Extractions => FilesInPlace
  <2> SUFFICES ASSUME Extractions, command.name = "extract"
               PROVE  /\ status = "done" => command.of \in DOMAIN seen
                      /\ \A b \in DOMAIN seen : status = "done" \/ PackedUp(seen[b]) => InPlace(b)
    BY DEF FilesInPlace
  <2>1. PICK a : a = command.of
    OBVIOUS
  <2>2. Extraction(a) /\ Apart(a)
    BY <2>1 DEF Extractions, Commands, ReadCommands, Command
  <2>3. status = "done" => a \in DOMAIN seen
    BY <2>2 DEF Extraction, Ordered
  <2>4. ASSUME NEW b \in DOMAIN seen, status = "done" \/ PackedUp(seen[b])
        PROVE  InPlace(b)
    <3>1. PICK d : d = seen[b]
      OBVIOUS
    <3>2. Opened(b, d)
      BY <2>4, <3>1 DEF Opened
    <3>3. Underway(b, d)
      BY <2>2, <3>2 DEF Extraction, AllUnderway
    <3>4. \A l \in Own(b) : IsStored(d, l)
      BY <2>4, <3>1, <3>3 DEF Underway, PackedUp, PackMeansAll, All, Contents
    <3>5. Elements(OwnLayers(b)) = Own(b)
      BY <2>2, <3>2, OpenedAreApart, OwnIsListed
    <3>6. ASSUME NEW i \in DOMAIN List(b)
          PROVE  HasFile(d, List(b)[i].path, List(b)[i].of)
      <4>1. i \in DOMAIN OwnLayers(b)
        BY <3>6 DEF List
      <4>2. PICK l : l = OwnLayers(b)[i]
        OBVIOUS
      <4>3. l \in Own(b)
        BY <3>5, <4>1, <4>2 DEF Elements
      <4>4. List(b)[i].path = LayerPath(l) /\ List(b)[i].of = l.of
        BY <4>1, <4>2 DEF List
      <4> QED BY <3>4, <4>3, <4>4 DEF IsStored
    <3> QED BY <3>1, <3>6 DEF InPlace, HasFile
  <2> QED BY <2>1, <2>3, <2>4
<1> QED BY <1>1, ExtractionsHold, PTL

(* Of artifacts that were packed, whatever lies in a directory that has    *)
(* its pack file is what RoundTrip asks for.                               *)
IsPacked(b)  == \E pack, tree : WellPacked(pack, tree) /\ b = Build(pack, tree)
AllPacked(a) == \A b, dir : Among(a, b, dir) => IsPacked(b)

LEMMA TreeIsThere ==
  ASSUME NEW b, NEW d, DiskIsPlaces, Underway(b, d), PackedUp(d)
  PROVE  TreeIs(b, Tree(d))
<1>1. PICK tree : tree = Tree(d)
  OBVIOUS
<1>2. DOMAIN tree = {k[2] : k \in {k \in DOMAIN disk : k[1] = d}}
  BY <1>1 DEF Tree
<1>3. ASSUME NEW p PROVE p \in DOMAIN tree <=> <<d, p>> \in DOMAIN disk
  <2>1. ASSUME p \in DOMAIN tree PROVE <<d, p>> \in DOMAIN disk
    <3>1. PICK k \in DOMAIN disk : k[1] = d /\ p = k[2]
      BY <1>2, <2>1
    <3>2. k = <<k[1], k[2]>>
      BY DEF DiskIsPlaces
    <3> QED BY <3>1, <3>2
  <2>2. ASSUME <<d, p>> \in DOMAIN disk PROVE p \in DOMAIN tree
    <3>1. PICK k : k = <<d, p>>
      OBVIOUS
    <3>2. k[1] = d /\ k[2] = p
      BY <3>1
    <3> QED BY <1>2, <2>2, <3>1, <3>2
  <2> QED BY <2>1, <2>2
<1>4. \A p \in DOMAIN tree : tree[p] = disk[<<d, p>>]
  BY <1>1, <1>2 DEF Tree
<1>5. \A l \in All(b) : IsStored(d, l)
  BY DEF Underway, PackMeansAll, PackedUp
<1>6. \A l \in All(b) : LayerPath(l) \in DOMAIN tree /\ tree[LayerPath(l)] = l.of
  BY <1>3, <1>4, <1>5 DEF IsStored, HasFile
<1>7. \A p \in DOMAIN tree : \E l \in All(b) : p = LayerPath(l)
  BY <1>3 DEF Underway, NothingElse
<1> QED BY <1>1, <1>6, <1>7 DEF TreeIs

(* "The directory that would rebuild it" (README.md:577): wherever the     *)
(* command breaks off, packing what is in a directory that has its pack    *)
(* file gives the artifact it is the directory of, the ones mounted below  *)
(* the first included, and when the command is done all of them have it.   *)
(* As FilesInPlaceHolds it is of artifacts that are apart, and then of     *)
(* such as were packed.                                                    *)
THEOREM RebuildsItselfHolds ==
  (\A a \in Artifacts : Apart(a) /\ AllPacked(a)) => (ReadersSpec => []RebuildsItself)
<1> SUFFICES ASSUME \A a \in Artifacts : Apart(a) /\ AllPacked(a)
             PROVE  ReadersSpec => []RebuildsItself
  OBVIOUS
<1>1. Extractions => RebuildsItself
  <2> SUFFICES ASSUME Extractions, NEW b \in DOMAIN seen
               PROVE  /\ status = "done" => PackedUp(seen[b])
                      /\ PackedUp(seen[b]) => Rebuilt(b)
    BY DEF RebuildsItself
  <2>1. command.name = "extract"
    BY DEF Extractions
  <2>2. PICK a, d : a = command.of /\ d = seen[b]
    OBVIOUS
  <2>3. Extraction(a) /\ Apart(a) /\ AllPacked(a)
    BY <2>1, <2>2 DEF Extractions, Commands, ReadCommands, Command
  <2>4. Opened(b, d)
    BY <2>2 DEF Opened
  <2>5. Underway(b, d) /\ NamesDiffer(b) /\ Among(a, b, d)
    BY <2>3, <2>4, OpenedAreApart DEF Extraction, AllUnderway
  <2>6. ASSUME status = "done" PROVE PackedUp(d)
    <3>1. IsStored(d, PackLayer(b)) /\ LayerPath(PackLayer(b)) = PackFile
          /\ PackLayer(b).of = ThePack(b)
      BY <2>5, <2>6, AllDiffer DEF Underway
    <3>2. HasFile(d, PackFile, ThePack(b))
      BY <3>1 DEF IsStored
    <3>3. ThePack(b) # Partial
      BY DEF ThePack, Partial
    <3> QED BY <3>2, <3>3 DEF HasFile, PackedUp
  <2>7. ASSUME PackedUp(d) PROVE Rebuilt(b)
    <3>1. TreeIs(b, Tree(d))
      BY <2>3, <2>5, <2>7, TreeIsThere DEF Extraction
    <3>2. PICK pack, tree : WellPacked(pack, tree) /\ b = Build(pack, tree)
      BY <2>3, <2>5 DEF AllPacked, IsPacked
    <3>3. PICK again : again = Tree(d)
      OBVIOUS
    <3>4. Build(again[PackFile][2], again) = b
      BY <3>1, <3>2, <3>3, RoundTrip
    <3> QED BY <2>2, <3>3, <3>4 DEF Rebuilt
  <2> QED BY <2>2, <2>6, <2>7
<1>2. \A a \in Artifacts : Apart(a)
  OBVIOUS
<1> QED BY <1>1, <1>2, ExtractionsHold, PTL
=============================================================================

----------------------------- MODULE MountProofs -----------------------------
(***************************************************************************)
(* Mounts under a target, proved for every image, every list of volatile   *)
(* paths and binds and any number of mount commands: nothing is mounted    *)
(* outside the target, the layers lie in their order, and umount takes     *)
(* away all there is without standing in its own way.                      *)
(*                                                                         *)
(* The last two rest on one fact: while a umount has met no failure and no *)
(* mount command, the mount points it has still to take down and the lines *)
(* of the mount table are in one-to-one correspondence, path by path.  So  *)
(* a deepest target carries no other mount; and with no targets left there *)
(* are no mounts left.                                                     *)
(***************************************************************************)
EXTENDS MountStack, Induction

-----------------------------------------------------------------------------
(* Sequences without some of their elements.                               *)

Keeps(keep, X, s, is) ==
  /\ keep \in [0 .. Len(s) -> Seq(X)] /\ keep[0] = << >>
  /\ \A n \in 1 .. Len(s) : keep[n] = IF n \in is THEN keep[n - 1] ELSE Append(keep[n - 1], s[n])

LEMMA WithoutKeeps ==
  ASSUME NEW X, NEW s \in Seq(X), NEW is
  PROVE  \E keep : Keeps(keep, X, s, is) /\ Without(s, is) = keep[Len(s)]
  <1> DEFINE L == Len(s)
             Texts == Seq(X)
             step == [n \in 1 .. L |-> [t \in Texts |-> IF n \in is THEN t ELSE Append(t, s[n])]]
             Body(k) == [n \in 0 .. L |-> IF n = 0 THEN << >>
                           ELSE IF n \in is THEN k[n - 1] ELSE Append(k[n - 1], s[n])]
             Keep == CHOOSE k : k = Body(k)
  <1>1. step \in [1 .. L -> [Texts -> Texts]] /\ << >> \in Texts /\ L \in Nat
    OBVIOUS
  <1>2. PICK f : Computes(f, L, Texts, << >>, step)
    <2> HIDE DEF step, Texts, L
    <2> QED BY <1>1, RecursionExists, Zenon
  <1>3. ASSUME NEW n \in 1 .. L
        PROVE  f[n] = IF n \in is THEN f[n - 1] ELSE Append(f[n - 1], s[n])
    <2>1. n - 1 \in 0 .. L /\ f[n - 1] \in Texts
      BY <1>2 DEF Computes
    <2> QED BY <1>2, <2>1 DEF Computes
  <1>4. \A n \in 0 .. L : n # 0 => n \in 1 .. L
    OBVIOUS
  <1>5. f = Body(f)
    <2> HIDE DEF L
    <2> QED BY <1>2, <1>3, <1>4 DEF Computes
  <1>6. Keep = Body(Keep)
    <2> HIDE DEF Body
    <2> QED BY <1>5, Zenon
  <1>7. Without(s, is) = Keep[L]
    BY DEF Without
  <1>8. Keep[0] = << >>
    <2>1. 0 \in 0 .. L
      BY <1>1
    <2> HIDE DEF Keep
    <2> QED BY <1>6, <2>1
  <1>9. ASSUME NEW n \in 1 .. L
        PROVE  Keep[n] = IF n \in is THEN Keep[n - 1] ELSE Append(Keep[n - 1], s[n])
    <2>1. n \in 0 .. L /\ n # 0
      OBVIOUS
    <2> HIDE DEF Keep
    <2> QED BY <1>6, <2>1
  <1>10. ASSUME NEW n \in 0 .. L PROVE Keep[n] \in Seq(X)
    <2> DEFINE S == {m \in 0 .. L : Keep[m] \in Seq(X)}
    <2> HIDE DEF Keep
    <2>1. 0 \in S
      <3>1. 0 \in 0 .. L
        BY <1>1
      <3>2. Keep[0] \in Seq(X)
        BY <1>8
      <3> QED BY <3>1, <3>2
    <2>2. ASSUME NEW m \in 1 .. L, m - 1 \in S PROVE m \in S
      <3>1. m \in 0 .. L /\ Keep[m - 1] \in Seq(X) /\ s[m] \in X
        BY <2>2
      <3>2. Append(Keep[m - 1], s[m]) \in Seq(X)
        BY <3>1
      <3>3. Keep[m] \in Seq(X)
        BY <1>9, <3>1, <3>2
      <3> QED BY <3>1, <3>3
    <2>3. \A m \in 0 .. L : m \in S
      <3> HIDE DEF S, L
      <3> QED BY <1>1, <2>1, <2>2, CountingUp
    <2> QED BY <2>3
  <1>11. Keep = [n \in 0 .. L |-> Keep[n]]
    <2>1. DOMAIN Keep = 0 .. L
      BY <1>6
    <2> HIDE DEF Keep
    <2> QED BY <1>6
  <1> HIDE DEF Keep
  <1>12. Keep \in [0 .. L -> Seq(X)]
    BY <1>10, <1>11
  <1>13. Keeps(Keep, X, s, is)
    BY <1>8, <1>9, <1>12 DEF Keeps
  <1> QED BY <1>7, <1>13

(* It is a sequence of elements at the other positions.                    *)
LEMMA WithoutSeq ==
  ASSUME NEW X, NEW s \in Seq(X), NEW is
  PROVE  /\ Without(s, is) \in Seq(X)
         /\ \A i \in DOMAIN Without(s, is) : \E j \in DOMAIN s : j \notin is /\ Without(s, is)[i] = s[j]
  <1>1. PICK keep : Keeps(keep, X, s, is) /\ Without(s, is) = keep[Len(s)]
    BY WithoutKeeps
  <1> DEFINE L == Len(s)
             From(n) == \A i \in DOMAIN keep[n] : \E j \in DOMAIN s : j \notin is /\ keep[n][i] = s[j]
             S == {n \in 0 .. L : From(n)}
  <1>2. L \in Nat /\ DOMAIN s = 1 .. L
    OBVIOUS
  <1>3. 0 \in S
    BY <1>1 DEF Keeps
  <1>4. ASSUME NEW n \in 1 .. L, n - 1 \in S PROVE n \in S
    <2>1. n \in 0 .. L /\ keep[n - 1] \in Seq(X) /\ From(n - 1) /\ n \in DOMAIN s
      BY <1>1, <1>4 DEF Keeps
    <2>2. CASE n \in is
      <3>1. keep[n] = keep[n - 1]
        BY <1>1, <2>2 DEF Keeps
      <3> QED BY <2>1, <3>1
    <2>3. CASE n \notin is
      <3>1. keep[n] = Append(keep[n - 1], s[n])
        BY <1>1, <2>3 DEF Keeps
      <3>2. ASSUME NEW i \in DOMAIN keep[n]
            PROVE  \E j \in DOMAIN s : j \notin is /\ keep[n][i] = s[j]
        <4>1. CASE i \in DOMAIN keep[n - 1]
          <5>1. keep[n][i] = keep[n - 1][i]
            BY <2>1, <3>1, <4>1
          <5> QED BY <2>1, <4>1, <5>1
        <4>2. CASE i \notin DOMAIN keep[n - 1]
          <5>1. i = Len(keep[n - 1]) + 1 /\ keep[n][i] = s[n]
            BY <2>1, <3>1, <4>2
          <5> QED BY <2>1, <2>3, <5>1
        <4> QED BY <4>1, <4>2
      <3> QED BY <2>1, <3>2
    <2> QED BY <2>2, <2>3
  <1>5. \A n \in 0 .. L : n \in S
    <2> HIDE DEF S, L
    <2> QED BY <1>2, <1>3, <1>4, CountingUp
  <1>6. L \in 0 .. L
    BY <1>2
  <1> QED BY <1>1, <1>5, <1>6 DEF Keeps

(* Up to the first that is left out, nothing changes.                      *)
LEMMA KeptBefore ==
  ASSUME NEW X, NEW s \in Seq(X), NEW is, NEW keep, Keeps(keep, X, s, is),
         NEW m \in 0 .. Len(s), \A i \in 1 .. m : i \notin is
  PROVE  keep[m] = SubSeq(s, 1, m)
  <1> DEFINE S == {n \in 0 .. m : keep[n] = SubSeq(s, 1, n)}
  <1>1. m \in Nat /\ 0 .. m \subseteq 0 .. Len(s) /\ 1 .. m \subseteq 1 .. Len(s)
    OBVIOUS
  <1>2. 0 \in S
    BY DEF Keeps
  <1>3. ASSUME NEW n \in 1 .. m, n - 1 \in S PROVE n \in S
    <2>0. n \in 0 .. m /\ n \in 1 .. Len(s) /\ n \notin is
      BY <1>1
    <2>1. keep[n] = Append(keep[n - 1], s[n]) /\ n \in 0 .. m /\ n \in 1 .. Len(s)
      BY <2>0 DEF Keeps
    <2>2. SubSeq(s, 1, n) = Append(SubSeq(s, 1, n - 1), s[n])
      <3>1. Len(SubSeq(s, 1, n)) = n /\ Len(SubSeq(s, 1, n - 1)) = n - 1
        BY <2>1
      <3>2. \A i \in 1 .. n : SubSeq(s, 1, n)[i] = s[i]
        BY <2>1
      <3>3. \A i \in 1 .. n : Append(SubSeq(s, 1, n - 1), s[n])[i] = s[i]
        BY <2>1
      <3> QED BY <2>1, <3>1, <3>2, <3>3
    <2> QED BY <1>3, <2>1, <2>2
  <1>4. \A n \in 0 .. m : n \in S
    <2> HIDE DEF S
    <2> QED BY <1>1, <1>2, <1>3, CountingUp
  <1>5. m \in 0 .. m
    BY <1>1
  <1> QED BY <1>4, <1>5

LEMMA WithoutNothing ==
  ASSUME NEW X, NEW s \in Seq(X), NEW is, \A i \in DOMAIN s : i \notin is
  PROVE  Without(s, is) = s
  <1>1. PICK keep : Keeps(keep, X, s, is) /\ Without(s, is) = keep[Len(s)]
    BY WithoutKeeps
  <1>2. keep[Len(s)] = SubSeq(s, 1, Len(s))
    <2>1. Len(s) \in 0 .. Len(s) /\ \A i \in 1 .. Len(s) : i \notin is
      OBVIOUS
    <2> QED BY <1>1, <2>1, KeptBefore
  <1> QED BY <1>1, <1>2

(* One element less: those behind it move up.                              *)
LEMMA WithoutOne ==
  ASSUME NEW X, NEW s \in Seq(X), NEW k \in DOMAIN s
  PROVE  /\ Len(Without(s, {k})) = Len(s) - 1
         /\ Without(s, {k}) \in Seq(X)
         /\ \A i \in 1 .. Len(s) - 1 : Without(s, {k})[i] = s[IF i < k THEN i ELSE i + 1]
  <1>1. PICK keep : Keeps(keep, X, s, {k}) /\ Without(s, {k}) = keep[Len(s)]
    BY WithoutKeeps
  <1> DEFINE L == Len(s)
             Shift(n) == /\ Len(keep[n]) = n - 1
                         /\ \A i \in 1 .. n - 1 : keep[n][i] = s[IF i < k THEN i ELSE i + 1]
             S == {n \in 0 .. L : n >= k => Shift(n)}
  <1>2. L \in Nat /\ k \in 1 .. L
    OBVIOUS
  <1>3. 0 \in S
    BY <1>2
  <1>4. ASSUME NEW n \in 1 .. L, n - 1 \in S PROVE n \in S
    <2>1. n \in 0 .. L /\ n - 1 \in 0 .. L /\ keep[n - 1] \in Seq(X)
      BY <1>1 DEF Keeps
    <2>2. CASE n < k
      BY <2>1, <2>2
    <2>3. CASE n = k
      <3>1. \A i \in 1 .. n - 1 : i \notin {k}
        BY <2>3
      <3>2. keep[n - 1] = SubSeq(s, 1, n - 1)
        BY <1>1, <2>1, <3>1, KeptBefore
      <3>3. keep[n] = SubSeq(s, 1, n - 1)
        BY <1>1, <2>3, <3>2 DEF Keeps
      <3>4. Len(SubSeq(s, 1, n - 1)) = n - 1 /\ \A i \in 1 .. n - 1 : SubSeq(s, 1, n - 1)[i] = s[i]
        BY <2>1
      <3>5. Len(keep[n]) = n - 1
        BY <3>3, <3>4
      <3>6. ASSUME NEW i \in 1 .. n - 1 PROVE keep[n][i] = s[IF i < k THEN i ELSE i + 1]
        <4>1. i < k
          BY <2>1, <2>3
        <4> QED BY <3>3, <3>4, <4>1
      <3> QED BY <2>1, <3>5, <3>6
    <2>4. CASE n > k
      <3>1. Shift(n - 1)
        BY <1>4, <2>1, <2>4
      <3>2. keep[n] = Append(keep[n - 1], s[n])
        <4>1. n \in 1 .. Len(s) /\ n \notin {k}
          BY <1>2, <2>4
        <4> QED BY <1>1, <4>1 DEF Keeps
      <3>3. Len(keep[n]) = n - 1
        BY <2>1, <3>1, <3>2
      <3>4. ASSUME NEW i \in 1 .. n - 1 PROVE keep[n][i] = s[IF i < k THEN i ELSE i + 1]
        <4>1. CASE i = n - 1
          <5>1. keep[n][i] = s[n]
            BY <2>1, <3>1, <3>2, <4>1
          <5> QED BY <1>2, <2>1, <2>4, <4>1, <5>1
        <4>2. CASE i # n - 1
          <5>1. i \in 1 .. (n - 1) - 1
            BY <2>1, <4>2
          <5>2. keep[n][i] = keep[n - 1][i]
            BY <2>1, <3>1, <3>2, <5>1
          <5> QED BY <3>1, <5>1, <5>2
        <4> QED BY <4>1, <4>2
      <3> QED BY <2>1, <3>3, <3>4
    <2> QED BY <1>2, <2>2, <2>3, <2>4
  <1>5. \A n \in 0 .. L : n \in S
    <2> HIDE DEF S, L
    <2> QED BY <1>2, <1>3, <1>4, CountingUp
  <1>6. L \in 0 .. L /\ L >= k
    BY <1>2
  <1>7. Shift(L)
    BY <1>5, <1>6
  <1> QED BY <1>1, <1>6, <1>7 DEF Keeps

-----------------------------------------------------------------------------
(* Types.                                                                  *)

LEMMA RealIsPath ==
  ASSUME TypeOK, NEW p \in Path
  PROVE  Real(p) \in Path
  <1>1. CASE \E q \in DOMAIN image.links : Below(p, q) /\ IsLink(q)
    <2> DEFINE q == CHOOSE r \in DOMAIN image.links : Below(p, r) /\ IsLink(r)
    <2>1. q \in DOMAIN image.links /\ Real(p) = image.links[q] \o SubSeq(p, Len(q) + 1, Len(p))
      <3> HIDE DEF q
      <3>1. q \in DOMAIN image.links
        BY <1>1 DEF q
      <3> USE DEF q
      <3> QED BY <1>1, <3>1 DEF Real
    <2> HIDE DEF q
    <2>2. q \in Path /\ image.links[q] \in Path
      BY <2>1, MountAssumption DEF TypeOK, Path
    <2>3. SubSeq(p, Len(q) + 1, Len(p)) \in Path
      BY <2>2 DEF Path
    <2> QED BY <2>1, <2>2, <2>3 DEF Path
  <1>2. CASE ~\E q \in DOMAIN image.links : Below(p, q) /\ IsLink(q)
    BY <1>2 DEF Real
  <1> QED BY <1>1, <1>2

LEMMA LowersAre ==
  ASSUME TypeOK, Fits(LowersNow)
  PROVE  /\ Len(LayerDirs) \in Nat \ {0}
         /\ LowersNow \in Seq(Nat) /\ Len(LowersNow) > 1
         /\ OverlayOptions(LowersNow) \in Seq(Nat)
         /\ Len(OverlayOptions(LowersNow)) = Len(LowersNow)
         /\ \A i \in 1 .. Len(LowersNow) : OverlayOptions(LowersNow)[i] = LowersNow[Len(LowersNow) + 1 - i]
  <1>1. LayerDirs \in Seq(Nat) /\ Len(LayerDirs) = Len(image.layers) /\ \A i \in 1 .. Len(LayerDirs) : LayerDirs[i] = i
    <2>1. image.layers \in Seq(SUBSET STRING)
      BY MountAssumption DEF TypeOK
    <2>2. DOMAIN image.layers = 1 .. Len(image.layers) /\ Len(image.layers) \in Nat
      BY <2>1
    <2> QED BY <2>2 DEF LayerDirs
  <1>2. LowersNow \in Seq(Nat)
    BY <1>1 DEF LowersNow
  <1>3. Len(LowersNow) >= 1
    BY <1>2, MountAssumption DEF Fits
  <1>4. Len(LowersNow) > 1 /\ Len(LayerDirs) \in Nat \ {0}
    <2> DEFINE l == LayerDirs
    <2>1. l \in Seq(Nat)
      BY <1>1
    <2>2. LowersNow = IF Len(l) = 1 THEN <<0>> \o l ELSE l
      BY DEF LowersNow
    <2> HIDE DEF l
    <2>3. CASE Len(l) = 1
      <3>0. <<0>> \in Seq(Nat) /\ Len(<<0>>) = 1
        OBVIOUS
      <3>1. Len(<<0>> \o l) = Len(<<0>>) + Len(l)
        BY <2>1, <3>0
      <3> QED BY <2>2, <2>3, <3>0, <3>1 DEF l
    <2>4. CASE Len(l) # 1
      <3>1. LowersNow = l /\ Len(l) \in Nat
        BY <2>1, <2>2, <2>4
      <3>2. Len(l) > 1
        <4>1. PICK n \in Nat : n = Len(l)
          BY <3>1
        <4>2. n >= 1 /\ n # 1
          BY <1>3, <2>4, <3>1, <4>1
        <4> QED BY <4>1, <4>2
      <3>3. Len(LowersNow) > 1 /\ Len(l) \in Nat \ {0}
        BY <3>1, <3>2
      <3> QED BY <3>3 DEF l
    <2> QED BY <2>3, <2>4
  <1>5. /\ OverlayOptions(LowersNow) \in Seq(Nat)
        /\ Len(OverlayOptions(LowersNow)) = Len(LowersNow)
        /\ \A i \in 1 .. Len(LowersNow) : OverlayOptions(LowersNow)[i] = LowersNow[Len(LowersNow) + 1 - i]
    <2> DEFINE l == LowersNow
    <2>1. l \in Seq(Nat) /\ Len(l) \in Nat /\ DOMAIN l = 1 .. Len(l)
      BY <1>2
    <2> HIDE DEF l
    <2>2. \A i \in 1 .. Len(l) : Len(l) + 1 - i \in 1 .. Len(l)
      BY <2>1
    <2>3. /\ Reversed(l) \in Seq(Nat) /\ Len(Reversed(l)) = Len(l)
          /\ \A i \in 1 .. Len(l) : Reversed(l)[i] = l[Len(l) + 1 - i]
      BY <2>1, <2>2 DEF Reversed
    <2> QED BY <2>3 DEF OverlayOptions, l
  <1> QED BY <1>2, <1>4, <1>5

LEMMA MountTypesStart == Init => TypeOK
<1> SUFFICES ASSUME Init PROVE TypeOK
  OBVIOUS
<1>1. table \in Seq(Entries) /\ todo \in Seq(Stacked) /\ targets \in Seq(Path)
  BY DEF Init
<1>2. \A i \in DOMAIN table : table[i].kind = "overlay" <=> table[i].lowers # << >>
  BY DEF Init
<1>3. mounts \in 0 .. MaxMounts /\ failed \in Nat
  BY MountAssumption DEF Init
<1>4. lazy \in BOOLEAN /\ raced \in BOOLEAN
  BY DEF Init
<1>5. image \in Images /\ mounter = "idle" /\ umounter = "idle" /\ todo = << >> /\ targets = << >>
  BY DEF Init
<1> QED BY <1>1, <1>2, <1>3, <1>4, <1>5 DEF TypeOK

LEMMA EntryIsTyped ==
  ASSUME NEW p \in Path
  PROVE  /\ \A k \in {"tmpfs", "bind"} : Entry(k, p, << >>) \in Stacked
         /\ \A l \in Seq(Nat) : Entry("overlay", p, l) \in Entries
BY DEF Entry, Stacked, Entries, Path

LEMMA StackedFields ==
  ASSUME NEW e \in Stacked
  PROVE  /\ e.kind \in {"tmpfs", "bind"} /\ e.at \in Path /\ e.lowers = << >>
         /\ \A p \in Path : LET new == [e EXCEPT !.at = p]
                            IN  new \in Entries /\ new.kind = e.kind /\ new.lowers = << >> /\ new.at = p
<1>1. e.kind \in {"tmpfs", "bind"} /\ e.at \in Path /\ e.lowers = << >>
  BY DEF Stacked, Path
<1>2. ASSUME NEW p \in Path
      PROVE  [e EXCEPT !.at = p] \in Entries
  <2>1. [e EXCEPT !.at = p] = [kind |-> e.kind, at |-> p, lowers |-> e.lowers]
    BY DEF Stacked
  <2>2. e.kind \in {"overlay", "tmpfs", "bind"} /\ e.lowers \in Seq(Nat)
    BY <1>1
  <2> QED BY <2>1, <2>2 DEF Entries, Path
<1>3. \A p : LET new == [e EXCEPT !.at = p] IN new.kind = e.kind /\ new.lowers = e.lowers /\ new.at = p
  BY DEF Stacked
<1> QED BY <1>1, <1>2, <1>3

(* Overlays have lower directories, the others have none.                  *)
LEMMA AppendKeeps ==
  ASSUME NEW t \in Seq(Entries), NEW new \in Entries,
         new.kind = "overlay" <=> new.lowers # << >>,
         \A i \in DOMAIN t : t[i].kind = "overlay" <=> t[i].lowers # << >>,
         NEW t2, t2 = Append(t, new)
  PROVE  /\ t2 \in Seq(Entries)
         /\ \A i \in DOMAIN t2 : t2[i].kind = "overlay" <=> t2[i].lowers # << >>
OBVIOUS

LEMMA EntryFields ==
  ASSUME NEW e \in Entries
  PROVE  e.at \in Path
BY DEF Entries, Path

(* Mount points, as paths.                                                 *)
LEMMA PointsArePaths ==
  ASSUME TypeOK
  PROVE  Points \in Seq(Path) /\ Len(Points) = Len(table) /\ MountedUnder \in Seq(Path)
  <1>1. Points \in Seq(Path) /\ Len(Points) = Len(table)
    <2>1. table \in Seq(Entries)
      BY DEF TypeOK
    <2>2. \A i \in 1 .. Len(table) : table[i].at \in Path
      BY <2>1, EntryFields
    <2> HIDE DEF Path
    <2> QED BY <2>1, <2>2 DEF Points
  <1> QED BY <1>1, WithoutSeq DEF MountedUnder

LEMMA StackIsTyped ==
  ASSUME TypeOK, NEW to, to = [i \in DOMAIN Volatile |-> Entry("tmpfs", Dst \o Volatile[i], << >>)],
         NEW is, NEW bo, bo = [i \in DOMAIN Binds |-> Entry("bind", Dst \o Binds[i], << >>)]
  PROVE  Without(to, is) \o bo \in Seq(Stacked)
  <1>1. Dst \in Path /\ Volatile \in Seq(Path) /\ Binds \in Seq(Path)
    BY MountAssumption
  <1>2. \A p \in Path : Dst \o p \in Path
    BY <1>1 DEF Path
  <1>3. \A k \in {"tmpfs", "bind"} : \A p \in Path : Entry(k, Dst \o p, << >>) \in Stacked
    BY <1>2, EntryIsTyped
  <1>4. to \in Seq(Stacked) /\ bo \in Seq(Stacked)
    BY <1>1, <1>3
  <1>5. Without(to, is) \in Seq(Stacked)
    BY <1>4, WithoutSeq
  <1> QED BY <1>4, <1>5

LEMMA MountTypesStay ==
  ASSUME TypeOK, [Next]_vars
  PROVE  TypeOK'
  <1> USE DEF mountVars, umountVars, GiveUp
  <1>1. CASE BeginMount
    BY <1>1, MountAssumption DEF TypeOK, BeginMount
  <1>2. CASE MountOverlay
    <2>1. Entry("overlay", Dst, OverlayOptions(LowersNow)) \in Entries /\ OverlayOptions(LowersNow) # << >>
      <3>1. OverlayOptions(LowersNow) \in Seq(Nat) /\ Len(OverlayOptions(LowersNow)) > 1
        BY <1>2, LowersAre DEF MountOverlay
      <3>2. Dst \in Path
        BY MountAssumption
      <3>3. OverlayOptions(LowersNow) # << >>
        BY <3>1
      <3> QED BY <3>1, <3>2, <3>3, EntryIsTyped
    <2>2. table' \in Seq(Entries)
      BY <1>2, <2>1 DEF TypeOK, MountOverlay
    <2>3. \A i \in DOMAIN table' : table'[i].kind = "overlay" <=> table'[i].lowers # << >>
      <3> DEFINE new == Entry("overlay", Dst, OverlayOptions(LowersNow))
      <3>1. new.kind = "overlay" /\ new.lowers # << >> /\ table' = Append(table, new)
        BY <1>2, <2>1 DEF MountOverlay, Entry
      <3> HIDE DEF new
      <3> QED BY <2>1, <3>1, AppendKeeps DEF TypeOK, new
    <2> QED BY <1>2, <2>2, <2>3 DEF TypeOK, MountOverlay
  <1>3. CASE OverlayFails
    BY <1>3 DEF TypeOK, OverlayFails
  <1>4. CASE ResolveTargets
    <2>1. todo' \in Seq(Stacked)
      BY <1>4, StackIsTyped DEF ResolveTargets
    <2> QED BY <1>4, <2>1 DEF TypeOK, ResolveTargets
  <1>5. CASE MountNext
    <2> DEFINE new == [Head(todo) EXCEPT !.at = Real(@)]
    <2>1. todo # << >> /\ todo \in Seq(Stacked)
      BY <1>5 DEF TypeOK, MountNext
    <2>2. Head(todo) \in Stacked
      BY <2>1
    <2>3. Real(Head(todo).at) \in Path
      BY <2>2, RealIsPath, StackedFields
    <2>4. new \in Entries /\ new.kind # "overlay" /\ new.lowers = << >>
      BY <2>2, <2>3, StackedFields
    <2>5. table' = Append(table, new) /\ todo' = Tail(todo)
      BY <1>5 DEF MountNext
    <2> HIDE DEF new
    <2>6. table' \in Seq(Entries)
      BY <2>4, <2>5 DEF TypeOK
    <2>7. \A i \in DOMAIN table' : table'[i].kind = "overlay" <=> table'[i].lowers # << >>
      BY <2>4, <2>5, AppendKeeps DEF TypeOK
    <2>8. todo' \in Seq(Stacked)
      BY <2>1, <2>5
    <2> QED BY <1>5, <2>6, <2>7, <2>8 DEF TypeOK, MountNext
  <1>6. CASE SkipTmpfs
    <2>1. todo' \in Seq(Stacked)
      BY <1>6 DEF TypeOK, SkipTmpfs
    <2> QED BY <1>6, <2>1 DEF TypeOK, SkipTmpfs
  <1>7. CASE StackFails \/ MountCompletes
    <2>1. todo' = << >> /\ mounter' = "idle"
      BY <1>7 DEF StackFails, MountCompletes
    <2>2. UNCHANGED <<image, table, mounts, umounter, targets, failed, lazy, raced>>
      BY <1>7 DEF StackFails, MountCompletes
    <2> QED BY <2>1, <2>2 DEF TypeOK
  <1>8. CASE BeginUmount
    BY <1>8, PointsArePaths DEF TypeOK, BeginUmount
  <1>9. CASE UnmountNext
    <2>1. PICK k \in DOMAIN targets : \E i \in At(targets[k]) :
             /\ table' = Without(table, Detached(i)) /\ targets' = Without(targets, {k})
      BY <1>9 DEF UnmountNext
    <2>2. PICK i : table' = Without(table, Detached(i)) /\ targets' = Without(targets, {k})
      BY <2>1
    <2>3. table' \in Seq(Entries) /\ \A n \in DOMAIN table' : \E m \in DOMAIN table : table'[n] = table[m]
      BY <2>2, WithoutSeq DEF TypeOK
    <2>4. targets' \in Seq(Path)
      BY <2>2, WithoutSeq DEF TypeOK
    <2>5. \A n \in DOMAIN table' : table'[n].kind = "overlay" <=> table'[n].lowers # << >>
      BY <2>3 DEF TypeOK
    <2> QED BY <1>9, <2>3, <2>4, <2>5 DEF TypeOK, UnmountNext
  <1>10. CASE UnmountFails
    <2>1. targets' \in Seq(Path)
      BY <1>10, WithoutSeq DEF UnmountFails, TypeOK
    <2> QED BY <1>10, <2>1 DEF TypeOK, UnmountFails
  <1>11. CASE UmountEnds
    BY <1>11 DEF TypeOK, UmountEnds
  <1>12. CASE Enter \/ Leave \/ UNCHANGED vars
    BY <1>12 DEF TypeOK, Enter, Leave, vars
  <1> QED BY <1>1, <1>2, <1>3, <1>4, <1>5, <1>6, <1>7, <1>8, <1>9, <1>10, <1>11, <1>12
          DEF Next, Mounting, Unmounting

-----------------------------------------------------------------------------
(* One line of the table and one target less.                              *)

(* f takes each line of t to a target in g with its path, and is one to    *)
(* one and onto.                                                           *)
Matches(f, t, g) ==
  /\ f \in [DOMAIN t -> DOMAIN g]
  /\ \A i \in DOMAIN t : g[f[i]] = t[i].at
  /\ \A i, j \in DOMAIN t : f[i] = f[j] => i = j
  /\ \A k \in DOMAIN g : \E i \in DOMAIN t : f[i] = k

(* Among targets with one path, it does not matter which is whose.         *)
LEMMA MatchSwapped ==
  ASSUME NEW t, NEW g, NEW f, Matches(f, t, g),
         NEW i \in DOMAIN t, NEW k \in DOMAIN g, g[k] = t[i].at
  PROVE  \E h : Matches(h, t, g) /\ h[i] = k
  <1> DEFINE h == [j \in DOMAIN t |-> IF j = i THEN k ELSE IF f[j] = k THEN f[i] ELSE f[j]]
  <1>1. h \in [DOMAIN t -> DOMAIN g] /\ h[i] = k
    BY DEF Matches
  <1>2. \A j \in DOMAIN t : g[h[j]] = t[j].at
    BY DEF Matches
  <1>3. \A j, m \in DOMAIN t : h[j] = h[m] => j = m
    BY DEF Matches
  <1>4. ASSUME NEW n \in DOMAIN g PROVE \E j \in DOMAIN t : h[j] = n
    <2>1. PICK j \in DOMAIN t : f[j] = n
      BY DEF Matches
    <2>2. CASE n = k
      BY <1>1, <2>2
    <2>3. CASE n # k /\ j # i
      <3>1. h[j] = n
        BY <2>1, <2>3
      <3> QED BY <3>1
    <2>4. CASE n # k /\ j = i
      <3>1. PICK m \in DOMAIN t : f[m] = k
        BY DEF Matches
      <3>2. m # i
        BY <2>1, <2>4, <3>1
      <3>3. h[m] = n
        BY <2>1, <2>4, <3>1, <3>2
      <3> QED BY <3>3
    <2> QED BY <2>2, <2>3, <2>4
  <1> HIDE DEF h
  <1> QED BY <1>1, <1>2, <1>3, <1>4 DEF Matches

Up(j, i)   == IF j < i THEN j ELSE j + 1
Down(m, k) == IF m < k THEN m ELSE m - 1

LEMMA UpDown ==
  ASSUME NEW L \in Nat, NEW i \in 1 .. L
  PROVE  /\ \A j \in 1 .. L - 1 : Up(j, i) \in 1 .. L /\ Up(j, i) # i /\ Down(Up(j, i), i) = j
         /\ \A m \in 1 .. L : m # i => Down(m, i) \in 1 .. L - 1 /\ Up(Down(m, i), i) = m
BY DEF Up, Down

LEMMA MatchedLess ==
  ASSUME NEW A, NEW B, NEW t \in Seq(A), NEW g \in Seq(B), NEW f, Matches(f, t, g),
         NEW i \in DOMAIN t, NEW k \in DOMAIN g, g[k] = t[i].at
  PROVE  \E h : Matches(h, Without(t, {i}), Without(g, {k}))
  <1> DEFINE t2 == Without(t, {i})
             g2 == Without(g, {k})
             T == Len(t)
             G == Len(g)
  <1>1. PICK h : Matches(h, t, g) /\ h[i] = k
    BY MatchSwapped
  <1>2. /\ T \in Nat /\ G \in Nat /\ DOMAIN t = 1 .. T /\ DOMAIN g = 1 .. G
        /\ i \in 1 .. T /\ k \in 1 .. G
    OBVIOUS
  <1>3. /\ DOMAIN t2 = 1 .. T - 1 /\ \A j \in 1 .. T - 1 : t2[j] = t[Up(j, i)]
        /\ DOMAIN g2 = 1 .. G - 1 /\ \A m \in 1 .. G - 1 : g2[m] = g[Up(m, k)]
    <2>1. t2 \in Seq(A) /\ Len(t2) = T - 1 /\ \A j \in 1 .. T - 1 : t2[j] = t[Up(j, i)]
      BY WithoutOne DEF Up
    <2>2. g2 \in Seq(B) /\ Len(g2) = G - 1 /\ \A m \in 1 .. G - 1 : g2[m] = g[Up(m, k)]
      BY WithoutOne DEF Up
    <2> HIDE DEF t2, g2, T, G
    <2>3. T - 1 \in Int /\ G - 1 \in Int
      BY <1>2
    <2> QED BY <2>1, <2>2, <2>3
  <1> HIDE DEF t2, g2, T, G
  <1> DEFINE e == [j \in 1 .. T - 1 |-> Down(h[Up(j, i)], k)]
  <1>4. ASSUME NEW j \in 1 .. T - 1
        PROVE  /\ h[Up(j, i)] \in 1 .. G /\ h[Up(j, i)] # k
               /\ e[j] \in 1 .. G - 1 /\ Up(e[j], k) = h[Up(j, i)]
    <2>1. Up(j, i) \in 1 .. T /\ Up(j, i) # i
      BY <1>2, UpDown
    <2>2. h[Up(j, i)] \in 1 .. G /\ h[Up(j, i)] # k
      BY <1>1, <1>2, <2>1 DEF Matches
    <2>3. e[j] = Down(h[Up(j, i)], k)
      OBVIOUS
    <2> HIDE DEF e
    <2>4. \A m \in 1 .. G : m # k => Down(m, k) \in 1 .. G - 1 /\ Up(Down(m, k), k) = m
      BY <1>2, UpDown
    <2> QED BY <2>2, <2>3, <2>4
  <1>5. e \in [DOMAIN t2 -> DOMAIN g2]
    BY <1>3, <1>4
  <1>6. ASSUME NEW j \in DOMAIN t2 PROVE g2[e[j]] = t2[j].at
    <2>1. Up(j, i) \in DOMAIN t
      BY <1>2, <1>3, UpDown
    <2>2. g[h[Up(j, i)]] = t[Up(j, i)].at
      BY <1>1, <2>1 DEF Matches
    <2> QED BY <1>3, <1>4, <2>2
  <1>7. ASSUME NEW j \in DOMAIN t2, NEW n \in DOMAIN t2, e[j] = e[n] PROVE j = n
    <2>1. h[Up(j, i)] = h[Up(n, i)] /\ Up(j, i) \in DOMAIN t /\ Up(n, i) \in DOMAIN t
      <3> HIDE DEF e
      <3> QED BY <1>2, <1>3, <1>4, <1>7, UpDown
    <2>2. Up(j, i) = Up(n, i)
      BY <1>1, <2>1 DEF Matches
    <2>3. Down(Up(j, i), i) = j /\ Down(Up(n, i), i) = n
      BY <1>2, <1>3, UpDown
    <2> QED BY <2>2, <2>3
  <1>8. ASSUME NEW m \in DOMAIN g2 PROVE \E j \in DOMAIN t2 : e[j] = m
    <2>1. Up(m, k) \in DOMAIN g /\ Up(m, k) # k /\ Down(Up(m, k), k) = m
      BY <1>2, <1>3, UpDown
    <2>2. PICK n \in DOMAIN t : h[n] = Up(m, k)
      BY <1>1, <2>1 DEF Matches
    <2>3. n # i
      BY <1>1, <2>1, <2>2
    <2>4. Down(n, i) \in 1 .. T - 1 /\ Up(Down(n, i), i) = n
      BY <1>2, <2>3, UpDown
    <2>5. e[Down(n, i)] = m
      BY <2>1, <2>2, <2>4
    <2> QED BY <1>3, <2>4, <2>5
  <1> HIDE DEF e
  <1>9. Matches(e, t2, g2)
    BY <1>5, <1>6, <1>7, <1>8 DEF Matches
  <1> QED BY <1>9 DEF t2, g2

-----------------------------------------------------------------------------
(* The invariant.                                                          *)

LayersInOrder ==
  \A i \in DOMAIN table : table[i].kind = "overlay" =>
    table[i].lowers = OverlayOptions(LowersNow) /\ Fits(LowersNow)

Matched == \E f : Matches(f, table, targets)
UmountIsAlone == umounter = "unmount" /\ ~raced /\ failed = 0 => mounter = "idle" /\ Matched

MountInvariant == TypeOK /\ StaysWithin /\ LayersInOrder /\ UmountIsAlone

(* What is mounted on a deepest target that is not hidden carries nothing: *)
(* what it carried would be a target as well, no deeper than itself, and   *)
(* so on its own path, and hide it.                                        *)
LEMMA DeepestIsBare ==
  ASSUME TypeOK, Matched, NEW k \in DOMAIN targets, Deepest(k), NEW i \in At(targets[k])
  PROVE  Carried(i) = {} /\ i \in DOMAIN table /\ Detached(i) = {i}
  <1>1. PICK f : Matches(f, table, targets)
    BY DEF Matched
  <1>2. /\ table \in Seq(Entries) /\ targets \in Seq(Path) /\ DOMAIN table = 1 .. Len(table)
        /\ DOMAIN targets = 1 .. Len(targets) /\ Len(table) \in Nat
    BY DEF TypeOK
  <1>3. i \in DOMAIN table /\ table[i].at = targets[k] /\ Visible(i)
    BY <1>2 DEF At
  <1>4. Carried(i) = {}
    <2> SUFFICES ASSUME NEW j \in i + 1 .. Len(table), Below(table[j].at, table[i].at) PROVE FALSE
      BY DEF Carried
    <2>1. j \in DOMAIN table
      BY <1>2, <1>3
    <2>2. f[j] \in DOMAIN targets /\ targets[f[j]] = table[j].at
      BY <1>1, <2>1 DEF Matches
    <2> DEFINE p == table[i].at
               q == table[j].at
    <2>3. p \in Path /\ q \in Path
      BY <1>2, <1>3, <2>1, EntryFields
    <2>4. Len(q) <= Len(p)
      BY <1>3, <2>2 DEF Deepest
    <2>5. Len(p) <= Len(q) /\ SubSeq(q, 1, Len(p)) = p
      BY DEF Below
    <2> HIDE DEF p, q
    <2>6. q = p
      <3>1. Len(q) = Len(p)
        BY <2>3, <2>4, <2>5 DEF Path
      <3> QED BY <2>3, <2>5, <3>1 DEF Path
    <2>7. Below(p, p)
      BY <2>5, <2>6 DEF Below
    <2>8. ~Below(table[i].at, table[j].at)
      BY <1>3 DEF Visible
    <2> QED BY <2>6, <2>7, <2>8 DEF p, q
  <1> QED BY <1>3, <1>4 DEF Detached

LEMMA StaysWithinStays ==
  ASSUME TypeOK, StaysWithin, [Next]_vars
  PROVE  StaysWithin'
  <1>1. ASSUME NEW e, table' = Append(table, e), Below(e.at, Dst) PROVE StaysWithin'
    BY <1>1 DEF TypeOK, StaysWithin
  <1>2. CASE MountOverlay
    <2>1. Below(Entry("overlay", Dst, OverlayOptions(LowersNow)).at, Dst)
      BY MountAssumption DEF Entry, Below, Path
    <2> QED BY <1>1, <1>2, <2>1 DEF MountOverlay
  <1>3. CASE MountNext
    <2>1. todo \in Seq(Stacked) /\ todo # << >> /\ Below(Real(Head(todo).at), Dst)
      BY <1>3 DEF MountNext, Within, TypeOK
    <2>2. Head(todo) \in Stacked
      BY <2>1
    <2>3. [Head(todo) EXCEPT !.at = Real(@)].at = Real(Head(todo).at)
      BY <2>2, StackedFields, RealIsPath
    <2> QED BY <1>1, <1>3, <2>1, <2>3 DEF MountNext
  <1>4. CASE UnmountNext
    <2>1. PICK is : table' = Without(table, is)
      BY <1>4 DEF UnmountNext
    <2>2. \A n \in DOMAIN table' : \E m \in DOMAIN table : table'[n] = table[m]
      BY <2>1, WithoutSeq DEF TypeOK
    <2> QED BY <2>2 DEF StaysWithin
  <1>5. CASE UNCHANGED table
    BY <1>5 DEF StaysWithin
  <1> QED
    BY <1>2, <1>3, <1>4, <1>5
       DEF Next, Mounting, Unmounting, BeginMount, OverlayFails, ResolveTargets, SkipTmpfs, StackFails,
           MountCompletes, BeginUmount, UnmountFails, UmountEnds, Enter, Leave, vars

LEMMA LayersInOrderStay ==
  ASSUME TypeOK, LayersInOrder, [Next]_vars
  PROVE  LayersInOrder'
  <1>1. image' = image
    BY DEF Next, Mounting, Unmounting, BeginMount, MountOverlay, OverlayFails, ResolveTargets, MountNext,
           SkipTmpfs, StackFails, MountCompletes, BeginUmount, UnmountNext, UnmountFails, UmountEnds,
           Enter, Leave, vars
  <1>2. LowersNow' = LowersNow
    BY <1>1 DEF LowersNow, LayerDirs
  <1> SUFFICES \A i \in DOMAIN table' : table'[i].kind = "overlay" =>
                 table'[i].lowers = OverlayOptions(LowersNow) /\ Fits(LowersNow)
    BY <1>2 DEF LayersInOrder, OverlayOptions, Reversed, Fits
  <1>3. CASE MountOverlay
    <2> DEFINE new == Entry("overlay", Dst, OverlayOptions(LowersNow))
    <2>1. table' = Append(table, new) /\ new.lowers = OverlayOptions(LowersNow) /\ Fits(LowersNow)
      BY <1>3 DEF MountOverlay, Entry
    <2> HIDE DEF new
    <2> QED BY <2>1 DEF TypeOK, LayersInOrder
  <1>4. CASE MountNext
    <2> DEFINE new == [Head(todo) EXCEPT !.at = Real(@)]
    <2>1. todo \in Seq(Stacked) /\ todo # << >>
      BY <1>4 DEF MountNext, TypeOK
    <2>2. Head(todo) \in Stacked
      BY <2>1
    <2>3. table' = Append(table, new) /\ new.kind # "overlay"
      BY <1>4, <2>2, StackedFields, RealIsPath DEF MountNext
    <2> HIDE DEF new
    <2> QED BY <2>3 DEF TypeOK, LayersInOrder
  <1>5. CASE UnmountNext
    <2>1. PICK is : table' = Without(table, is)
      BY <1>5 DEF UnmountNext
    <2>2. \A n \in DOMAIN table' : \E m \in DOMAIN table : table'[n] = table[m]
      BY <2>1, WithoutSeq DEF TypeOK
    <2> QED BY <2>2 DEF LayersInOrder
  <1>6. CASE UNCHANGED table
    BY <1>6 DEF LayersInOrder
  <1> QED
    BY <1>3, <1>4, <1>5, <1>6
       DEF Next, Mounting, Unmounting, BeginMount, OverlayFails, ResolveTargets, SkipTmpfs, StackFails,
           MountCompletes, BeginUmount, UnmountFails, UmountEnds, Enter, Leave, vars

LEMMA UmountIsAloneStays ==
  ASSUME MountInvariant, [Next]_vars
  PROVE  UmountIsAlone'
  <1> USE DEF MountInvariant, mountVars, umountVars
  <1>1. CASE BeginMount
    BY <1>1 DEF BeginMount, UmountIsAlone
  <1>2. CASE Mounting
    <2>1. mounter # "idle" /\ UNCHANGED <<umounter, raced, failed>>
      BY <1>2 DEF Mounting, MountOverlay, OverlayFails, ResolveTargets, MountNext, SkipTmpfs,
                  StackFails, MountCompletes
    <2> QED BY <2>1 DEF UmountIsAlone
  <1>3. CASE BeginUmount
    <2>1. raced' = (mounter # "idle") /\ targets' = MountedUnder /\ UNCHANGED <<table, mounter>>
      BY <1>3 DEF BeginUmount
    <2>2. Points \in Seq(Path) /\ DOMAIN Points = DOMAIN table
      BY PointsArePaths DEF Points
    <2>3. MountedUnder = Points
      <3>1. \A i \in DOMAIN Points : i \notin Elsewhere
        BY <2>2 DEF StaysWithin, Elsewhere
      <3> QED BY <2>2, <3>1, WithoutNothing DEF MountedUnder
    <2> DEFINE f == [i \in DOMAIN table |-> i]
    <2>4. Matches(f, table, Points)
      BY <2>2 DEF Matches, Points
    <2> HIDE DEF f
    <2>5. Matches(f, table', targets')
      BY <2>1, <2>3, <2>4
    <2>6. Matched'
      BY <2>5 DEF Matched
    <2> QED BY <2>1, <2>6 DEF UmountIsAlone
  <1>4. CASE UnmountNext
    <2> SUFFICES ASSUME ~raced, failed = 0 PROVE Matched' /\ mounter' = "idle"
      BY <1>4 DEF UnmountNext, UmountIsAlone
    <2>1. mounter = "idle" /\ mounter' = "idle" /\ Matched
      BY <1>4 DEF UnmountNext, UmountIsAlone
    <2>0. PICK k \in DOMAIN targets : \E i \in At(targets[k]) :
             Deepest(k) /\ table' = Without(table, Detached(i)) /\ targets' = Without(targets, {k})
      BY <1>4 DEF UnmountNext
    <2>2. PICK i \in At(targets[k]) :
             Deepest(k) /\ table' = Without(table, Detached(i)) /\ targets' = Without(targets, {k})
      BY <2>0
    <2>3. i \in DOMAIN table /\ Detached(i) = {i}
      BY <2>1, <2>2, DeepestIsBare
    <2>4. table[i].at = targets[k]
      BY DEF At
    <2>5. PICK f : Matches(f, table, targets)
      BY <2>1 DEF Matched
    <2>6. \E h : Matches(h, Without(table, {i}), Without(targets, {k}))
      BY <2>3, <2>4, <2>5, MatchedLess DEF TypeOK
    <2>7. Matched'
      BY <2>2, <2>3, <2>6 DEF Matched
    <2> QED BY <2>1, <2>7
  <1>5. CASE UnmountFails
    <2>1. failed' # 0
      BY <1>5 DEF UnmountFails, TypeOK
    <2> QED BY <2>1 DEF UmountIsAlone
  <1>6. CASE UmountEnds
    BY <1>6 DEF UmountEnds, UmountIsAlone
  <1>7. CASE Enter \/ Leave \/ UNCHANGED vars
    <2>1. UNCHANGED <<table, targets, mounter, umounter, raced, failed>>
      BY <1>7 DEF Enter, Leave, vars
    <2> QED BY <2>1 DEF UmountIsAlone, Matched
  <1> QED BY <1>1, <1>2, <1>3, <1>4, <1>5, <1>6, <1>7 DEF Next, Unmounting

LEMMA MountInvariantHolds == Spec => []MountInvariant
  <1>1. Init => MountInvariant
    BY MountTypesStart DEF Init, MountInvariant, StaysWithin, LayersInOrder, UmountIsAlone
  <1>2. MountInvariant /\ [Next]_vars => MountInvariant'
    BY MountTypesStay, StaysWithinStays, LayersInOrderStay, UmountIsAloneStays DEF MountInvariant
  <1> QED BY <1>1, <1>2, PTL DEF Spec

-----------------------------------------------------------------------------
(* The variables keep their types: whatever is in the table has a path,    *)
(* and the overlays, they alone, have lower directories.                   *)
THEOREM MountTypesHold == Spec => []TypeOK
<1>1. MountInvariant => TypeOK
  BY DEF MountInvariant
<1> QED BY <1>1, MountInvariantHolds, PTL

(* Nothing is mounted outside the target, wherever the image's symlinks    *)
(* lead (overlay.go:83-113), so umount finds all of it again.              *)
THEOREM StaysWithinHolds == Spec => []StaysWithin
<1>1. MountInvariant => StaysWithin
  BY DEF MountInvariant
<1> QED BY <1>1, MountInvariantHolds, PTL

(* A single layer lies on the empty directory.                             *)
LEMMA OneOnEmpty ==
  ASSUME NEW l \in Seq(Nat), Len(l) = 1, l[1] = 1
  PROVE  Len(<<0>> \o l) = 2 /\ (<<0>> \o l)[1] = 0 /\ (<<0>> \o l)[2] = 1
<1>1. <<0>> \in Seq(Nat) /\ Len(<<0>>) = 1 /\ <<0>>[1] = 0
  OBVIOUS
<1>2. Len(<<0>> \o l) = Len(<<0>>) + Len(l)
  BY <1>1
<1>3. \A i \in 1 .. 2 : (<<0>> \o l)[i] = IF i <= Len(<<0>>) THEN <<0>>[i] ELSE l[i - Len(<<0>>)]
  BY <1>1
<1> QED BY <1>1, <1>2, <1>3

(* Of the lower directories, in the order the kernel reads them, the first *)
(* that has a path is that of the topmost layer that has it.               *)
LEMMA TopIsFirst ==
  ASSUME TypeOK, Fits(LowersNow), NEW l, l = OverlayOptions(LowersNow),
         NEW n \in DOMAIN image.layers, NEW f \in image.layers[n]
  PROVE  /\ Has(l[Shown(l, f)], f)
         /\ \A m \in DOMAIN image.layers : Has(m, f) => m <= l[Shown(l, f)]
  <1> DEFINE N == Len(image.layers)
             L == Len(LowersNow)
             K == {k \in 1 .. L : Has(l[k], f)}
  <1>1. N \in Nat /\ DOMAIN image.layers = 1 .. N
    <2>1. image.layers \in Seq(SUBSET STRING)
      BY MountAssumption DEF TypeOK
    <2> QED BY <2>1
  <1>2. DOMAIN LayerDirs = 1 .. N /\ Len(LayerDirs) = N /\ LayerDirs \in Seq(Nat) /\ \A i \in 1 .. N : LayerDirs[i] = i
    BY <1>1 DEF LayerDirs
  <1>3. /\ LowersNow \in Seq(Nat) /\ l \in Seq(Nat) /\ Len(l) = L /\ L \in Nat /\ L > 1
        /\ \A i \in 1 .. L : l[i] = LowersNow[L + 1 - i]
    BY LowersAre
  <1> HIDE DEF N, L
  <1>4. \A i \in 1 .. L : L + 1 - i \in 1 .. L
    BY <1>3
  <1>5. \/ L = N /\ \A i \in 1 .. L : LowersNow[i] = i
        \/ N = 1 /\ L = 2 /\ LowersNow[1] = 0 /\ LowersNow[2] = 1
    <2>1. CASE N = 1
      <3>1. LowersNow = <<0>> \o LayerDirs /\ <<0>> \in Seq(Nat)
        BY <1>2, <2>1 DEF LowersNow
      <3>2. LayerDirs \in Seq(Nat) /\ Len(LayerDirs) = 1 /\ LayerDirs[1] = 1
        BY <1>2, <2>1
      <3>3. Len(LowersNow) = 2 /\ LowersNow[1] = 0 /\ LowersNow[2] = 1
        BY <3>1, <3>2, OneOnEmpty
      <3> QED BY <2>1, <3>3 DEF L
    <2>2. CASE N # 1
      <3>1. LowersNow = LayerDirs
        BY <1>2, <2>2 DEF LowersNow
      <3>2. L = N
        BY <1>2, <3>1 DEF L
      <3> QED BY <1>2, <3>1, <3>2
    <2> QED BY <2>1, <2>2
  (* The lower directories count down: the topmost layer is the first.     *)
  <1>6. \A i \in 1 .. L : l[i] = IF L = N THEN L + 1 - i ELSE L - i
    BY <1>1, <1>3, <1>4, <1>5
  <1>7. \A m \in 1 .. N : L + 1 - m \in 1 .. L /\ (L # N => m = 1 /\ L = 2 /\ L - m \in 1 .. L)
    BY <1>1, <1>3, <1>5
  <1>8. ASSUME NEW m \in 1 .. N PROVE \E k \in 1 .. L : l[k] = m
    <2>1. CASE L = N
      <3>1. l[L + 1 - m] = m
        BY <1>1, <1>3, <1>6, <1>7, <2>1
      <3> QED BY <1>7, <3>1
    <2>2. CASE L # N
      <3>1. l[L - m] = m
        <4>1. L - m \in 1 .. L /\ m \in Int /\ L \in Int
          <5>1. m = 1 /\ L = 2
            BY <1>7, <2>2
          <5> QED BY <5>1
        <4>2. l[L - m] = L - (L - m)
          BY <1>6, <2>2, <4>1
        <4> QED BY <4>1, <4>2
      <3> QED BY <1>7, <2>2, <3>1
    <2> QED BY <2>1, <2>2
  <1>9. \A i, j \in 1 .. L : i <= j => l[j] <= l[i]
    <2>1. CASE L = N
      <3>1. \A i \in 1 .. L : l[i] = L + 1 - i
        BY <1>6, <2>1
      <3> QED BY <1>3, <3>1
    <2>2. CASE L # N
      <3>1. \A i \in 1 .. L : l[i] = L - i
        BY <1>6, <2>2
      <3> QED BY <1>3, <3>1
    <2> QED BY <2>1, <2>2
  <1>10. K # {}
    <2>1. n \in 1 .. N /\ n # 0 /\ Has(n, f)
      BY <1>1 DEF Has
    <2>2. PICK k \in 1 .. L : l[k] = n
      BY <1>8, <2>1
    <2> QED BY <2>1, <2>2
  <1>11. PICK k \in K : \A j \in K : k <= j
    <2>1. K \in SUBSET Nat
      OBVIOUS
    <2> HIDE DEF K
    <2> QED BY <1>10, <2>1, LeastExists
  <1>12. k \in DOMAIN l /\ Has(l[k], f) /\ \A j \in 1 .. k - 1 : ~Has(l[j], f)
    <2>1. k \in 1 .. L /\ Has(l[k], f)
      OBVIOUS
    <2>2. ASSUME NEW j \in 1 .. k - 1, Has(l[j], f) PROVE FALSE
      <3>1. j \in 1 .. L /\ ~(k <= j)
        BY <1>3, <2>1
      <3> QED BY <1>11, <2>2, <3>1
    <2> QED BY <1>3, <2>1, <2>2
  <1> HIDE DEF K
  <1> DEFINE s == Shown(l, f)
  <1>13. s \in DOMAIN l /\ Has(l[s], f) /\ \A j \in 1 .. s - 1 : ~Has(l[j], f)
    BY <1>12 DEF Shown
  <1> HIDE DEF s
  <1>14. ASSUME NEW m \in 1 .. N, Has(m, f) PROVE m <= l[s]
    <2>1. PICK j \in 1 .. L : l[j] = m
      BY <1>8
    <2>2. s <= j
      <3>1. s \in 1 .. L
        BY <1>3, <1>13
      <3>2. ~(j < s)
        <4>1. j < s => j \in 1 .. s - 1
          BY <3>1
        <4> QED BY <1>13, <1>14, <2>1, <4>1
      <3> QED BY <1>3, <3>1, <3>2
    <2> QED BY <1>3, <1>9, <1>13, <2>1, <2>2
  <1> QED BY <1>1, <1>13, <1>14 DEF s

(* Every path of the image shows the layer closest to the top that has it  *)
(* (mount.go:39-58, overlay.go:62-81), and the empty directory under a     *)
(* single layer hides nothing.                                             *)
THEOREM TopLayerWinsHolds == Spec => []TopLayerWins
<1>1. MountInvariant => TopLayerWins
  <2> SUFFICES ASSUME MountInvariant, NEW i \in DOMAIN table, table[i].kind = "overlay",
                      NEW n \in DOMAIN image.layers, NEW f \in image.layers[n]
               PROVE  LET shown == table[i].lowers[Shown(table[i].lowers, f)]
                      IN  Has(shown, f) /\ \A m \in DOMAIN image.layers : Has(m, f) => m <= shown
    BY DEF TopLayerWins
  <2>1. TypeOK /\ Fits(LowersNow) /\ table[i].lowers = OverlayOptions(LowersNow)
    BY DEF MountInvariant, LayersInOrder
  <2> QED BY <2>1, TopIsFirst
<1> QED BY <1>1, MountInvariantHolds, PTL

(* A umount that says all mounts are removed (umount.go:65-68) has left    *)
(* nothing under the target, if no mount command was at work meanwhile.    *)
THEOREM RemovedMeansBareHolds == Spec => RemovedMeansBare
<1>1. MountInvariant /\ [Next]_vars =>
        [umounter' = "removed" /\ umounter = "unmount" /\ ~raced => UnderTarget = {}]_vars
  <2> SUFFICES ASSUME MountInvariant, [Next]_vars,
                      umounter' = "removed", umounter = "unmount", ~raced
               PROVE  UnderTarget = {}
    OBVIOUS
  <2>1. UmountEnds
    BY DEF Next, Mounting, Unmounting, BeginMount, MountOverlay, OverlayFails, ResolveTargets, MountNext,
           SkipTmpfs, StackFails, MountCompletes, BeginUmount, UnmountNext, UnmountFails,
           Enter, Leave, vars, umountVars
  <2>2. failed = 0 /\ targets = << >>
    BY <2>1 DEF UmountEnds
  <2>3. PICK f : Matches(f, table, targets)
    BY <2>2 DEF MountInvariant, UmountIsAlone, Matched
  <2>4. DOMAIN table = {}
    BY <2>2, <2>3 DEF Matches
  <2> QED BY <2>4 DEF UnderTarget
<1> QED BY <1>1, MountInvariantHolds, PTL DEF Spec, RemovedMeansBare

LEMMA ElsewhereIsNotBelow == ~Below(Nobody, Dst) /\ ~Below(Gone, Dst)
<1>1. Len(Dst) = 1 /\ Dst[1] = "dst" /\ Len(Nobody) = 0
  BY DEF Dst, Nobody
<1>2. Gone \in Seq({"gone"}) /\ Len(Gone) = 1 /\ Gone[1] = "gone"
  BY DEF Gone
<1>3. SubSeq(Gone, 1, 1)[1] = Gone[1]
  BY <1>2
<1> QED BY <1>1, <1>2, <1>3 DEF Below

(* Deepest first (proc.go:57-60, umount.go:45), umount never stands in   *)
(* its own way: what makes its first unmount fail is a process in the      *)
(* mount, a mount that hides another, or a mount command at work.          *)
THEOREM FailureHasACauseHolds == Spec => FailureHasACause
<1>1. MountInvariant /\ [Next]_vars =>
        [failed' = 1 /\ failed = 0 =>
           \/ raced
           \/ ~lazy /\ used \notin {Nobody, Gone}
           \/ \E i \in DOMAIN table : ~Visible(i)]_vars
  <2> SUFFICES ASSUME MountInvariant, [Next]_vars, failed' = 1, failed = 0, ~raced,
                      lazy \/ used \in {Nobody, Gone}, \A i \in DOMAIN table : Visible(i)
               PROVE  FALSE
    OBVIOUS
  <2>1. UnmountFails
    BY DEF Next, Mounting, Unmounting, BeginMount, MountOverlay, OverlayFails, ResolveTargets, MountNext,
           SkipTmpfs, StackFails, MountCompletes, BeginUmount, UnmountNext, UmountEnds,
           Enter, Leave, vars, umountVars
  <2>2. PICK k \in DOMAIN targets : Refuses(k)
    BY <2>1 DEF UnmountFails
  <2>3. TypeOK /\ Matched /\ Deepest(k)
    BY <2>1, <2>2 DEF UnmountFails, MountInvariant, UmountIsAlone, Refuses
  <2>4. PICK f : Matches(f, table, targets)
    BY <2>3 DEF Matched
  <2>5. PICK i \in DOMAIN table : f[i] = k /\ table[i].at = targets[k]
    BY <2>4 DEF Matches
  <2>6. i \in At(targets[k])
    BY <2>3, <2>5 DEF At, TypeOK
  <2>7. Carried(i) = {}
    BY <2>3, <2>6, DeepestIsBare
  <2>8. used = Nobody \/ used = Gone => used # table[i].at
    <3>1. Below(table[i].at, Dst)
      BY <2>5 DEF MountInvariant, StaysWithin
    <3>2. ~Below(Nobody, Dst) /\ ~Below(Gone, Dst)
      BY ElsewhereIsNotBelow
    <3> QED BY <3>1, <3>2
  <2>9. Removable(i)
    BY <2>7, <2>8 DEF Removable
  <2> QED BY <2>2, <2>6, <2>9 DEF Refuses
<1> QED BY <1>1, MountInvariantHolds, PTL DEF Spec, FailureHasACause
=============================================================================

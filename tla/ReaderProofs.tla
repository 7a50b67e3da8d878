----------------------------- MODULE ReaderProofs -----------------------------
(***************************************************************************)
(* What those who read an artifact get, proved for every text, for any     *)
(* number of tags and requests, any histories of the tags and any          *)
(* artifacts.                                                              *)
(*                                                                         *)
(* References: what one prints is read as the same reference, the path of  *)
(* a file is cut off where it was put, and an item names what it says in   *)
(* its registry.  All three rest on where a text is cut.  Printed, a       *)
(* reference has its host up to the first / and its path up to the first   *)
(* mark after it, since neither was read with one in it (CutOfPrinted);    *)
(* and the first segment, which decides whether there is a host, is the    *)
(* one that was read (SameClass).                                          *)
(*                                                                         *)
(* The proxy: the argument follows a layer.  What a request reads has been *)
(* offered by some version of its tag, for its platform; it goes into the  *)
(* cache under its own title, that tag and no platform, and has a fortiori *)
(* been offered to those who ask for none; the key is one to one, so only  *)
(* a request for that tag and title and for no platform finds it; and a    *)
(* tag that moves has the versions it had, so nothing that was right       *)
(* becomes wrong.  Of the ways to read descriptors it is assumed that they *)
(* read none the artifacts do not have; both there are do.                 *)
(***************************************************************************)
EXTENDS Readers, SequenceTheorems, Induction

Words == STRING \cup {"/", ":", "@", ".", "~", "latest", "sha256", "hex", "localhost"}

LEMMA TextWords ==
  ASSUME NEW s \in Texts \cup FilePaths
  PROVE  s \in Seq(Words)
  <1>1. s \in Seq(STRING)
    BY TextAssumption
  <1>2. STRING \subseteq Words
    BY DEF Words
  <1> QED BY <1>1, <1>2, SeqMonotonic

LEMMA LiteralWords ==
  /\ Digest \in Seq(Words) /\ Len(Digest) = 3
  /\ Digest[1] = "sha256" /\ Digest[2] = ":" /\ Digest[3] = "hex"
  /\ <<"latest">> \in Seq(Words) /\ <<"localhost">> \in Seq(Words)
  /\ \A w \in Words : <<w>> \in Seq(Words) /\ Len(<<w>>) = 1
  /\ {"/", ":", "@", "latest", "localhost"} \subseteq Words
  /\ AnyHost \in Seq(Words) /\ Len(AnyHost) = 0
  BY DEF Words, Digest, AnyHost

-----------------------------------------------------------------------------
(* Where the first mark is.                                                *)

LEMMA FirstMark ==
  ASSUME NEW s \in Seq(Words), NEW marks
  PROVE  /\ At(s, marks) \in 0 .. Len(s)
         /\ At(s, marks) = 0 => \A i \in 1 .. Len(s) : s[i] \notin marks
         /\ At(s, marks) # 0 => /\ s[At(s, marks)] \in marks
                                /\ \A i \in 1 .. At(s, marks) - 1 : s[i] \notin marks
  <1> DEFINE I == {i \in 1 .. Len(s) : s[i] \in marks}
             M == CHOOSE x \in I : \A y \in I : x <= y
  <1>1. At(s, marks) = IF I # {} THEN M ELSE 0
    BY DEF At, SelectInSeq, Min
  <1>2. CASE I = {}
    BY <1>1, <1>2
  <1>3. CASE I # {}
    <2>1. I \in SUBSET Nat
      OBVIOUS
    <2>2. \E x \in I : \A y \in I : x <= y
      BY <1>3, <2>1, LeastExists
    <2>3. M \in I /\ \A y \in I : M <= y
      <3> HIDE DEF I
      <3> QED BY <2>2
    <2>4. At(s, marks) = M
      BY <1>1, <1>3
    <2> HIDE DEF M
    <2>5. M \in 1 .. Len(s) /\ s[M] \in marks
      BY <2>3
    <2>6. ASSUME NEW i \in 1 .. M - 1 PROVE s[i] \notin marks
      BY <2>3, <2>5
    <2> QED BY <2>4, <2>5, <2>6
  <1> QED BY <1>2, <1>3

LEMMA FirstMarkIs ==
  ASSUME NEW s \in Seq(Words), NEW marks, NEW n \in 1 .. Len(s),
         s[n] \in marks, \A i \in 1 .. n - 1 : s[i] \notin marks
  PROVE  At(s, marks) = n
  <1>1. /\ At(s, marks) \in 0 .. Len(s)
        /\ At(s, marks) = 0 => \A i \in 1 .. Len(s) : s[i] \notin marks
        /\ At(s, marks) # 0 => /\ s[At(s, marks)] \in marks
                               /\ \A i \in 1 .. At(s, marks) - 1 : s[i] \notin marks
    BY FirstMark
  <1> QED BY <1>1

LEMMA HasMark ==
  ASSUME NEW s \in Seq(Words), NEW t
  PROVE  Has(s, t) <=> \E i \in 1 .. Len(s) : s[i] = t
  <1>1. /\ At(s, {t}) \in 0 .. Len(s)
        /\ At(s, {t}) = 0 => \A i \in 1 .. Len(s) : s[i] \notin {t}
        /\ At(s, {t}) # 0 => s[At(s, {t})] \in {t}
    BY FirstMark
  <1> QED BY <1>1 DEF Has

IsCut(s, n, a, b) ==
  /\ a \in Seq(Words) /\ Len(a) = n - 1 /\ \A i \in 1 .. n - 1 : a[i] = s[i]
  /\ b \in Seq(Words) /\ Len(b) = Len(s) - n /\ \A i \in 1 .. Len(s) - n : b[i] = s[n + i]

LEMMA Around ==
  ASSUME NEW s \in Seq(Words), NEW n \in 1 .. Len(s)
  PROVE  IsCut(s, n, Before(s, n), After(s, n))
  <1>1. /\ \A i \in 1 .. n - 1 : s[i] \in Words
        /\ \A i \in n + 1 .. Len(s) : s[i] \in Words
    OBVIOUS
  <1>2. /\ Before(s, n) \in Seq(Words) /\ Len(Before(s, n)) = n - 1
        /\ \A i \in 1 .. n - 1 : Before(s, n)[i] = s[i]
    <2>1. /\ SubSeq(s, 1, n - 1) \in Seq(Words)
          /\ Len(SubSeq(s, 1, n - 1)) = IF 1 <= n - 1 THEN (n - 1) - 1 + 1 ELSE 0
          /\ \A i \in 1 .. (n - 1) - 1 + 1 : SubSeq(s, 1, n - 1)[i] = s[1 + i - 1]
      BY <1>1, SubSeqProperties
    <2> QED BY <2>1 DEF Before
  <1>3. /\ After(s, n) \in Seq(Words) /\ Len(After(s, n)) = Len(s) - n
        /\ \A i \in 1 .. Len(s) - n : After(s, n)[i] = s[n + i]
    <2>1. /\ SubSeq(s, n + 1, Len(s)) \in Seq(Words)
          /\ Len(SubSeq(s, n + 1, Len(s)))
               = IF n + 1 <= Len(s) THEN Len(s) - (n + 1) + 1 ELSE 0
          /\ \A i \in 1 .. Len(s) - (n + 1) + 1 :
               SubSeq(s, n + 1, Len(s))[i] = s[(n + 1) + i - 1]
      BY <1>1, SubSeqProperties
    <2> QED BY <2>1 DEF After
  <1> QED BY <1>2, <1>3 DEF IsCut

(* A text put together around a mark, and cut there again.                 *)
IsJoin(t, n, a, w, b) ==
  /\ t \in Seq(Words) /\ Len(t) = Len(a) + 1 + Len(b)
  /\ n = Len(a) + 1 /\ n \in 1 .. Len(t) /\ t[n] = w
  /\ \A i \in 1 .. Len(a) : t[i] = a[i]
  /\ \A i \in 1 .. Len(b) : t[n + i] = b[i]
  /\ Before(t, n) = a /\ After(t, n) = b

LEMMA Joined ==
  ASSUME NEW a \in Seq(Words), NEW w \in Words, NEW b \in Seq(Words)
  PROVE  IsJoin(a \o <<w>> \o b, Len(a) + 1, a, w, b)
  <1> DEFINE t == a \o <<w>> \o b
             n == Len(a) + 1
  <1>1. <<w>> \in Seq(Words) /\ Len(<<w>>) = 1 /\ <<w>>[1] = w
    OBVIOUS
  <1> DEFINE h == a \o <<w>>
  <1>2. /\ h \in Seq(Words) /\ Len(h) = Len(a) + 1 /\ h[n] = w
        /\ \A i \in 1 .. Len(a) : h[i] = a[i]
    BY <1>1, ConcatProperties
  <1>3. t = h \o b
    OBVIOUS
  <1> HIDE DEF h, t
  <1>4. /\ t \in Seq(Words) /\ Len(t) = Len(h) + Len(b)
        /\ \A i \in 1 .. Len(h) + Len(b) : t[i] = IF i <= Len(h) THEN h[i] ELSE b[i - Len(h)]
    <2>1. /\ h \o b \in Seq(Words) /\ Len(h \o b) = Len(h) + Len(b)
          /\ \A i \in 1 .. Len(h) + Len(b) :
               (h \o b)[i] = IF i <= Len(h) THEN h[i] ELSE b[i - Len(h)]
      BY <1>2, ConcatProperties
    <2> QED BY <1>3, <2>1
  <1>5. Len(a) \in Nat /\ Len(b) \in Nat
    OBVIOUS
  <1>6. /\ t \in Seq(Words) /\ Len(t) = Len(a) + 1 + Len(b)
        /\ n \in 1 .. Len(t) /\ t[n] = w
        /\ \A i \in 1 .. Len(a) : t[i] = a[i]
    BY <1>2, <1>4, <1>5
  <1>7. ASSUME NEW i \in 1 .. Len(b) PROVE t[n + i] = b[i]
    <2>1. n + i \in 1 .. Len(h) + Len(b) /\ ~(n + i <= Len(h)) /\ (n + i) - Len(h) = i
      BY <1>2, <1>5
    <2> QED BY <1>4, <2>1
  <1>8. Before(t, n) = a
    <2>1. /\ Before(t, n) \in Seq(Words) /\ Len(Before(t, n)) = Len(a)
          /\ \A i \in 1 .. Len(a) : Before(t, n)[i] = a[i]
      <3>1. IsCut(t, n, Before(t, n), After(t, n))
        BY <1>6, Around
      <3> QED BY <1>5, <1>6, <3>1 DEF IsCut
    <2> QED BY <2>1, SeqEqual
  <1>9. After(t, n) = b
    <2>1. /\ After(t, n) \in Seq(Words) /\ Len(After(t, n)) = Len(b)
          /\ \A i \in 1 .. Len(b) : After(t, n)[i] = b[i]
      <3>1. IsCut(t, n, Before(t, n), After(t, n))
        BY <1>6, Around
      <3> QED BY <1>5, <1>6, <1>7, <3>1 DEF IsCut
    <2> QED BY <2>1, SeqEqual
  <1>10. IsJoin(t, n, a, w, b)
    BY <1>6, <1>7, <1>8, <1>9 DEF IsJoin
  <1> QED BY <1>10 DEF t

LEMMA PutBack ==
  ASSUME NEW s \in Seq(Words), NEW n \in 1 .. Len(s)
  PROVE  s = Before(s, n) \o <<s[n]>> \o After(s, n)
  <1> DEFINE a == Before(s, n)
             b == After(s, n)
             t == a \o <<s[n]>> \o b
  <1>1. s[n] \in Words
    OBVIOUS
  <1>2. IsCut(s, n, a, b)
    BY Around
  <1> HIDE DEF a, b
  <1>3. a \in Seq(Words) /\ b \in Seq(Words) /\ n = Len(a) + 1
    BY <1>2 DEF IsCut
  <1>4. IsJoin(t, n, a, s[n], b)
    BY <1>1, <1>3, Joined
  <1> HIDE DEF t
  <1>5. t \in Seq(Words) /\ Len(s) = Len(t)
    BY <1>2, <1>3, <1>4 DEF IsCut, IsJoin
  <1>6. ASSUME NEW i \in 1 .. Len(s) PROVE s[i] = t[i]
    <2>1. CASE i < n
      BY <1>2, <1>3, <1>4, <2>1 DEF IsCut, IsJoin
    <2>2. CASE i = n
      BY <1>4, <2>2 DEF IsJoin
    <2>3. CASE i > n
      <3>1. i - n \in 1 .. Len(s) - n /\ i = n + (i - n)
        BY <2>3
      <3>2. PICK k \in 1 .. Len(s) - n : i = n + k
        BY <3>1
      <3>3. b[k] = s[n + k]
        BY <1>2 DEF IsCut
      <3>4. k \in 1 .. Len(b)
        BY <1>2 DEF IsCut
      <3>5. t[n + k] = b[k]
        BY <1>4, <3>4 DEF IsJoin
      <3> QED BY <3>2, <3>3, <3>5
    <2> QED BY <2>1, <2>2, <2>3
  <1>7. s = t
    BY <1>5, <1>6, SeqEqual
  <1> QED BY <1>7 DEF t, a, b

-----------------------------------------------------------------------------
(* A printed reference.                                                    *)

PathAndRef(path, sep, ref) == path \o <<sep>> \o ref
Printed(host, path, sep, ref) ==
  IF host = AnyHost THEN PathAndRef(path, sep, ref) ELSE host \o <<"/">> \o PathAndRef(path, sep, ref)

Free(s, marks) == \A i \in 1 .. Len(s) : s[i] \notin marks

Prints(u, remote, host, path, sep, ref) ==
  /\ host \in Seq(Words) /\ path \in Seq(Words) /\ sep \in {":", "@"}
  /\ ref \in Seq(Words) /\ remote \in BOOLEAN
  /\ Free(host, {"/"}) /\ Free(path, {":", "@"})
  /\ u = Printed(host, path, sep, ref)
  /\ host # AnyHost => remote
  /\ host = AnyHost => ~(remote /\ Has(u, "/"))

FallsApart(u, remote, host, path, sep, ref) ==
  LET t == PathAndRef(path, sep, ref)
      n == Len(path) + 1
  IN  /\ remote /\ Has(u, "/") <=> host # AnyHost
      /\ HostOf(remote, u) = host /\ RestOf(remote, u) = t
      /\ At(t, {"@", ":"}) = n /\ t[n] = sep /\ n # 0
      /\ Before(t, n) = path /\ After(t, n) = ref

LEMMA CutOfPrinted ==
  ASSUME NEW u, NEW remote, NEW host, NEW path, NEW sep, NEW ref,
         Prints(u, remote, host, path, sep, ref)
  PROVE  FallsApart(u, remote, host, path, sep, ref)
  <1> USE DEF Prints
  <1> DEFINE t == PathAndRef(path, sep, ref)
             n == Len(path) + 1
  <1>1. sep \in Words
    BY LiteralWords
  <1>2. IsJoin(t, n, path, sep, ref)
    BY <1>1, Joined DEF PathAndRef
  <1>3. At(t, {"@", ":"}) = n
    <2>1. \A i \in 1 .. n - 1 : t[i] \notin {"@", ":"}
      <3> SUFFICES ASSUME NEW i \in 1 .. n - 1 PROVE t[i] \notin {"@", ":"}
        OBVIOUS
      <3>1. i \in 1 .. Len(path)
        OBVIOUS
      <3>2. path[i] \notin {"@", ":"}
        BY <3>1 DEF Free
      <3> HIDE DEF t
      <3>3. t[i] = path[i]
        BY <1>2, <3>1 DEF IsJoin
      <3> QED BY <3>2, <3>3
    <2>2. t \in Seq(Words) /\ n \in 1 .. Len(t) /\ t[n] \in {"@", ":"}
      <3> HIDE DEF t, n
      <3> QED BY <1>2 DEF IsJoin
    <2> HIDE DEF t, n
    <2> QED BY <2>1, <2>2, FirstMarkIs
  <1>4. /\ remote /\ Has(u, "/") <=> host # AnyHost
        /\ HostOf(remote, u) = host /\ RestOf(remote, u) = t
    <2> HIDE DEF t, n
    <2>1. t \in Seq(Words)
      BY <1>2 DEF IsJoin
    <2>2. CASE host = AnyHost
      <3>1. u = t /\ ~(remote /\ Has(u, "/"))
        BY <2>2 DEF Printed, t
      <3> QED BY <2>1, <2>2, <3>1 DEF HostOf, RestOf
    <2>3. CASE host # AnyHost
      <3> DEFINE m == Len(host) + 1
      <3>1. u = host \o <<"/">> \o t /\ "/" \in Words
        BY <2>3, LiteralWords DEF Printed, t
      <3>2. IsJoin(u, m, host, "/", t)
        BY <2>1, <3>1, Joined
      <3>3. /\ u \in Seq(Words) /\ m \in 1 .. Len(u) /\ u[m] \in {"/"}
            /\ \A i \in 1 .. m - 1 : u[i] \notin {"/"}
        BY <3>2 DEF Free, IsJoin
      <3>4. Before(u, m) = host /\ After(u, m) = t
        BY <3>2 DEF IsJoin
      <3> HIDE DEF m
      <3>5. At(u, {"/"}) = m
        BY <3>3, FirstMarkIs
      <3>6. Has(u, "/") /\ remote
        BY <2>3, <3>3, <3>5 DEF Has
      <3> QED BY <2>3, <3>3, <3>4, <3>5, <3>6 DEF HostOf, RestOf, Upto
    <2> QED BY <2>2, <2>3
  <1> HIDE DEF t
  <1>5. t[n] = sep /\ Before(t, n) = path /\ After(t, n) = ref
    BY <1>2 DEF IsJoin
  <1>6. n # 0
    OBVIOUS
  <1> HIDE DEF n, Prints
  <1> QED BY <1>3, <1>4, <1>5, <1>6 DEF t, n, FallsApart

(* A printed reference is cut into its parts, and accepted.                *)
Acceptable(u, path, sep, ref) ==
  path # << >> /\ Last(path) # "/" /\ (sep = "@" => ref = Digest) /\ ~Doubled(u)

IsCutInto(u, remote, host, path, ref) ==
  Cuts(remote, u, FALSE) = {<<Reference(host, path, ref), << >>>>}

LEMMA PrintedAccepted ==
  ASSUME NEW host, NEW path, NEW sep, NEW ref, NEW remote, NEW u,
         Prints(u, remote, host, path, sep, ref), Acceptable(u, path, sep, ref)
  PROVE  IsCutInto(u, remote, host, path, ref)
  <1> DEFINE t == PathAndRef(path, sep, ref)
             n == Len(path) + 1
             c == <<Reference(host, path, ref), << >>>>
  <1>1. /\ remote /\ Has(u, "/") <=> host # AnyHost
        /\ HostOf(remote, u) = host /\ RestOf(remote, u) = t
        /\ At(t, {"@", ":"}) = n /\ t[n] = sep /\ n # 0
        /\ Before(t, n) = path /\ After(t, n) = ref
    <2>1. FallsApart(u, remote, host, path, sep, ref)
      BY CutOfPrinted
    <2> QED BY <2>1 DEF FallsApart
  <1> HIDE DEF t, n
  <1>3. Cut(remote, u, FALSE) = c
    BY <1>1 DEF Cut
  <1>4. c[1].host = host /\ c[1].path = path /\ c[1].ref = ref
    BY DEF Reference
  <1> HIDE DEF c
  <1>5. Accepted(remote, u, c)
    BY <1>1, <1>4 DEF Accepted, Acceptable
  <1>6. Cuts(remote, u, FALSE) = {c}
    BY <1>3, <1>5 DEF Cuts
  <1> QED BY <1>6 DEF c, IsCutInto

LEMMA ParseIs ==
  ASSUME NEW s
  PROVE  Parse(s) = IF Accepted(~IsLayout(s), s, Cut(~IsLayout(s), s, FALSE))
                    THEN {Cut(~IsLayout(s), s, FALSE)[1]} ELSE {}
  BY DEF Parse, Cuts

LEMMA SameClass ==
  ASSUME NEW s \in Seq(Words), NEW u \in Seq(Words), s # << >>, u # << >>, s[1] = u[1],
         Has(s, "/"), Has(u, "/"), Upto(s, "/") = Upto(u, "/")
  PROVE  IsLayout(s) <=> IsLayout(u)
  BY DEF Classify, IsLayout

-----------------------------------------------------------------------------
(* Texts that start alike and have no / behind that.                       *)

Alike(s, u, k) ==
  /\ k \in Nat \ {0} /\ k <= Len(s) /\ k <= Len(u)
  /\ \A n \in 1 .. k : u[n] = s[n]
  /\ \A n \in k + 1 .. Len(u) : u[n] # "/"

LEMMA StillSingle ==
  ASSUME NEW s \in Seq(Words), NEW u \in Seq(Words), NEW k, Alike(s, u, k), ~Doubled(s)
  PROVE  ~Doubled(u)
  <1> SUFFICES ASSUME NEW n \in 1 .. Len(u) - 1, u[n] = "/", u[n + 1] = "/" PROVE FALSE
    BY DEF Doubled
  <1>1. n + 1 \in 1 .. Len(u) /\ n \in 1 .. Len(u)
    OBVIOUS
  <1>2. ~(n + 1 > k)
    BY <1>1 DEF Alike
  <1>3. n \in 1 .. k /\ n + 1 \in 1 .. k /\ n \in 1 .. Len(s) - 1
    BY <1>2 DEF Alike
  <1> QED BY <1>3 DEF Alike, Doubled

LEMMA AlikeBehindHost ==
  ASSUME NEW host \in Seq(Words), NEW s \in Seq(Words), NEW u \in Seq(Words), NEW k,
         Alike(s, u, k)
  PROVE  Alike(host \o <<"/">> \o s, host \o <<"/">> \o u, Len(host) + 1 + k)
  <1> DEFINE x == host \o <<"/">> \o s
             y == host \o <<"/">> \o u
             m == Len(host) + 1
  <1>1. IsJoin(x, m, host, "/", s) /\ IsJoin(y, m, host, "/", u)
    BY LiteralWords, Joined
  <1>2. m \in Nat
    OBVIOUS
  <1>3. Len(host) = m - 1
    OBVIOUS
  <1> HIDE DEF x, y, m
  <1>4. k \in Nat \ {0} /\ k <= Len(s) /\ k <= Len(u)
    BY DEF Alike
  <1>5. m + k <= Len(x) /\ m + k <= Len(y) /\ Len(y) = m + Len(u)
    BY <1>1, <1>2, <1>3, <1>4 DEF IsJoin
  <1>6. ASSUME NEW n \in 1 .. m + k PROVE y[n] = x[n]
    <2>1. CASE n < m
      <3>1. n \in 1 .. Len(host)
        BY <1>2, <1>3, <2>1
      <3> QED BY <1>1, <3>1 DEF IsJoin
    <2>2. CASE n = m
      BY <1>1, <2>2 DEF IsJoin
    <2>3. CASE n > m
      <3>1. PICK j \in 1 .. k : n = m + j
        <4>1. n - m \in 1 .. k /\ n = m + (n - m)
          BY <1>2, <1>4, <2>3
        <4> QED BY <4>1
      <3>2. j \in 1 .. Len(s) /\ j \in 1 .. Len(u) /\ u[j] = s[j]
        BY <1>4 DEF Alike
      <3>3. x[m + j] = s[j] /\ y[m + j] = u[j]
        BY <1>1, <3>2 DEF IsJoin
      <3> QED BY <3>1, <3>2, <3>3
    <2> QED BY <1>2, <1>4, <2>1, <2>2, <2>3
  <1>7. ASSUME NEW n \in m + k + 1 .. Len(y) PROVE y[n] # "/"
    <2>1. PICK j \in k + 1 .. Len(u) : n = m + j
      <3>1. n - m \in k + 1 .. Len(u) /\ n = m + (n - m)
        BY <1>2, <1>4, <1>5
      <3> QED BY <3>1
    <2>2. j \in 1 .. Len(u) /\ u[j] # "/"
      BY <1>4 DEF Alike
    <2> QED BY <1>1, <2>1, <2>2 DEF IsJoin
  <1>8. Alike(x, y, m + k)
    BY <1>2, <1>4, <1>5, <1>6, <1>7 DEF Alike
  <1> QED BY <1>8 DEF x, y, m

LEMMA AlikeFirst ==
  ASSUME NEW s \in Seq(Words), NEW u \in Seq(Words), NEW k, Alike(s, u, k), Has(u, "/")
  PROVE  Has(s, "/") /\ Upto(s, "/") = Upto(u, "/")
  <1> DEFINE n == At(u, {"/"})
  <1>1. /\ n \in 1 .. Len(u) /\ u[n] = "/"
        /\ \A i \in 1 .. n - 1 : u[i] \notin {"/"}
    <2>1. /\ n \in 0 .. Len(u) /\ n # 0
          /\ n # 0 => u[n] \in {"/"} /\ \A i \in 1 .. n - 1 : u[i] \notin {"/"}
      BY FirstMark DEF Has
    <2> QED BY <2>1
  <1> HIDE DEF n
  <1>2. n \in 1 .. k
    BY <1>1 DEF Alike
  <1>3. /\ n \in 1 .. Len(s) /\ s[n] \in {"/"}
        /\ \A i \in 1 .. n - 1 : s[i] = u[i]
    BY <1>1, <1>2 DEF Alike
  <1>4. At(s, {"/"}) = n
    BY <1>1, <1>3, FirstMarkIs
  <1>5. IsCut(s, n, Before(s, n), After(s, n)) /\ IsCut(u, n, Before(u, n), After(u, n))
    BY <1>1, <1>3, Around
  <1>6. Before(s, n) = Before(u, n)
    <2>1. /\ Before(s, n) \in Seq(Words) /\ Before(u, n) \in Seq(Words)
          /\ Len(Before(s, n)) = Len(Before(u, n))
          /\ \A i \in 1 .. Len(Before(s, n)) : Before(s, n)[i] = Before(u, n)[i]
      BY <1>3, <1>5 DEF IsCut
    <2> QED BY <2>1, SeqEqual
  <1>7. Has(s, "/")
    BY <1>1, <1>4 DEF Has
  <1> QED BY <1>4, <1>6, <1>7 DEF Upto, n

-----------------------------------------------------------------------------
(* A reference that was read.                                              *)

(* Its parts hold no mark they were cut at, and there is a host where the  *)
(* text had one.                                                           *)
HasParts(s, r) ==
  /\ r = Reference(r.host, r.path, r.ref)
  /\ r.host \in Seq(Words) /\ r.path \in Seq(Words) /\ r.ref \in Seq(Words)
  /\ Free(r.host, {"/"}) /\ Free(r.path, {":", "@"})
  /\ r.path # << >> /\ Last(r.path) # "/"
  /\ Separator(r.ref) \in {":", "@"} /\ (Separator(r.ref) = "@" => r.ref = Digest)
  /\ r.host # AnyHost => /\ ~IsLayout(s) /\ Has(s, "/") /\ Upto(s, "/") = r.host
                         /\ s # << >> /\ s[1] = r.host[1]
  /\ r.host = AnyHost => ~(~IsLayout(s) /\ Has(s, "/"))
  /\ ~Doubled(s)

(* It prints as the text, or as one that starts like it and ends in        *)
(* another tag or digest.                                                  *)
StartsLike(s, r, k) ==
  /\ Alike(s, String(r), k)
  /\ r.host # AnyHost => /\ IsJoin(s, Len(r.host) + 1, r.host, "/", RestOf(TRUE, s))
                         /\ k > Len(r.host)
PrintsLike(s, r) == String(r) = s \/ \E k : StartsLike(s, r, k)

LEMMA StringIsPrinted ==
  ASSUME NEW r
  PROVE  String(r) = Printed(r.host, r.path, Separator(r.ref), r.ref)
  BY DEF String, RepoReference, Printed, PathAndRef

LEMMA DigestIsOne == IsDigest(Digest) /\ ~IsDigest(<<"latest">>)
  <1>1. Len(Digest) <= Len(Digest) /\ SubSeq(Digest, 1, Len(Digest)) = SubSeq(Digest, 1, Len(Digest))
    BY LiteralWords
  <1>2. Len(<<"latest">>) = 1
    OBVIOUS
  <1>3. ~(Len(Digest) <= Len(<<"latest">>))
    BY <1>2, LiteralWords
  <1> QED BY <1>1, <1>3 DEF IsDigest, IsPrefix

(* The text behind the host, and how it was cut off.                       *)
HostCut(s, remote, host, rest) ==
  /\ host \in Seq(Words) /\ Free(host, {"/"}) /\ rest \in Seq(Words)
  /\ ~(remote /\ Has(s, "/")) => host = AnyHost /\ rest = s
  /\ remote /\ Has(s, "/") => /\ IsJoin(s, Len(host) + 1, host, "/", rest)
                              /\ s = host \o <<"/">> \o rest

LEMMA BehindHost ==
  ASSUME NEW s \in Seq(Words), NEW remote \in BOOLEAN
  PROVE  HostCut(s, remote, HostOf(remote, s), RestOf(remote, s))
  <1> DEFINE host == HostOf(remote, s)
             rest == RestOf(remote, s)
  <1>1. CASE ~(remote /\ Has(s, "/"))
    <2>1. host = AnyHost /\ rest = s
      BY <1>1 DEF HostOf, RestOf
    <2>2. AnyHost \in Seq(Words) /\ Free(AnyHost, {"/"})
      BY LiteralWords DEF Free
    <2> HIDE DEF host, rest
    <2>3. HostCut(s, remote, host, rest)
      BY <1>1, <2>1, <2>2 DEF HostCut
    <2> QED BY <2>3 DEF host, rest
  <1>2. CASE remote /\ Has(s, "/")
    <2> DEFINE n == At(s, {"/"})
    <2>1. /\ n \in 1 .. Len(s) /\ s[n] = "/"
          /\ \A i \in 1 .. n - 1 : s[i] # "/"
      <3>1. /\ n \in 0 .. Len(s) /\ n # 0
            /\ n # 0 => s[n] \in {"/"} /\ \A i \in 1 .. n - 1 : s[i] \notin {"/"}
        BY <1>2, FirstMark DEF Has
      <3> QED BY <3>1
    <2>2. host = Before(s, n) /\ rest = After(s, n)
      BY <1>2 DEF HostOf, RestOf, Upto
    <2> HIDE DEF n, host, rest
    <2>3. IsCut(s, n, host, rest)
      BY <2>1, <2>2, Around
    <2>4. s = host \o <<"/">> \o rest
      <3>1. s = Before(s, n) \o <<s[n]>> \o After(s, n)
        BY <2>1, PutBack
      <3> QED BY <2>1, <2>2, <3>1
    <2>5. host \in Seq(Words) /\ rest \in Seq(Words) /\ Free(host, {"/"})
      <3>1. host \in Seq(Words) /\ rest \in Seq(Words) /\ Len(host) = n - 1
        BY <2>3 DEF IsCut
      <3>2. ASSUME NEW i \in 1 .. Len(host) PROVE host[i] \notin {"/"}
        <4>1. i \in 1 .. n - 1
          BY <3>1
        <4>2. host[i] = s[i]
          BY <2>3, <4>1 DEF IsCut
        <4> QED BY <2>1, <4>1, <4>2
      <3> QED BY <3>1, <3>2 DEF Free
    <2>6. IsJoin(host \o <<"/">> \o rest, Len(host) + 1, host, "/", rest)
      BY <2>5, LiteralWords, Joined
    <2>7. IsJoin(s, Len(host) + 1, host, "/", rest)
      BY <2>4, <2>6
    <2>8. HostCut(s, remote, host, rest)
      BY <1>2, <2>4, <2>5, <2>7 DEF HostCut
    <2> QED BY <2>8 DEF host, rest
  <1> QED BY <1>1, <1>2

(* The same of the path and what follows it.                               *)
LEMMA BehindPath ==
  ASSUME NEW rest \in Seq(Words), NEW i, i = At(rest, {"@", ":"}), i # 0
  PROVE  /\ i \in 1 .. Len(rest) /\ rest[i] \in {"@", ":"}
         /\ Before(rest, i) \in Seq(Words) /\ After(rest, i) \in Seq(Words)
         /\ Free(Before(rest, i), {":", "@"})
         /\ rest = PathAndRef(Before(rest, i), rest[i], After(rest, i))
  <1>1. /\ i \in 1 .. Len(rest) /\ rest[i] \in {"@", ":"}
        /\ \A j \in 1 .. i - 1 : rest[j] \notin {"@", ":"}
    BY FirstMark
  <1>2. IsCut(rest, i, Before(rest, i), After(rest, i))
    BY <1>1, Around
  <1>3. rest = PathAndRef(Before(rest, i), rest[i], After(rest, i))
    BY <1>1, PutBack DEF PathAndRef
  <1>4. ASSUME NEW j \in 1 .. Len(Before(rest, i)) PROVE Before(rest, i)[j] \notin {":", "@"}
    <2>1. j \in 1 .. i - 1
      BY <1>2 DEF IsCut
    <2>2. Before(rest, i)[j] = rest[j]
      BY <1>2, <2>1 DEF IsCut
    <2> QED BY <1>1, <2>1, <2>2
  <1>5. Before(rest, i) \in Seq(Words) /\ After(rest, i) \in Seq(Words)
    BY <1>2 DEF IsCut
  <1> QED BY <1>1, <1>3, <1>4, <1>5 DEF Free

(* With another tag or digest behind it, a path still starts the text.     *)
LEMMA AlikeBehindPath ==
  ASSUME NEW path \in Seq(Words), path # << >>, NEW rest \in Seq(Words),
         Len(path) <= Len(rest), \A n \in 1 .. Len(path) : rest[n] = path[n],
         NEW sep \in {":", "@"}, NEW ref \in {<<"latest">>, Digest}
  PROVE  Alike(rest, PathAndRef(path, sep, ref), Len(path))
  <1> DEFINE t == PathAndRef(path, sep, ref)
  <1>1. ref \in Seq(Words) /\ \A j \in 1 .. Len(ref) : ref[j] # "/"
    <2>1. CASE ref = <<"latest">>
      BY <2>1, LiteralWords
    <2>2. CASE ref = Digest
      <3>1. \A j \in 1 .. Len(ref) : j \in {1, 2, 3}
        BY <2>2, LiteralWords
      <3> QED BY <2>2, <3>1, LiteralWords
    <2> QED BY <2>1, <2>2
  <1>2. sep \in Words
    BY LiteralWords
  <1>3. IsJoin(t, Len(path) + 1, path, sep, ref)
    BY <1>1, <1>2, Joined DEF PathAndRef
  <1> HIDE DEF t
  <1>4. Len(path) \in Nat \ {0}
    OBVIOUS
  <1>5. Len(t) = Len(path) + 1 + Len(ref) /\ Len(path) <= Len(t)
    BY <1>1, <1>3, <1>4 DEF IsJoin
  <1>6. \A n \in 1 .. Len(path) : t[n] = rest[n]
    BY <1>3 DEF IsJoin
  <1>7. ASSUME NEW n \in Len(path) + 1 .. Len(t) PROVE t[n] # "/"
    <2>1. CASE n = Len(path) + 1
      BY <1>3, <2>1 DEF IsJoin
    <2>2. CASE n # Len(path) + 1
      <3>1. PICK j \in 1 .. Len(ref) : n = Len(path) + 1 + j
        <4>1. /\ n - Len(path) - 1 \in 1 .. Len(ref)
              /\ n = Len(path) + 1 + (n - Len(path) - 1)
          BY <1>1, <1>4, <1>5, <2>2
        <4> QED BY <4>1
      <3>2. t[Len(path) + 1 + j] = ref[j]
        BY <1>3 DEF IsJoin
      <3> QED BY <1>1, <3>1, <3>2
    <2> QED BY <2>1, <2>2
  <1>8. Alike(rest, t, Len(path))
    BY <1>4, <1>5, <1>6, <1>7 DEF Alike
  <1> QED BY <1>8 DEF t

LEMMA ReadParts ==
  ASSUME NEW s \in Seq(Words), NEW r \in Parse(s), ~LikeDigest(r.ref)
  PROVE  HasParts(s, r) /\ PrintsLike(s, r)
  <1> DEFINE R    == ~IsLayout(s)
             host == HostOf(R, s)
             rest == RestOf(R, s)
             i    == At(rest, {"@", ":"})
             cut  == Cut(R, s, FALSE)
             sep  == Separator(r.ref)
             t    == PathAndRef(r.path, sep, r.ref)
  <1>1. r = cut[1] /\ Accepted(R, s, cut)
    BY ParseIs
  <1>2. R \in BOOLEAN
    BY DEF IsLayout
  <1>3. /\ host \in Seq(Words) /\ Free(host, {"/"}) /\ rest \in Seq(Words)
        /\ ~(R /\ Has(s, "/")) => host = AnyHost /\ rest = s
        /\ R /\ Has(s, "/") => /\ IsJoin(s, Len(host) + 1, host, "/", rest)
                               /\ s = host \o <<"/">> \o rest
    <2> HIDE DEF R
    <2>1. HostCut(s, R, host, rest)
      BY <1>2, BehindHost
    <2> HIDE DEF host, rest
    <2> QED BY <2>1 DEF HostCut
  <1>4. /\ i = 0 => cut[1] = Reference(host, rest, <<"latest">>)
        /\ i # 0 => cut[1] = Reference(host, Before(rest, i), After(rest, i))
    BY DEF Cut
  <1>5. /\ ~Doubled(s)
        /\ R /\ Has(s, "/") => r.host # AnyHost
        /\ (i # 0 /\ rest[i] = "@") => r.ref = Digest
        /\ r.path # << >> /\ Last(r.path) # "/"
    BY <1>1 DEF Accepted
  <1> HIDE DEF cut, R, host, rest, i
  <1>6. /\ r = Reference(r.host, r.path, r.ref) /\ r.host = host
        /\ i = 0 => r.path = rest /\ r.ref = <<"latest">>
        /\ i # 0 => r.path = Before(rest, i) /\ r.ref = After(rest, i)
    BY <1>1, <1>4 DEF Reference
  <1>7. /\ sep \in {":", "@"}
        /\ sep = "@" <=> IsDigest(r.ref)
        /\ sep = "@" <=> r.ref = Digest
    BY DigestIsOne DEF Separator, LikeDigest, IsDigest
  <1>8. i # 0 => /\ i \in 1 .. Len(rest) /\ rest[i] \in {"@", ":"}
                 /\ Before(rest, i) \in Seq(Words) /\ After(rest, i) \in Seq(Words)
                 /\ Free(Before(rest, i), {":", "@"})
                 /\ rest = PathAndRef(Before(rest, i), rest[i], After(rest, i))
    BY <1>3, BehindPath DEF i
  <1>9. i = 0 => Free(rest, {":", "@"})
    <2>1. i = 0 => \A j \in 1 .. Len(rest) : rest[j] \notin {"@", ":"}
      BY <1>3, FirstMark DEF i
    <2> QED BY <2>1 DEF Free
  <1>10. r.path \in Seq(Words) /\ r.ref \in Seq(Words) /\ Free(r.path, {":", "@"})
    BY <1>3, <1>6, <1>8, <1>9, LiteralWords
  <1>11. r.host # AnyHost <=> R /\ Has(s, "/")
    BY <1>3, <1>5, <1>6
  <1>12. HasParts(s, r)
    <2>1. r.host # AnyHost => /\ Upto(s, "/") = r.host
                              /\ s # << >> /\ s[1] = r.host[1]
      <3> SUFFICES ASSUME r.host # AnyHost
                   PROVE  Upto(s, "/") = r.host /\ s # << >> /\ s[1] = r.host[1]
        OBVIOUS
      <3>1. Upto(s, "/") = r.host
        BY <1>6, <1>11 DEF HostOf, host
      <3>2. IsJoin(s, Len(r.host) + 1, r.host, "/", rest) /\ r.host \in Seq(Words)
        BY <1>3, <1>6, <1>11
      <3>3. 1 \in 1 .. Len(r.host)
        BY <3>2 DEF AnyHost
      <3>4. s[1] = r.host[1]
        BY <3>2, <3>3 DEF IsJoin
      <3>5. s # << >>
        <4>1. Len(r.host) + 1 \in 1 .. Len(s)
          BY <3>2 DEF IsJoin
        <4> QED BY <4>1
      <3> QED BY <3>1, <3>4, <3>5
    <2> HIDE DEF sep
    <2> QED BY <2>1, <1>3, <1>5, <1>6, <1>7, <1>10, <1>11 DEF HasParts, R, sep
  <1>13. rest = t \/ Alike(rest, t, Len(r.path))
    <2>1. CASE i # 0 /\ rest[i] = sep
      BY <1>6, <1>8, <2>1
    <2>2. CASE i # 0 /\ rest[i] # sep
      <3>1. r.ref = Digest
        BY <1>5, <1>7, <1>8, <2>2
      <3>2. IsJoin(rest, Len(r.path) + 1, r.path, rest[i], r.ref)
        <4>1. rest[i] \in Words
          BY <1>3, <1>8, <2>2
        <4>2. rest = r.path \o <<rest[i]>> \o r.ref
          BY <1>6, <1>8, <2>2 DEF PathAndRef
        <4>3. IsJoin(r.path \o <<rest[i]>> \o r.ref, Len(r.path) + 1, r.path, rest[i], r.ref)
          BY <1>10, <4>1, Joined
        <4> QED BY <4>2, <4>3
      <3>3. Len(r.path) <= Len(rest) /\ \A n \in 1 .. Len(r.path) : rest[n] = r.path[n]
        <4>1. PICK p \in Nat : p = Len(r.path)
          BY <1>10
        <4>2. PICK q \in Nat : q = Len(r.ref)
          BY <1>10
        <4>3. Len(rest) = p + 1 + q
          BY <3>2, <4>1, <4>2 DEF IsJoin
        <4>4. Len(r.path) <= Len(rest)
          BY <4>1, <4>3
        <4>5. \A n \in 1 .. Len(r.path) : rest[n] = r.path[n]
          BY <3>2 DEF IsJoin
        <4> QED BY <4>4, <4>5
      <3> HIDE DEF sep
      <3> QED BY <1>3, <1>5, <1>7, <1>10, <3>1, <3>3, AlikeBehindPath
    <2>3. CASE i = 0
      <3>1. r.ref = <<"latest">> /\ r.path = rest
        BY <1>6, <2>3
      <3>2. Len(r.path) <= Len(rest) /\ \A n \in 1 .. Len(r.path) : rest[n] = r.path[n]
        BY <1>3, <3>1
      <3> HIDE DEF sep
      <3> QED BY <1>3, <1>5, <1>7, <1>10, <3>1, <3>2, AlikeBehindPath
    <2> QED BY <2>1, <2>2, <2>3
  <1>14. t \in Seq(Words)
    <2>1. sep \in Words
      BY <1>7, LiteralWords
    <2>2. IsJoin(t, Len(r.path) + 1, r.path, sep, r.ref)
      BY <1>10, <2>1, Joined DEF PathAndRef
    <2> QED BY <2>2 DEF IsJoin
  <1>15. Len(r.path) \in Nat /\ Len(host) \in Nat /\ Len(r.host) = Len(host)
    <2>1. Len(r.path) \in Nat
      BY <1>10
    <2>2. Len(host) \in Nat
      BY <1>3
    <2>3. Len(r.host) = Len(host)
      BY <1>6
    <2> QED BY <2>1, <2>2, <2>3
  <1> HIDE DEF sep, t
  <1>16. String(r) = IF host = AnyHost THEN t ELSE host \o <<"/">> \o t
    BY <1>6, StringIsPrinted DEF Printed, sep, t
  <1>17. PrintsLike(s, r)
    <2>1. CASE r.host = AnyHost
      <3>1. String(r) = t /\ rest = s
        BY <1>3, <1>6, <1>11, <1>16, <2>1
      <3>2. Alike(s, String(r), Len(r.path)) => StartsLike(s, r, Len(r.path))
        BY <2>1 DEF StartsLike
      <3> QED BY <1>13, <3>1, <3>2 DEF PrintsLike
    <2>2. CASE r.host # AnyHost
      <3>1. String(r) = host \o <<"/">> \o t /\ s = host \o <<"/">> \o rest
        BY <1>3, <1>6, <1>11, <1>16, <2>2
      <3>2. CASE rest = t
        BY <3>1, <3>2 DEF PrintsLike
      <3>3. CASE Alike(rest, t, Len(r.path))
        <4> DEFINE k == Len(host) + 1 + Len(r.path)
        <4>1. Alike(s, String(r), k)
          BY <1>3, <1>14, <3>1, <3>3, AlikeBehindHost
        <4>2. k > Len(r.host)
          <5>1. PICK h \in Nat : h = Len(r.host) /\ Len(host) = h
            BY <1>15
          <5>2. PICK p \in Nat : p = Len(r.path)
            BY <1>15
          <5>3. k = h + 1 + p
            BY <5>1, <5>2
          <5> HIDE DEF k
          <5> QED BY <5>1, <5>3
        <4>3. R = TRUE /\ rest = RestOf(TRUE, s)
          BY <1>2, <1>11, <2>2 DEF rest
        <4>4. IsJoin(s, Len(r.host) + 1, r.host, "/", RestOf(TRUE, s))
          BY <1>3, <1>6, <1>11, <2>2, <4>3
        <4> HIDE DEF k
        <4>5. StartsLike(s, r, k)
          BY <4>1, <4>2, <4>4 DEF StartsLike
        <4> QED BY <4>5 DEF PrintsLike
      <3> QED BY <1>13, <3>2, <3>3
    <2> QED BY <2>1, <2>2
  <1> QED BY <1>12, <1>17

-----------------------------------------------------------------------------
(* What is printed is read again.                                          *)

LEMMA PrintedIsText ==
  ASSUME NEW s \in Seq(Words), NEW r, HasParts(s, r)
  PROVE  /\ String(r) \in Seq(Words)
         /\ r.host # AnyHost => String(r) # << >> /\ String(r)[1] = r.host[1]
  <1> DEFINE sep == Separator(r.ref)
             t   == PathAndRef(r.path, sep, r.ref)
  <1>1. /\ sep \in Words /\ r.path \in Seq(Words) /\ r.ref \in Seq(Words)
        /\ r.host \in Seq(Words)
    BY LiteralWords DEF HasParts
  <1>2. t \in Seq(Words)
    <2> HIDE DEF sep
    <2>1. IsJoin(t, Len(r.path) + 1, r.path, sep, r.ref)
      BY <1>1, Joined DEF PathAndRef
    <2> QED BY <2>1 DEF IsJoin
  <1> HIDE DEF t
  <1>3. String(r) = IF r.host = AnyHost THEN t ELSE r.host \o <<"/">> \o t
    BY StringIsPrinted DEF Printed, t
  <1>4. IsJoin(r.host \o <<"/">> \o t, Len(r.host) + 1, r.host, "/", t)
    BY <1>1, <1>2, LiteralWords, Joined
  <1>5. String(r) \in Seq(Words)
    BY <1>2, <1>3, <1>4 DEF IsJoin
  <1>6. r.host # AnyHost => String(r) # << >> /\ String(r)[1] = r.host[1]
    <2> SUFFICES ASSUME r.host # AnyHost
                 PROVE  String(r) # << >> /\ String(r)[1] = r.host[1]
      OBVIOUS
    <2>1. IsJoin(String(r), Len(r.host) + 1, r.host, "/", t)
      BY <1>3, <1>4
    <2>2. 1 \in 1 .. Len(r.host)
      BY <1>1 DEF AnyHost
    <2>3. String(r)[1] = r.host[1] /\ Len(r.host) + 1 \in 1 .. Len(String(r))
      BY <2>1, <2>2 DEF IsJoin
    <2> QED BY <1>5, <2>3
  <1> QED BY <1>5, <1>6

LEMMA PrintedIsSingle ==
  ASSUME NEW s \in Seq(Words), NEW r, HasParts(s, r), PrintsLike(s, r)
  PROVE  ~Doubled(String(r))
  <1>1. ~Doubled(s) /\ String(r) \in Seq(Words)
    BY PrintedIsText DEF HasParts
  <1>2. CASE String(r) = s
    BY <1>1, <1>2
  <1>3. ASSUME NEW k, StartsLike(s, r, k) PROVE ~Doubled(String(r))
    BY <1>1, <1>3, StillSingle DEF StartsLike
  <1> QED BY <1>2, <1>3 DEF PrintsLike

LEMMA PrintedIsRead ==
  ASSUME NEW s \in Seq(Words), NEW r \in Parse(s), ~LikeDigest(r.ref)
  PROVE  Parse(String(r)) = {r}
  <1> DEFINE u == String(r)
             sep == Separator(r.ref)
  <1>1. HasParts(s, r) /\ PrintsLike(s, r)
    BY ReadParts
  <1>2. CASE u = s
    BY <1>2, ParseIs
  <1>3. ASSUME NEW k, StartsLike(s, r, k)
        PROVE  Parse(u) = {r}
    <2>0. Alike(s, u, k)
      BY <1>3 DEF StartsLike
    <2>1. u = Printed(r.host, r.path, sep, r.ref)
      BY StringIsPrinted
    <2>2. u \in Seq(Words)
      BY <1>1, PrintedIsText
    <2>3. ~Doubled(u)
      BY <1>1, PrintedIsSingle
    <2> HIDE DEF u
    <2>4. Has(u, "/") => (IsLayout(s) <=> IsLayout(u)) /\ Has(s, "/")
      <3> SUFFICES ASSUME Has(u, "/") PROVE (IsLayout(s) <=> IsLayout(u)) /\ Has(s, "/")
        OBVIOUS
      <3>1. Has(s, "/") /\ Upto(s, "/") = Upto(u, "/")
        BY <2>0, <2>2, AlikeFirst
      <3>2. s[1] = u[1] /\ s # << >> /\ u # << >>
        <4>1. 1 \in 1 .. k /\ 1 <= Len(s) /\ 1 <= Len(u)
          BY <2>0 DEF Alike
        <4> QED BY <2>0, <4>1 DEF Alike
      <3> QED BY <2>2, <3>1, <3>2, SameClass
    <2>5. r.host # AnyHost => Has(u, "/")
      <3> SUFFICES ASSUME r.host # AnyHost PROVE Has(u, "/")
        OBVIOUS
      <3>1. r.host \in Seq(Words)
        BY <1>1 DEF HasParts
      <3> DEFINE m == Len(r.host) + 1
      <3>2. k > Len(r.host) /\ IsJoin(s, m, r.host, "/", RestOf(TRUE, s))
        BY <1>3 DEF StartsLike
      <3>3. m \in 1 .. Len(u) /\ u[m] = "/"
        <4>1. m \in 1 .. k
          BY <2>0, <3>1, <3>2 DEF Alike
        <4> HIDE DEF m
        <4>2. s[m] = "/"
          BY <3>2 DEF IsJoin
        <4> QED BY <2>0, <2>2, <4>1, <4>2 DEF Alike
      <3> HIDE DEF m
      <3> QED BY <2>2, <3>3, HasMark
    <2>6. /\ r.host # AnyHost => ~IsLayout(u)
          /\ r.host = AnyHost => ~(~IsLayout(u) /\ Has(u, "/"))
      BY <1>1, <2>4, <2>5 DEF HasParts
    <2>7. Cuts(~IsLayout(u), u, FALSE) = {<<Reference(r.host, r.path, r.ref), << >>>>}
      <3>0. PICK R \in BOOLEAN : R = ~IsLayout(u)
        BY DEF IsLayout
      <3>1. /\ r.host # AnyHost => R
            /\ r.host = AnyHost => ~(R /\ Has(u, "/"))
        BY <2>6, <3>0
      <3> HIDE DEF sep
      <3>2. /\ r.host \in Seq(Words) /\ r.path \in Seq(Words) /\ r.ref \in Seq(Words)
            /\ Free(r.host, {"/"}) /\ Free(r.path, {":", "@"})
            /\ r.path # << >> /\ Last(r.path) # "/"
            /\ sep \in {":", "@"} /\ (sep = "@" => r.ref = Digest)
        BY <1>1 DEF HasParts, sep
      <3>3. Prints(u, R, r.host, r.path, sep, r.ref) /\ Acceptable(u, r.path, sep, r.ref)
        BY <2>1, <2>3, <3>1, <3>2 DEF Prints, Acceptable
      <3>4. Cuts(R, u, FALSE) = {<<Reference(r.host, r.path, r.ref), << >>>>}
        <4>1. IsCutInto(u, R, r.host, r.path, r.ref)
          BY <3>3, PrintedAccepted
        <4> QED BY <4>1 DEF IsCutInto
      <3> QED BY <3>0, <3>4
    <2>8. <<Reference(r.host, r.path, r.ref), << >>>>[1] = r
      BY <1>1 DEF HasParts
    <2> QED BY <2>7, <2>8 DEF Parse
  <1>4. u = s \/ \E k : StartsLike(s, r, k)
    BY <1>1 DEF PrintsLike
  <1> HIDE DEF u
  <1>5. ASSUME NEW k, StartsLike(s, r, k) PROVE Parse(u) = {r}
    BY <1>3, <1>5 DEF u
  <1>6. ASSUME \E k : StartsLike(s, r, k) PROVE Parse(u) = {r}
    <2>1. PICK k : StartsLike(s, r, k)
      BY <1>6
    <2> QED BY <1>5, <2>1, Zenon
  <1>7. Parse(u) = {r}
    BY <1>2, <1>4, <1>6 DEF u
  <1> QED BY <1>7 DEF u

-----------------------------------------------------------------------------
(* A file behind a printed reference.                                      *)

LEMMA DoubledJoin ==
  ASSUME NEW v, NEW n, NEW a \in Seq(Words), NEW b \in Seq(Words), NEW w, w # "/",
         IsJoin(v, n, a, w, b)
  PROVE  Doubled(v) <=> Doubled(a) \/ Doubled(b)
  <1>1. PICK x \in Nat : x = Len(a)
    OBVIOUS
  <1>2. PICK y \in Nat : y = Len(b)
    OBVIOUS
  <1>3. /\ Len(v) = x + 1 + y /\ n = x + 1 /\ v[n] = w
        /\ \A i \in 1 .. x : v[i] = a[i]
        /\ \A i \in 1 .. y : v[n + i] = b[i]
    BY <1>1, <1>2 DEF IsJoin
  <1>4. ASSUME Doubled(a) PROVE Doubled(v)
    <2>1. PICK i \in 1 .. x - 1 : a[i] = "/" /\ a[i + 1] = "/"
      BY <1>1, <1>4 DEF Doubled
    <2>2. i \in 1 .. x /\ i + 1 \in 1 .. x /\ i \in 1 .. Len(v) - 1
      BY <1>1, <1>2, <1>3
    <2> QED BY <1>3, <2>1, <2>2 DEF Doubled
  <1>5. ASSUME Doubled(b) PROVE Doubled(v)
    <2>1. PICK i \in 1 .. y - 1 : b[i] = "/" /\ b[i + 1] = "/"
      BY <1>2, <1>5 DEF Doubled
    <2>2. i \in 1 .. y /\ i + 1 \in 1 .. y
      OBVIOUS
    <2>3. n + i \in 1 .. Len(v) - 1 /\ n + (i + 1) = (n + i) + 1
      BY <1>3, <2>2
    <2>4. v[n + i] = "/" /\ v[n + (i + 1)] = "/"
      BY <1>3, <2>1, <2>2
    <2>5. v[(n + i) + 1] = "/"
      BY <2>3, <2>4
    <2> QED BY <2>3, <2>4, <2>5 DEF Doubled
  <1>6. ASSUME Doubled(v) PROVE Doubled(a) \/ Doubled(b)
    <2>1. PICK i \in 1 .. Len(v) - 1 : v[i] = "/" /\ v[i + 1] = "/"
      BY <1>6 DEF Doubled
    <2>2. i # n /\ i + 1 # n
      BY <1>3, <2>1
    <2>3. CASE i < n
      <3>1. i \in 1 .. x - 1 /\ i \in 1 .. x /\ i + 1 \in 1 .. x
        BY <1>3, <2>2, <2>3
      <3>2. a[i] = "/" /\ a[i + 1] = "/"
        BY <1>3, <2>1, <3>1
      <3> QED BY <1>1, <3>1, <3>2 DEF Doubled
    <2>4. CASE i > n
      <3>1. PICK j \in 1 .. y - 1 : i = n + j
        <4>1. i - n \in 1 .. y - 1 /\ i = n + (i - n)
          BY <1>3, <2>4
        <4> QED BY <4>1
      <3>2. j \in 1 .. y /\ j + 1 \in 1 .. y /\ i + 1 = n + (j + 1)
        BY <1>3, <3>1
      <3>3. b[j] = "/" /\ b[j + 1] = "/"
        BY <1>3, <2>1, <3>1, <3>2
      <3> QED BY <1>2, <3>1, <3>3 DEF Doubled
    <2> QED BY <1>3, <2>2, <2>3, <2>4
  <1> QED BY <1>4, <1>5, <1>6

(* The colon a file is cut off at is the one put before it, not the one a  *)
(* digest has.                                                             *)
ColonFound(ref, sep, long, f) ==
  LET skip  == DigestColon(long, sep = "@")
      colon == At(After(long, skip), {":"})
  IN  /\ sep \in {":", "@"} /\ (sep = "@" => ref = Digest) /\ ~LikeDigest(ref)
      /\ long \in Seq(Words)
      /\ colon # 0 /\ Before(long, skip + colon) = ref /\ After(long, skip + colon) = f

LEMMA FileColon ==
  ASSUME NEW ref \in Seq(Words), PlainRef(ref), NEW f \in Seq(Words)
  PROVE  ColonFound(ref, Separator(ref), ref \o <<":">> \o f, f)
  <1> DEFINE sep   == Separator(ref)
             long  == ref \o <<":">> \o f
             skip  == DigestColon(long, sep = "@")
             colon == At(After(long, skip), {":"})
  <1>1. IsJoin(long, Len(ref) + 1, ref, ":", f)
    BY LiteralWords, Joined
  <1>2. Len(f) \in Nat
    OBVIOUS
  <1> DEFINE Found == /\ sep \in {":", "@"} /\ (sep = "@" => ref = Digest) /\ ~LikeDigest(ref)
                      /\ long \in Seq(Words) /\ colon # 0
                      /\ Before(long, skip + colon) = ref /\ After(long, skip + colon) = f
  <1> HIDE DEF long, skip, colon
  <1>3. ASSUME ref = Digest PROVE Found
    <2>1. sep = "@" /\ ~LikeDigest(ref)
      BY <1>3, DigestIsOne DEF Separator, LikeDigest
    <2>2. /\ long \in Seq(Words) /\ Len(long) = 4 + Len(f)
          /\ long[1] = "sha256" /\ long[2] = ":" /\ long[3] = "hex" /\ long[4] = ":"
          /\ Before(long, 4) = ref /\ After(long, 4) = f
      BY <1>1, <1>3, LiteralWords DEF IsJoin
    <2>3. skip = 2
      <3>1. 2 \in 1 .. Len(long) /\ long[2] \in {":"} /\ \A i \in 1 .. 2 - 1 : long[i] \notin {":"}
        <4>1. \A i \in 1 .. 2 - 1 : i = 1
          OBVIOUS
        <4> QED BY <1>2, <2>2, <4>1
      <3>2. At(long, {":"}) = 2
        BY <2>2, <3>1, FirstMarkIs
      <3> QED BY <2>1, <3>2 DEF DigestColon, skip
    <2>4. colon = 2
      <3> DEFINE rest == After(long, 2)
      <3>1. IsCut(long, 2, Before(long, 2), rest)
        <4>1. 2 \in 1 .. Len(long)
          BY <1>2, <2>2
        <4> QED BY <2>2, <4>1, Around
      <3> HIDE DEF rest
      <3>2. /\ rest \in Seq(Words) /\ Len(rest) = Len(long) - 2
            /\ \A i \in 1 .. Len(long) - 2 : rest[i] = long[2 + i]
        BY <3>1 DEF IsCut
      <3>3. 1 \in 1 .. Len(long) - 2 /\ 2 \in 1 .. Len(long) - 2
        BY <1>2, <2>2
      <3>4. rest[1] = "hex" /\ rest[2] = ":"
        <4>1. rest[1] = long[2 + 1] /\ rest[2] = long[2 + 2]
          BY <3>2, <3>3
        <4> QED BY <2>2, <4>1
      <3>5. \A i \in 1 .. 2 - 1 : rest[i] \notin {":"}
        <4>1. \A i \in 1 .. 2 - 1 : i = 1
          OBVIOUS
        <4> QED BY <3>4, <4>1
      <3>6. 2 \in 1 .. Len(rest) /\ rest[2] \in {":"}
        BY <3>2, <3>3, <3>4
      <3>7. At(rest, {":"}) = 2
        BY <3>2, <3>5, <3>6, FirstMarkIs
      <3> QED BY <2>3, <3>7 DEF rest, colon
    <2> QED BY <1>3, <2>1, <2>2, <2>3, <2>4
  <1>4. ASSUME ref # Digest PROVE Found
    <2>1. Len(ref) = 1 /\ ref[1] \notin {":", "@"}
      BY <1>4 DEF PlainRef
    <2>2. ~IsDigest(ref)
      BY <2>1, LiteralWords DEF IsDigest, IsPrefix
    <2>3. sep = ":" /\ ~LikeDigest(ref)
      BY <2>2 DEF Separator, LikeDigest, IsDigest
    <2>4. /\ long \in Seq(Words) /\ Len(long) = 2 + Len(f)
          /\ long[1] = ref[1] /\ long[2] = ":"
          /\ Before(long, 2) = ref /\ After(long, 2) = f
      BY <1>1, <2>1 DEF IsJoin
    <2>5. skip = 0
      BY <2>3 DEF DigestColon, skip
    <2>6. After(long, 0) = long
      <3>1. SubSeq(long, 1, Len(long)) = long
        BY <2>4, SubSeqFull
      <3> QED BY <3>1 DEF After
    <2>7. colon = 2
      <3>1. 2 \in 1 .. Len(long) /\ long[2] \in {":"} /\ \A i \in 1 .. 2 - 1 : long[i] \notin {":"}
        <4>1. \A i \in 1 .. 2 - 1 : i = 1
          OBVIOUS
        <4> QED BY <1>2, <2>1, <2>4, <4>1
      <3>2. At(long, {":"}) = 2
        BY <2>4, <3>1, FirstMarkIs
      <3> QED BY <2>5, <2>6, <3>2 DEF colon
    <2> QED BY <2>3, <2>4, <2>5, <2>7
  <1>5. ColonFound(ref, sep, long, f)
    BY <1>3, <1>4 DEF ColonFound, skip, colon
  <1> QED BY <1>5 DEF long

Regroups(a, b, c) == (a \o b) \o c = a \o (b \o c)

LEMMA Regrouped ==
  ASSUME NEW a \in Seq(Words), NEW b \in Seq(Words), NEW c \in Seq(Words)
  PROVE  Regroups(a, b, c)
  BY ConcatAssociative DEF Regroups

(* The text with the file is the printed reference of a longer tag.        *)
GoesOn(host, path, sep, ref, f) ==
  Printed(host, path, sep, ref) \o <<":">> \o f = Printed(host, path, sep, ref \o <<":">> \o f)

LEMMA FileIsPrinted ==
  ASSUME NEW host \in Seq(Words), NEW path \in Seq(Words), NEW sep \in Words,
         NEW ref \in Seq(Words), NEW f \in Seq(Words)
  PROVE  GoesOn(host, path, sep, ref, f)
  <1> DEFINE c == <<":">> \o f
             t == PathAndRef(path, sep, ref)
             p == path \o <<sep>>
             h == host \o <<"/">>
  <1>1. <<":">> \in Seq(Words) /\ <<sep>> \in Seq(Words) /\ <<"/">> \in Seq(Words)
    BY LiteralWords
  <1>2. c \in Seq(Words) /\ p \in Seq(Words) /\ h \in Seq(Words)
    BY <1>1, ConcatProperties
  <1>3. t \in Seq(Words)
    BY <1>2, ConcatProperties DEF PathAndRef
  <1>4. ref \o <<":">> \o f = ref \o c
    <2>1. Regroups(ref, <<":">>, f)
      BY <1>1, Regrouped
    <2> QED BY <2>1 DEF Regroups
  <1>5. t \o c = PathAndRef(path, sep, ref \o c)
    <2>1. Regroups(p, ref, c)
      <3> HIDE DEF p, c
      <3> QED BY <1>2, Regrouped
    <2> HIDE DEF c
    <2> QED BY <2>1 DEF PathAndRef, Regroups
  <1>6. (h \o t) \o c = h \o (t \o c)
    <2> HIDE DEF h, t, c
    <2>1. Regroups(h, t, c)
      BY <1>2, <1>3, Regrouped
    <2> QED BY <2>1 DEF Regroups
  <1>7. Printed(host, path, sep, ref) \in Seq(Words)
    <2>1. h \o t \in Seq(Words)
      <3> HIDE DEF h, t
      <3> QED BY <1>2, <1>3, ConcatProperties
    <2> QED BY <1>3, <2>1 DEF Printed
  <1>8. Printed(host, path, sep, ref) \o <<":">> \o f = Printed(host, path, sep, ref) \o c
    <2> DEFINE u == Printed(host, path, sep, ref)
    <2> HIDE DEF u
    <2>1. u \in Seq(Words)
      BY <1>7 DEF u
    <2>2. Regroups(u, <<":">>, f)
      BY <1>1, <2>1, Regrouped
    <2> QED BY <2>2 DEF u, Regroups
  <1>9. Printed(host, path, sep, ref) = IF host = AnyHost THEN t ELSE h \o t
    BY DEF Printed
  <1>10. Printed(host, path, sep, ref \o c)
           = IF host = AnyHost THEN PathAndRef(path, sep, ref \o c)
                               ELSE h \o PathAndRef(path, sep, ref \o c)
    BY DEF Printed
  <1> HIDE DEF c, t, p, h
  <1> QED BY <1>4, <1>5, <1>6, <1>8, <1>9, <1>10 DEF GoesOn

IsCutWithFile(v, cut) ==
  /\ Has(v, "/") /\ Upto(v, "/") = cut[1].host
  /\ Cuts(TRUE, v, TRUE) = IF Doubled(v) THEN {} ELSE {cut}

LEMMA FileIsCut ==
  ASSUME NEW u, NEW host, NEW path, NEW ref, NEW f \in Seq(Words),
         Prints(u, TRUE, host, path, Separator(ref), ref), host # AnyHost,
         Acceptable(u, path, Separator(ref), ref), PlainRef(ref)
  PROVE  IsCutWithFile(u \o <<":">> \o f, <<Reference(host, path, ref), f>>)
  <1> DEFINE sep   == Separator(ref)
             v     == u \o <<":">> \o f
             long  == ref \o <<":">> \o f
             skip  == DigestColon(long, sep = "@")
             colon == At(After(long, skip), {":"})
             t     == PathAndRef(path, sep, long)
             n     == Len(path) + 1
             c     == <<Reference(host, path, ref), f>>
  <1>0. ref \in Seq(Words)
    BY DEF Prints
  <1>1. /\ sep \in {":", "@"} /\ (sep = "@" => ref = Digest)
        /\ long \in Seq(Words)
        /\ colon # 0 /\ Before(long, skip + colon) = ref /\ After(long, skip + colon) = f
    <2>1. ColonFound(ref, sep, long, f)
      BY <1>0, FileColon
    <2> HIDE DEF sep, long
    <2> QED BY <2>1 DEF ColonFound
  <1>2. v = Printed(host, path, sep, long)
    <2>1. sep \in Words
      BY <1>1, LiteralWords
    <2>2. host \in Seq(Words) /\ path \in Seq(Words) /\ u = Printed(host, path, sep, ref)
      BY DEF Prints
    <2> HIDE DEF sep
    <2>3. GoesOn(host, path, sep, ref, f)
      BY <1>0, <2>1, <2>2, FileIsPrinted
    <2> QED BY <2>2, <2>3 DEF GoesOn
  <1> HIDE DEF long, sep, v
  <1>3. Prints(v, TRUE, host, path, sep, long)
    BY <1>1, <1>2 DEF Prints
  <1>4. /\ TRUE /\ Has(v, "/") <=> host # AnyHost
        /\ HostOf(TRUE, v) = host /\ RestOf(TRUE, v) = t
        /\ At(t, {"@", ":"}) = n /\ t[n] = sep /\ n # 0
        /\ Before(t, n) = path /\ After(t, n) = long
    <2>1. FallsApart(v, TRUE, host, path, sep, long)
      BY <1>3, CutOfPrinted
    <2> QED BY <2>1 DEF FallsApart
  <1> HIDE DEF t, n
  <1>5. Cut(TRUE, v, TRUE) = c
    BY <1>1, <1>4 DEF Cut
  <1>6. c[1].host = host /\ c[1].path = path /\ c[1].ref = ref
    BY DEF Reference
  <1> HIDE DEF c
  <1>7. Accepted(TRUE, v, c) <=> ~Doubled(v)
    BY <1>1, <1>4, <1>6 DEF Accepted, Acceptable
  <1>8. Has(v, "/") /\ Upto(v, "/") = c[1].host
    BY <1>4, <1>6 DEF HostOf
  <1>9. IsCutWithFile(v, c)
    BY <1>5, <1>7, <1>8 DEF Cuts, IsCutWithFile
  <1> QED BY <1>9 DEF c, v

ReadsFile(r, f) ==
  ParseFile(String(r) \o <<":">> \o f) =
    IF Inside(f) /\ ~Doubled(f) THEN {<<r, Clean(f)>>} ELSE {}

LEMMA FileIsRead ==
  ASSUME NEW s \in Seq(Words), NEW r \in Parse(s), r.host # AnyHost, PlainRef(r.ref),
         NEW f \in Seq(Words)
  PROVE  ReadsFile(r, f)
  <1> DEFINE u == String(r)
             v == u \o <<":">> \o f
             c == <<r, f>>
  <1>1. ~LikeDigest(r.ref)
    BY LiteralWords DEF PlainRef, LikeDigest, IsPrefix
  <1>2. HasParts(s, r) /\ PrintsLike(s, r)
    BY <1>1, ReadParts
  <1>3. /\ u \in Seq(Words) /\ u # << >> /\ u[1] = r.host[1] /\ ~Doubled(u)
    BY <1>2, PrintedIsText, PrintedIsSingle
  <1>4. u = Printed(r.host, r.path, Separator(r.ref), r.ref)
    BY StringIsPrinted
  <1> HIDE DEF u
  <1>5. Prints(u, TRUE, r.host, r.path, Separator(r.ref), r.ref)
    BY <1>2, <1>4 DEF HasParts, Prints
  <1>6. Acceptable(u, r.path, Separator(r.ref), r.ref)
    BY <1>2, <1>3 DEF HasParts, Acceptable
  <1>7. IsCutWithFile(v, <<Reference(r.host, r.path, r.ref), f>>)
    BY <1>5, <1>6, FileIsCut
  <1>8. Reference(r.host, r.path, r.ref) = r
    BY <1>2 DEF HasParts
  <1>9. IsJoin(v, Len(u) + 1, u, ":", f)
    BY <1>3, LiteralWords, Joined
  <1> HIDE DEF v
  <1>10. /\ Has(v, "/") /\ Upto(v, "/") = r.host
         /\ Cuts(TRUE, v, TRUE) = IF Doubled(v) THEN {} ELSE {c}
    BY <1>7, <1>8 DEF IsCutWithFile
  <1>11. Doubled(v) <=> Doubled(f)
    BY <1>3, <1>9, DoubledJoin
  <1>12. ~IsLayout(v)
    <2>1. v \in Seq(Words) /\ v # << >> /\ v[1] = u[1]
      <3>1. 1 \in 1 .. Len(u)
        BY <1>3
      <3>2. v \in Seq(Words) /\ v[1] = u[1] /\ Len(u) + 1 \in 1 .. Len(v)
        BY <1>9, <3>1 DEF IsJoin
      <3> QED BY <3>2
    <2>2. /\ ~IsLayout(s) /\ Has(s, "/") /\ Upto(s, "/") = r.host
          /\ s # << >> /\ s[1] = r.host[1]
      BY <1>2 DEF HasParts
    <2> QED BY <1>3, <1>10, <2>1, <2>2, SameClass
  <1>13. ParseFile(v) = IF Inside(f) /\ ~Doubled(f) THEN {<<r, Clean(f)>>} ELSE {}
    <2>1. c[1] = r /\ c[2] = f
      OBVIOUS
    <2> HIDE DEF c
    <2>2. ParseFile(v) = {<<cut[1], Clean(cut[2])>> :
                           cut \in {x \in Cuts(TRUE, v, TRUE) : x[1].host # AnyHost /\ Inside(x[2])}}
      BY <1>12 DEF ParseFile
    <2>3. CASE Doubled(f)
      BY <1>10, <1>11, <2>2, <2>3
    <2>4. CASE ~Doubled(f) /\ Inside(f)
      BY <1>10, <1>11, <2>1, <2>2, <2>4
    <2>5. CASE ~Doubled(f) /\ ~Inside(f)
      BY <1>10, <1>11, <2>1, <2>2, <2>5
    <2> QED BY <2>3, <2>4, <2>5
  <1> QED BY <1>13 DEF ReadsFile, v, u

-----------------------------------------------------------------------------
(* An item behind its registry's host.                                     *)

ReadInRegistry(s, r) ==
  Parse(Registry.host \o <<"/">> \o s) = {Merge(Registry, r)}

HasFields(r, h, p, f) == r.host = h /\ r.path = p /\ r.ref = f

LEMMA Fields ==
  ASSUME NEW h, NEW p, NEW f
  PROVE  HasFields(Reference(h, p, f), h, p, f)
  BY DEF Reference, HasFields

LEMMA Replaced ==
  ASSUME NEW h, NEW p, NEW f, NEW q, NEW g,
         NEW r, r = [Reference(h, q, g) EXCEPT !.path = p, !.ref = f]
  PROVE  r = Reference(h, p, f)
  <1>1. r = Reference(r.host, r.path, r.ref)
    BY DEF Reference
  <1>2. HasFields(r, h, p, f)
    BY DEF Reference, HasFields
  <1> QED BY <1>1, <1>2 DEF HasFields

LEMMA ItemIsRead ==
  ASSUME NEW s \in Seq(Words), NEW r \in ParseItem(s)
  PROVE  ReadInRegistry(s, r)
  <1> DEFINE host == <<"localhost">>
             v    == host \o <<"/">> \o s
             i    == At(s, {"@", ":"})
             c    == Cut(FALSE, s, FALSE)
             d    == Cut(TRUE, v, FALSE)
  <1>1. s # << >> /\ FormOfItem(s) = "bare" /\ Accepted(FALSE, s, c) /\ r = c[1]
    BY DEF ParseItem, RepositoryOf, Cuts
  <1>2. IsJoin(v, Len(host) + 1, host, "/", s) /\ Len(host) = 1 /\ host[1] = "localhost"
        /\ host \in Seq(Words)
    BY LiteralWords, Joined
  <1> HIDE DEF host, v
  <1>3. /\ v \in Seq(Words) /\ v # << >> /\ 2 \in 1 .. Len(v)
        /\ v[1] = "localhost" /\ v[2] = "/"
        /\ Before(v, 2) = host /\ After(v, 2) = s
    <2>1. 1 \in 1 .. Len(host)
      BY <1>2
    <2> QED BY <1>2, <2>1 DEF IsJoin
  <1>4. At(v, {"/"}) = 2
    <2>1. v[2] \in {"/"} /\ \A j \in 1 .. 2 - 1 : v[j] \notin {"/"}
      <3>1. \A j \in 1 .. 2 - 1 : j = 1
        OBVIOUS
      <3> QED BY <1>3, <3>1
    <2> QED BY <1>3, <2>1, FirstMarkIs
  <1>5. Has(v, "/") /\ Upto(v, "/") = host /\ HostOf(TRUE, v) = host /\ RestOf(TRUE, v) = s
    BY <1>3, <1>4 DEF Has, Upto, HostOf, RestOf
  <1>6. ~IsLayout(v)
    <2>1. ~Has(host, ":")
      <3>1. \A j \in 1 .. Len(host) : host[j] # ":"
        BY <1>2
      <3> QED BY <1>2, <3>1, HasMark
    <2>2. Classify(v) = "registry"
      BY <1>3, <1>5, <2>1 DEF Classify, host
    <2> QED BY <2>2 DEF IsLayout
  <1>7. s[1] # "/"
    <2> SUFFICES ASSUME s[1] = "/" PROVE FALSE
      OBVIOUS
    <2>1. Classify(s) = "layout"
      BY <1>1 DEF Classify
    <2> QED BY <1>1, <2>1 DEF FormOfItem
  <1>8. ~Doubled(v)
    <2> SUFFICES ASSUME NEW n \in 1 .. Len(v) - 1, v[n] = "/", v[n + 1] = "/" PROVE FALSE
      BY DEF Doubled
    <2>1. ~Doubled(s)
      BY <1>1 DEF Accepted
    <2>2. PICK l \in Nat : l = Len(s)
      OBVIOUS
    <2>3. Len(v) = 2 + l /\ \A j \in 1 .. l : v[2 + j] = s[j]
      BY <1>2, <2>2 DEF IsJoin
    <2>4. n # 1 /\ n > 1
      BY <1>3
    <2>5. n # 2
      <3>1. 1 \in 1 .. l
        BY <1>1, <2>2
      <3>2. v[3] = s[1]
        <4>1. v[2 + 1] = s[1]
          BY <2>3, <3>1
        <4> QED BY <4>1
      <3> QED BY <1>7, <3>2
    <2>6. PICK j \in 1 .. l - 1 : n = 2 + j
      <3>1. n - 2 \in 1 .. l - 1 /\ n = 2 + (n - 2)
        BY <2>3, <2>4, <2>5
      <3> QED BY <3>1
    <2>7. j \in 1 .. l /\ j + 1 \in 1 .. l /\ n + 1 = 2 + (j + 1)
      BY <2>6
    <2>8. s[j] = "/" /\ s[j + 1] = "/"
      BY <2>3, <2>6, <2>7
    <2> QED BY <2>1, <2>2, <2>8 DEF Doubled
  <1>9. HostOf(FALSE, s) = AnyHost /\ RestOf(FALSE, s) = s
    BY DEF HostOf, RestOf
  <1> HIDE DEF i
  <1>10. r = Reference(AnyHost, r.path, r.ref) /\ d[1] = Reference(host, r.path, r.ref)
    <2>1. CASE i = 0
      <3>1. c[1] = Reference(AnyHost, s, <<"latest">>) /\ d[1] = Reference(host, s, <<"latest">>)
        BY <1>5, <1>9, <2>1 DEF Cut, i
      <3>2. r = Reference(AnyHost, s, <<"latest">>)
        BY <1>1, <3>1
      <3>3. r.path = s /\ r.ref = <<"latest">>
        <4>1. HasFields(r, AnyHost, s, <<"latest">>)
          BY <3>2, Fields
        <4> QED BY <4>1 DEF HasFields
      <3> QED BY <3>1, <3>2, <3>3
    <2>2. CASE i # 0
      <3>1. /\ c[1] = Reference(AnyHost, Before(s, i), After(s, i))
            /\ d[1] = Reference(host, Before(s, i), After(s, i))
        BY <1>5, <1>9, <2>2 DEF Cut, i
      <3>2. r = Reference(AnyHost, Before(s, i), After(s, i))
        BY <1>1, <3>1
      <3>3. r.path = Before(s, i) /\ r.ref = After(s, i)
        <4>1. HasFields(r, AnyHost, Before(s, i), After(s, i))
          BY <3>2, Fields
        <4> QED BY <4>1 DEF HasFields
      <3> QED BY <3>1, <3>2, <3>3
    <2> QED BY <2>1, <2>2
  <1> HIDE DEF c, d
  <1>11. /\ r.path # << >> /\ Last(r.path) # "/"
         /\ (i # 0 /\ s[i] = "@") => r.ref = Digest
    BY <1>1, <1>9 DEF Accepted, i
  <1>12. d[1].host = host /\ d[1].path = r.path /\ d[1].ref = r.ref
    BY <1>10 DEF Reference
  <1>13. host # AnyHost
    BY <1>2, LiteralWords
  <1>14. Accepted(TRUE, v, d)
    BY <1>5, <1>8, <1>11, <1>12, <1>13 DEF Accepted, i
  <1>15. Merge(Registry, r) = Reference(host, r.path, r.ref)
    <2>1. Registry.ref = << >>
      BY DEF Registry, Reference
    <2>2. (IF r.ref = << >> THEN Registry.ref ELSE r.ref) = r.ref
      BY <2>1
    <2>3. (IF r.path = << >> THEN Registry.path ELSE r.path) = r.path
      BY <1>11
    <2> DEFINE R(p, f) == [Registry EXCEPT !.path = p, !.ref = f]
    <2>4. Merge(Registry, r) = R(IF r.path = << >> THEN Registry.path ELSE r.path,
                                 IF r.ref = << >> THEN Registry.ref ELSE r.ref)
      BY DEF Merge
    <2>5. R(r.path, r.ref) = Reference(host, r.path, r.ref)
      <3> DEFINE x == R(r.path, r.ref)
      <3>1. x = [Reference(host, << >>, << >>) EXCEPT !.path = r.path, !.ref = r.ref]
        BY DEF Registry, host
      <3> HIDE DEF x
      <3>2. x = Reference(host, r.path, r.ref)
        BY <3>1, Replaced
      <3> QED BY <3>2 DEF x
    <2> HIDE DEF R
    <2> QED BY <2>2, <2>3, <2>4, <2>5
  <1>16. Registry.host = host
    BY DEF Registry, Reference, host
  <1>17. Parse(v) = {d[1]}
    <2>1. (~IsLayout(v)) = TRUE
      BY <1>6 DEF IsLayout
    <2> QED BY <1>14, <2>1, ParseIs DEF d
  <1> QED BY <1>10, <1>15, <1>16, <1>17 DEF ReadInRegistry, v

-----------------------------------------------------------------------------
(* What has been read is what the text says.                               *)

ReadIsParsed ==
  /\ command.name = "read" => command.of \in Texts
  /\ command.name = "read" /\ output # NoOutput => output.read = Parse(command.of)

LEMMA CommandIsText ==
  ASSUME command \in ReadCommands
  PROVE  command.name = "read" /\ command.of \in Texts
  BY DEF ReadCommands, Command

LEMMA ReadIsParsedHolds == ReadSpec => []ReadIsParsed
  <1>1. ReadInit => ReadIsParsed
    BY CommandIsText DEF ReadInit, ReadIsParsed
  <1>2. ReadIsParsed /\ [RunRead \/ OtherCommand]_<<command, output>> => ReadIsParsed'
    <2> SUFFICES ASSUME ReadIsParsed, [RunRead \/ OtherCommand]_<<command, output>>
                 PROVE  ReadIsParsed'
      OBVIOUS
    <2>1. CASE RunRead
      BY <2>1 DEF ReadIsParsed, RunRead
    <2>2. CASE OtherCommand
      BY <2>2 DEF ReadIsParsed, OtherCommand
    <2>3. CASE UNCHANGED <<command, output>>
      BY <2>3 DEF ReadIsParsed
    <2> QED BY <2>1, <2>2, <2>3
  <1> QED BY <1>1, <1>2, PTL DEF ReadSpec

LEMMA ReadBackIsParsed ==
  ASSUME ReadIsParsed, NEW r \in ReadBack
  PROVE  command.of \in Seq(Words) /\ r \in Parse(command.of)
  <1>1. command.name = "read" /\ output # NoOutput /\ r \in output.read
    BY DEF ReadBack
  <1>2. command.of \in Texts /\ output.read = Parse(command.of)
    BY <1>1 DEF ReadIsParsed
  <1> QED BY <1>1, <1>2, TextWords

(* However a reference is written, what was read of it is read again when  *)
(* it is printed: Parse and String agree on every text.                    *)
THEOREM PrintedIsParsedHolds == ReadSpec => []PrintedIsParsed
  <1>1. ReadIsParsed => PrintedIsParsed
    <2> SUFFICES ASSUME ReadIsParsed, NEW r \in ReadBack, ~LikeDigest(r.ref)
                 PROVE  Parse(String(r)) = {r}
      BY DEF PrintedIsParsed
    <2> QED BY ReadBackIsParsed, PrintedIsRead
  <1> QED BY <1>1, ReadIsParsedHolds, PTL

(* Behind whatever was read of a registry, with a plain tag or a digest,   *)
(* ParseFile cuts off the path that was put there, and refuses the ones    *)
(* that leave the artifact or have an empty segment.                       *)
THEOREM FilesAreCutOffHolds == ReadSpec => []FilesAreCutOff
  <1>1. ReadIsParsed => FilesAreCutOff
    <2> SUFFICES ASSUME ReadIsParsed, NEW r \in ReadBack, NEW f \in FilePaths,
                        r.host # AnyHost, PlainRef(r.ref)
                 PROVE  ReadsFile(r, f)
      BY DEF FilesAreCutOff, ReadsFile
    <2>1. f \in Seq(Words)
      BY TextWords
    <2> QED BY <2>1, ReadBackIsParsed, FileIsRead
  <1> QED BY <1>1, ReadIsParsedHolds, PTL

(* Whatever ParseItem takes for a repository of the registry is that       *)
(* repository, with that tag, when it is read behind the registry's host.  *)
THEOREM ItemsStayInTheRegistryHolds == ReadSpec => []ItemsStayInTheRegistry
  <1>1. ReadIsParsed => ItemsStayInTheRegistry
    <2> SUFFICES ASSUME ReadIsParsed, command.name = "read", NEW r \in ParseItem(command.of)
                 PROVE  ReadInRegistry(command.of, r)
      BY DEF ItemsStayInTheRegistry, ReadInRegistry
    <2>1. command.of \in Seq(Words)
      BY TextWords DEF ReadIsParsed
    <2> QED BY <2>1, ItemIsRead
  <1> QED BY <1>1, ReadIsParsedHolds, PTL

-----------------------------------------------------------------------------
(* The proxy.                                                              *)

(* What the cache keeps for a tag has been offered by that tag.            *)
CacheIsRight ==
  \A k \in DOMAIN cache :
    \E t \in Tags : k = Key(t, NoPlatform, cache[k].title) /\ cache[k] \in SoFar(t, NoPlatform)

(* A request has read, found and answered only what its tag has offered.   *)
Wanted(c) == SoFar(asked[c].tag, asked[c].platform)
Right(c, l) == l.title = asked[c].title /\ l \in Wanted(c)
RequestIsRight(c) ==
  /\ pc[c] \in {"resolve", "read"} => found[c] = NoLayer
  /\ pc[c] = "store" => todo[c] \in Seq(Wanted(c))
  /\ pc[c] = "store" => found[c] = NoLayer \/ Right(c, found[c])
  /\ pc[c] = "serve" => Right(c, found[c])
  /\ pc[c] = "done" /\ answer[c].status = 200 => Right(c, answer[c].layer)

ProxyInvariant == TypeOK /\ CacheIsRight /\ \A c \in Clients : RequestIsRight(c)

-----------------------------------------------------------------------------
LEMMA SeqOfMore ==
  ASSUME NEW A, NEW B, A \subseteq B, NEW s \in Seq(A)
  PROVE  s \in Seq(B)
OBVIOUS

(* Each version so far has contributed what it offers.                     *)
LEMMA OfferedSoFar ==
  ASSUME TypeOK, NEW t \in Tags, NEW p, NEW n \in 1 .. now[t]
  PROVE  Offered(fetcher, History[t][n], p) \subseteq SoFar(t, p)
BY DEF SoFar

(* A tag offers no less when it moves.                                     *)
Later == fetcher' = fetcher /\ \A t \in Tags : now'[t] \in Nat /\ now[t] \in Nat /\ now[t] <= now'[t]
LEMMA MoreLater ==
  ASSUME Later, NEW t \in Tags, NEW p
  PROVE  SoFar(t, p) \subseteq SoFar(t, p)'
<1>1. 1 .. now[t] \subseteq 1 .. now'[t]
  BY DEF Later
<1> QED BY <1>1 DEF SoFar, Later

(* What there is for a platform is there for who asks for none.            *)
LEMMA MoreForNone ==
  ASSUME TypeOK, NEW q \in Questions
  PROVE  SoFar(q.tag, q.platform) \subseteq SoFar(q.tag, NoPlatform)
<1>1. q.tag \in Tags
  BY ProxyAssumption
<1>2. 1 .. now[q.tag] \subseteq DOMAIN History[q.tag]
  BY <1>1, ProxyAssumption DEF TypeOK
<1>3. \A n \in 1 .. now[q.tag] :
        Offered(fetcher, History[q.tag][n], q.platform) \subseteq Offered(fetcher, History[q.tag][n], NoPlatform)
  BY <1>1, <1>2, FetcherAssumption DEF TypeOK
<1> QED BY <1>3 DEF SoFar

(* A request that takes no step stays right.                               *)
Rests(c) == /\ pc'[c] = pc[c] /\ asked'[c] = asked[c] /\ todo'[c] = todo[c]
            /\ found'[c] = found[c] /\ answer'[c] = answer[c]
LEMMA RestingIsRight ==
  ASSUME TypeOK, Later, NEW c \in Clients, Rests(c), RequestIsRight(c)
  PROVE  RequestIsRight(c)'
<1>1. CASE pc[c] = "idle"
  BY <1>1 DEF RequestIsRight, Rests
<1>2. CASE pc[c] # "idle"
  <2>1. asked[c].tag \in Tags
    BY <1>2, ProxyAssumption DEF TypeOK
  <2>2. SoFar(asked[c].tag, asked[c].platform) \subseteq SoFar(asked[c].tag, asked[c].platform)'
    <3>1. \A p : SoFar(asked[c].tag, p) \subseteq UNION {Offered(fetcher', History[asked[c].tag][n], p) : n \in 1 .. now'[asked[c].tag]}
      BY <2>1, MoreLater DEF SoFar
    <3> QED BY <3>1 DEF SoFar, Rests
  <2>3. Wanted(c) \subseteq Wanted(c)'
    BY <2>2 DEF Wanted
  <2>4. \A l : Right(c, l) => l.title = asked'[c].title /\ l \in Wanted(c)'
    BY <2>3 DEF Right, Rests
  <2>5. todo[c] \in Seq(Wanted(c)) => todo'[c] \in Seq(Wanted(c)')
    BY <2>3, SeqOfMore DEF Rests
  <2> QED BY <2>4, <2>5 DEF RequestIsRight, Rests, Right
<1> QED BY <1>1, <1>2

-----------------------------------------------------------------------------
LEMMA InitIsRight == Init => ProxyInvariant
<1> SUFFICES ASSUME Init PROVE ProxyInvariant
  OBVIOUS
<1>1. TypeOK
  BY ProxyAssumption DEF Init, TypeOK
<1>2. CacheIsRight
  BY DEF Init, CacheIsRight
<1>3. \A c \in Clients : RequestIsRight(c)
  BY DEF Init, RequestIsRight
<1> QED BY <1>1, <1>2, <1>3 DEF ProxyInvariant

(* What every step of one request leaves as it is.                         *)
OneSteps(c) == /\ UNCHANGED <<fetcher, now>>
               /\ \A d \in Clients : d # c => Rests(d)
LEMMA RequestSteps ==
  ASSUME TypeOK, NEW c \in Clients,
         (\E q \in Questions : Receive(c, q)) \/ Answering(c)
  PROVE  OneSteps(c) /\ Later
<1> USE DEF OneSteps, Rests, Goto, Reply
<1>1. OneSteps(c)
  <2>1. CASE \E q \in Questions : Receive(c, q)
    BY <2>1 DEF TypeOK, Receive
  <2>2. CASE Lookup(c)
    BY <2>2 DEF TypeOK, Lookup
  <2>3. CASE Resolve(c)
    BY <2>3 DEF TypeOK, Resolve
  <2>4. CASE ReadDescriptors(c)
    BY <2>4 DEF TypeOK, ReadDescriptors
  <2>5. CASE Store(c)
    BY <2>5 DEF TypeOK, Store, Set
  <2>6. CASE Stored(c)
    BY <2>6 DEF TypeOK, Stored
  <2>7. CASE Serve(c)
    BY <2>7 DEF TypeOK, Serve
  <2>8. CASE UpstreamFails(c)
    BY <2>8 DEF TypeOK, UpstreamFails
  <2> QED BY <2>1, <2>2, <2>3, <2>4, <2>5, <2>6, <2>7, <2>8 DEF Answering
<1>2. Later
  BY <1>1 DEF Later, TypeOK
<1> QED BY <1>1, <1>2

LEMMA TypesStay ==
  ASSUME TypeOK, [Next]_vars
  PROVE  TypeOK'
<1> USE DEF TypeOK, Goto, Reply
<1>1. ASSUME NEW t \in Tags, Move(t) PROVE TypeOK'
  <2>1. now'[t] \in DOMAIN History[t] /\ now' \in [Tags -> Nat]
    BY <1>1 DEF Move, Latest
  <2>2. \A c \in Clients : pc[c] = "read" => head[c] \in 1 .. now'[asked[c].tag]
    <3> SUFFICES ASSUME NEW c \in Clients, pc[c] = "read" PROVE head[c] \in 1 .. now'[asked[c].tag]
      OBVIOUS
    <3>1. asked[c].tag \in Tags
      BY ProxyAssumption
    <3>2. now[asked[c].tag] <= now'[asked[c].tag] /\ now'[asked[c].tag] \in Nat
      BY <1>1, <2>1, <3>1 DEF Move
    <3> QED BY <3>1, <3>2
  <2> QED BY <1>1, <2>1, <2>2 DEF Move
<1>2. ASSUME NEW c \in Clients, NEW q \in Questions, Receive(c, q) PROVE TypeOK'
  BY <1>2 DEF Receive
<1>3. ASSUME NEW c \in Clients, Lookup(c) PROVE TypeOK'
  BY <1>3 DEF Lookup
<1>4. ASSUME NEW c \in Clients, Resolve(c) PROVE TypeOK'
  <2>1. asked[c].tag \in Tags /\ now[asked[c].tag] \in 1 .. now[asked[c].tag]
    BY <1>4, ProxyAssumption DEF Resolve
  <2> QED BY <1>4, <2>1 DEF Resolve
<1>5. ASSUME NEW c \in Clients, ReadDescriptors(c) PROVE TypeOK'
  BY <1>5 DEF ReadDescriptors
<1>6. ASSUME NEW c \in Clients, Store(c) PROVE TypeOK'
  BY <1>6 DEF Store
<1>7. ASSUME NEW c \in Clients, Stored(c) PROVE TypeOK'
  BY <1>7 DEF Stored
<1>8. ASSUME NEW c \in Clients, Serve(c) PROVE TypeOK'
  BY <1>8 DEF Serve
<1>9. ASSUME NEW c \in Clients, UpstreamFails(c) PROVE TypeOK'
  BY <1>9 DEF UpstreamFails
<1>10. CASE UNCHANGED vars
  BY <1>10 DEF vars
<1> QED BY <1>1, <1>2, <1>3, <1>4, <1>5, <1>6, <1>7, <1>8, <1>9, <1>10 DEF Next, Answering

-----------------------------------------------------------------------------
(* The cache is filled by Store alone, with what the request has read.     *)
LEMMA CacheStaysRight ==
  ASSUME ProxyInvariant, [Next]_vars
  PROVE  CacheIsRight'
<1> USE DEF ProxyInvariant
<1>1. CASE UNCHANGED <<cache, fetcher>> /\ Later
  <2> SUFFICES ASSUME NEW k \in DOMAIN cache
               PROVE  \E t \in Tags : k = Key(t, NoPlatform, cache[k].title) /\ cache[k] \in SoFar(t, NoPlatform)'
    BY <1>1 DEF CacheIsRight
  <2>1. PICK t \in Tags : k = Key(t, NoPlatform, cache[k].title) /\ cache[k] \in SoFar(t, NoPlatform)
    BY DEF CacheIsRight
  <2>2. cache[k] \in SoFar(t, NoPlatform)'
    BY <1>1, <2>1, MoreLater
  <2> QED BY <2>1, <2>2
<1>2. ASSUME NEW c \in Clients, Store(c) PROVE CacheIsRight'
  <2> DEFINE l == Head(todo[c])
             q == asked[c]
             new == Key(q.tag, NoPlatform, l.title)
  <2>1. q \in Questions /\ q.tag \in Tags
    BY <1>2, ProxyAssumption DEF Store, TypeOK
  <2>2. l \in SoFar(q.tag, NoPlatform)
    <3>1. todo[c] \in Seq(SoFar(q.tag, q.platform)) /\ todo[c] # << >>
      BY <1>2 DEF Store, RequestIsRight, Wanted
    <3>2. l \in SoFar(q.tag, q.platform)
      BY <3>1
    <3> QED BY <2>1, <3>2, MoreForNone
  <2>3. \A t, p : SoFar(t, p)' = SoFar(t, p)
    BY <1>2 DEF Store, SoFar
  <2>4. cache' = [k \in DOMAIN cache \cup {new} |-> IF k = new THEN l ELSE cache[k]]
    BY <1>2 DEF Store, Set
  <2> SUFFICES ASSUME NEW k \in DOMAIN cache'
               PROVE  \E t \in Tags : k = Key(t, NoPlatform, cache'[k].title) /\ cache'[k] \in SoFar(t, NoPlatform)
    BY <2>3 DEF CacheIsRight
  <2>5. CASE k = new
    BY <2>1, <2>2, <2>4, <2>5
  <2>6. CASE k # new
    <3>1. k \in DOMAIN cache /\ cache'[k] = cache[k]
      BY <2>4, <2>6
    <3> QED BY <3>1 DEF CacheIsRight
  <2> QED BY <2>5, <2>6
<1>3. ASSUME NEW t \in Tags, Move(t) PROVE UNCHANGED <<cache, fetcher>> /\ Later
  BY <1>3 DEF Move, Later, TypeOK
<1>4. CASE UNCHANGED vars
  BY <1>1, <1>4 DEF vars, Later, TypeOK
<1>5. ASSUME NEW c \in Clients, NEW q \in Questions, Receive(c, q) PROVE CacheIsRight'
  BY <1>1, <1>5, RequestSteps DEF Receive
<1>6. ASSUME NEW c \in Clients, Answering(c), ~Store(c) PROVE CacheIsRight'
  <2>1. UNCHANGED <<cache, fetcher>>
    BY <1>6 DEF Answering, Lookup, Resolve, ReadDescriptors, Stored, Serve, UpstreamFails
  <2> QED BY <1>1, <1>6, <2>1, RequestSteps
<1> QED BY <1>1, <1>2, <1>3, <1>4, <1>5, <1>6 DEF Next

(* The request that steps; Wanted is what it was from the moment it asked. *)
LEMMA StepIsRight ==
  ASSUME ProxyInvariant, NEW c \in Clients, Answering(c)
  PROVE  RequestIsRight(c)'
<1> USE DEF ProxyInvariant
<1>1. UNCHANGED <<fetcher, now, asked>>
  BY DEF Answering, Lookup, Resolve, ReadDescriptors, Store, Stored, Serve, UpstreamFails
<1>2. Wanted(c)' = Wanted(c)
  BY <1>1 DEF Wanted, SoFar
<1>3. \A l : l.title = asked'[c].title /\ l \in Wanted(c)' <=> Right(c, l)
  BY <1>1, <1>2 DEF Right
<1>4. pc[c] # "idle" /\ asked[c] \in Questions /\ asked[c].tag \in Tags
  BY ProxyAssumption
     DEF TypeOK, Answering, Lookup, Resolve, ReadDescriptors, Store, Stored, Serve, UpstreamFails
<1>5. CASE Lookup(c)
  <2>1. CASE Get(asked[c]) = NoLayer
    BY <1>5, <2>1 DEF Lookup, RequestIsRight, Goto, TypeOK
  <2>2. CASE Get(asked[c]) # NoLayer
    <3>1. KeyOf(asked[c]) \in DOMAIN cache /\ Get(asked[c]) = cache[KeyOf(asked[c])]
      BY <2>2 DEF Get
    <3>2. PICK t \in Tags : /\ KeyOf(asked[c]) = Key(t, NoPlatform, Get(asked[c]).title)
                            /\ Get(asked[c]) \in SoFar(t, NoPlatform)
      BY <3>1 DEF CacheIsRight
    <3>3. asked[c].tag = t /\ asked[c].platform = NoPlatform /\ asked[c].title = Get(asked[c]).title
      BY <3>2 DEF KeyOf, Key
    <3>4. Right(c, Get(asked[c]))
      BY <3>2, <3>3 DEF Right, Wanted
    <3>5. found'[c] = Get(asked[c]) /\ pc'[c] = "serve"
      BY <1>5, <2>2 DEF Lookup, Goto, TypeOK
    <3> QED BY <1>3, <3>4, <3>5 DEF RequestIsRight, Right
  <2> QED BY <2>1, <2>2
<1>6. CASE Resolve(c)
  BY <1>6 DEF Resolve, RequestIsRight, Goto, TypeOK
<1>7. CASE ReadDescriptors(c)
  <2> DEFINE q == asked[c]
             first == History[q.tag][head[c]]
             last == Named(q.tag)
             read == Read(fetcher, first, last, q)
  <2>1. found[c] = NoLayer /\ found' = found
    BY <1>7 DEF ReadDescriptors, RequestIsRight
  <2>2. CASE Refuses(fetcher, first, last, q)
    <3>1. pc'[c] = "done" /\ answer'[c] = Answer(400, NoLayer)
      BY <1>7, <2>2 DEF ReadDescriptors, Reply, TypeOK
    <3> QED BY <3>1 DEF RequestIsRight, Answer
  <2>3. CASE ~Refuses(fetcher, first, last, q)
    <3>1. head[c] \in 1 .. now[q.tag] /\ now[q.tag] \in 1 .. now[q.tag]
      BY <1>4, <1>7, ProxyAssumption DEF ReadDescriptors, TypeOK
    <3>2. head[c] \in DOMAIN History[q.tag] /\ now[q.tag] \in DOMAIN History[q.tag]
      BY <1>4, <3>1, ProxyAssumption DEF TypeOK
    <3>3. read \in Seq(Offered(fetcher, first, q.platform) \cup Offered(fetcher, last, q.platform))
      BY <1>4, <3>2, FetcherAssumption DEF TypeOK, Named
    <3>4. /\ Offered(fetcher, first, q.platform) \subseteq Wanted(c)
          /\ Offered(fetcher, last, q.platform) \subseteq Wanted(c)
      BY <1>4, <3>1, OfferedSoFar DEF Wanted, Named
    <3>5. read \in Seq(Wanted(c))
      BY <3>3, <3>4, SeqOfMore
    <3>6. todo'[c] = read /\ pc'[c] = "store"
      BY <1>7, <2>3 DEF ReadDescriptors, Goto, TypeOK
    <3> QED BY <1>2, <2>1, <3>5, <3>6 DEF RequestIsRight
  <2> QED BY <2>2, <2>3
<1>8. CASE Store(c)
  <2> DEFINE l == Head(todo[c])
  <2>1. todo[c] \in Seq(Wanted(c)) /\ todo[c] # << >> /\ pc[c] = "store" /\ pc'[c] = "store"
    BY <1>8 DEF Store, RequestIsRight
  <2>2. l \in Wanted(c) /\ Tail(todo[c]) \in Seq(Wanted(c))
    BY <2>1
  <2>3. todo'[c] = Tail(todo[c])
    BY <1>8 DEF Store, TypeOK
  <2>4. found'[c] = NoLayer \/ Right(c, found'[c])
    BY <1>8, <2>1, <2>2 DEF Store, TypeOK, RequestIsRight, Right
  <2> QED BY <1>2, <1>3, <2>1, <2>2, <2>3, <2>4 DEF RequestIsRight, Right
<1>9. CASE Stored(c)
  <2>1. CASE found[c] = NoLayer
    <3>1. pc'[c] = "done" /\ answer'[c] = Answer(404, NoLayer)
      BY <1>9, <2>1 DEF Stored, Reply, TypeOK
    <3> QED BY <3>1 DEF RequestIsRight, Answer
  <2>2. CASE found[c] # NoLayer
    <3>1. pc'[c] = "serve" /\ found'[c] = found[c] /\ Right(c, found[c])
      BY <1>9, <2>2 DEF Stored, Goto, TypeOK, RequestIsRight
    <3> QED BY <1>3, <3>1 DEF RequestIsRight, Right
  <2> QED BY <2>1, <2>2
<1>10. CASE Serve(c)
  <2>1. pc'[c] = "done" /\ answer'[c].layer = found[c] /\ Right(c, found[c])
    BY <1>10 DEF Serve, Reply, Answer, TypeOK, RequestIsRight
  <2> QED BY <1>3, <2>1 DEF RequestIsRight, Right
<1>11. CASE UpstreamFails(c)
  <2>1. pc'[c] = "done" /\ answer'[c] = Failed
    BY <1>11 DEF UpstreamFails, Reply, TypeOK
  <2> QED BY <2>1 DEF RequestIsRight, Failed, Answer
<1> QED BY <1>5, <1>6, <1>7, <1>8, <1>9, <1>10, <1>11 DEF Answering

LEMMA RequestsStayRight ==
  ASSUME ProxyInvariant, [Next]_vars, NEW c \in Clients
  PROVE  RequestIsRight(c)'
<1> USE DEF ProxyInvariant
<1>1. ASSUME NEW t \in Tags, Move(t) PROVE RequestIsRight(c)'
  BY <1>1, RestingIsRight DEF Move, Later, Rests, TypeOK
<1>2. ASSUME NEW q \in Questions, Receive(c, q) PROVE RequestIsRight(c)'
  <2>1. pc'[c] = "lookup" \/ (pc'[c] = "done" /\ answer'[c].status \in {400, 405})
    BY <1>2 DEF Receive, Goto, Reply, Answer, TypeOK
  <2> QED BY <2>1 DEF RequestIsRight
<1>3. CASE Answering(c)
  BY <1>3, StepIsRight
<1>4. ASSUME NEW d \in Clients, d # c, (\E q \in Questions : Receive(d, q)) \/ Answering(d)
      PROVE  RequestIsRight(c)'
  <2>1. OneSteps(d) /\ Later
    BY <1>4, RequestSteps
  <2> QED BY <1>4, <2>1, RestingIsRight DEF OneSteps
<1>5. CASE UNCHANGED vars
  BY <1>5, RestingIsRight DEF vars, Later, Rests, TypeOK
<1> QED BY <1>1, <1>2, <1>3, <1>4, <1>5 DEF Next

LEMMA ProxyInvariantHolds == Spec => []ProxyInvariant
<1>1. ProxyInvariant /\ [Next]_vars => ProxyInvariant'
  BY TypesStay, CacheStaysRight, RequestsStayRight DEF ProxyInvariant
<1> QED BY <1>1, InitIsRight, PTL DEF Spec

-----------------------------------------------------------------------------
(* The variables keep their types, and a request that reads descriptors    *)
(* does so at a version its tag has had.                                   *)
THEOREM ProxyTypesHold == Spec => []TypeOK
<1>1. ProxyInvariant => TypeOK
  BY DEF ProxyInvariant
<1> QED BY <1>1, ProxyInvariantHolds, PTL

(* Whatever is served has the title asked for and has been offered, by     *)
(* some version of the tag asked for, for the platform asked for           *)
(* (proxy.go:129-181, cache.go:41-62).                                     *)
THEOREM AnswersAreOffersHolds == Spec => []AnswersAreOffers
<1>1. ProxyInvariant => AnswersAreOffers
  BY DEF ProxyInvariant, RequestIsRight, AnswersAreOffers, Over, Right, Wanted
<1> QED BY <1>1, ProxyInvariantHolds, PTL

-----------------------------------------------------------------------------
(* What makes the cache invisible while a tag has not moved: a request     *)
(* that has found no answer yet has all there are among what it has still  *)
(* to look at, so who finds none at the end was right to say so.           *)
Untold(c) ==
  LET q == asked[c]
      a == Named(q.tag)
  IN  now[q.tag] = 1 /\ ~Refuses(fetcher, a, a, q) =>
        /\ pc[c] = "store" /\ found[c] = NoLayer =>
             Answers(a, q) \subseteq {todo[c][i] : i \in DOMAIN todo[c]}
        /\ pc[c] = "done" /\ answer[c].status = 404 => Answers(a, q) = {}
WellFormed(c) == /\ pc[c] = "done" => answer[c] = Answer(answer[c].status, answer[c].layer)
                 /\ pc[c] = "done" /\ answer[c].status = 404 => answer[c].layer = NoLayer

CacheInvariant == ProxyInvariant /\ \A c \in Clients : Untold(c) /\ WellFormed(c)

(* While a tag is at its first version, that is all it has offered.        *)
LEMMA FirstVersion ==
  ASSUME TypeOK, NEW t \in Tags, now[t] = 1, NEW p
  PROVE  SoFar(t, p) = Offered(fetcher, Named(t), p) /\ 1 \in DOMAIN History[t]
<1>1. 1 .. now[t] = {1}
  OBVIOUS
<1>2. 1 \in DOMAIN History[t]
  BY ProxyAssumption
<1> QED BY <1>1, <1>2 DEF SoFar, Named

LEMMA ReadsAll ==
  ASSUME NEW f \in Fetchers, NEW t \in Tags, NEW q \in Questions,
         NEW n \in DOMAIN History[t], NEW a, a = History[t][n], ~Refuses(f, a, a, q),
         NEW read, read = Read(f, a, a, q)
  PROVE  Offered(f, a, q.platform) \subseteq {read[i] : i \in DOMAIN read}
BY CompleteAssumption

LEMMA WellFormedStays ==
  ASSUME ProxyInvariant, NEW c \in Clients, WellFormed(c), [Next]_vars
  PROVE  WellFormed(c)'
<1> USE DEF ProxyInvariant, TypeOK, WellFormed, Answer
<1>1. ASSUME NEW t \in Tags, Move(t) PROVE WellFormed(c)'
  BY <1>1 DEF Move
<1>2. ASSUME NEW q \in Questions, Receive(c, q) PROVE WellFormed(c)'
  BY <1>2 DEF Receive, Goto, Reply
<1>3. CASE Lookup(c) \/ Resolve(c)
  BY <1>3 DEF Lookup, Resolve, Goto
<1>4. CASE ReadDescriptors(c)
  BY <1>4 DEF ReadDescriptors, Goto, Reply
<1>5. CASE Store(c)
  BY <1>5 DEF Store
<1>6. CASE Stored(c) \/ Serve(c) \/ UpstreamFails(c)
  BY <1>6 DEF Stored, Serve, UpstreamFails, Goto, Reply, Failed
<1>7. ASSUME NEW d \in Clients, d # c, (\E q \in Questions : Receive(d, q)) \/ Answering(d)
      PROVE  WellFormed(c)'
  <2>1. Rests(c)
    BY <1>7, RequestSteps DEF OneSteps
  <2> QED BY <2>1 DEF Rests
<1>8. CASE UNCHANGED vars
  BY <1>8 DEF vars
<1> QED BY <1>1, <1>2, <1>3, <1>4, <1>5, <1>6, <1>7, <1>8 DEF Next, Answering

(* The step of the request itself.                                         *)
LEMMA UntoldByItsStep ==
  ASSUME ProxyInvariant, NEW c \in Clients, Untold(c), Answering(c)
  PROVE  Untold(c)'
<1> DEFINE q == asked[c]
           a == Named(q.tag)
           left == {todo[c][i] : i \in DOMAIN todo[c]}
<1> USE DEF ProxyInvariant
<1>1. UNCHANGED <<fetcher, now, asked>>
  BY DEF Answering, Lookup, Resolve, ReadDescriptors, Store, Stored, Serve, UpstreamFails
<1>2. pc[c] # "idle" /\ q \in Questions /\ q.tag \in Tags
  BY ProxyAssumption
     DEF TypeOK, Answering, Lookup, Resolve, ReadDescriptors, Store, Stored, Serve, UpstreamFails
<1> SUFFICES ASSUME now[q.tag] = 1, ~Refuses(fetcher, a, a, q)
             PROVE  /\ pc'[c] = "store" /\ found'[c] = NoLayer =>
                         Answers(a, q) \subseteq {todo'[c][i] : i \in DOMAIN todo'[c]}
                    /\ pc'[c] = "done" /\ answer'[c].status = 404 => Answers(a, q) = {}
  <2>1. \A l \in Answers(a, q)' : l \in Answers(a, q)
    BY <1>1 DEF Answers, Named
  <2>2. \A l \in Answers(a, q) : l \in Answers(a, q)'
    BY <1>1 DEF Answers, Named
  <2> QED BY <1>1, <2>1, <2>2 DEF Untold, Named
<1>3. /\ SoFar(q.tag, q.platform) = Offered(fetcher, a, q.platform)
      /\ 1 \in DOMAIN History[q.tag] /\ a = History[q.tag][1]
  BY <1>2, FirstVersion DEF Named
<1>4. CASE Lookup(c) \/ Resolve(c)
  <2>1. pc'[c] \in {"resolve", "serve", "read"}
    BY <1>4 DEF Lookup, Resolve, Goto, TypeOK
  <2> QED BY <2>1
<1>5. CASE ReadDescriptors(c)
  <2>1. head[c] = 1
    <3>1. head[c] \in 1 .. now[q.tag]
      BY <1>5 DEF ReadDescriptors, TypeOK
    <3> QED BY <3>1
  <2>2. pc'[c] = "store" /\ todo'[c] = Read(fetcher, a, a, q)
    BY <1>3, <1>5, <2>1 DEF ReadDescriptors, Goto, TypeOK
  <2>3. Offered(fetcher, a, q.platform) \subseteq {todo'[c][i] : i \in DOMAIN todo'[c]}
    <3>1. fetcher \in Fetchers
      BY DEF TypeOK
    <3> HIDE DEF a, q
    <3> QED BY <1>2, <1>3, <2>2, <3>1, ReadsAll
  <2> QED BY <2>2, <2>3 DEF Answers
<1>6. CASE Store(c)
  <2>1. /\ pc[c] = "store" /\ pc'[c] = "store" /\ todo[c] # << >>
        /\ todo[c] \in Seq(Offered(fetcher, a, q.platform))
        /\ todo'[c] = Tail(todo[c])
    BY <1>3, <1>6 DEF Store, RequestIsRight, Wanted, TypeOK
  <2>2. Head(todo[c]) # NoLayer
    BY <1>2, <1>3, <2>1, CompleteAssumption DEF TypeOK
  <2> SUFFICES ASSUME found'[c] = NoLayer PROVE Answers(a, q) \subseteq {todo'[c][i] : i \in DOMAIN todo'[c]}
    BY <2>1
  <2>3. found[c] = NoLayer /\ Head(todo[c]).title # q.title
    BY <1>6, <2>2 DEF Store, TypeOK
  <2>4. Answers(a, q) \subseteq left
    BY <2>1, <2>3 DEF Untold
  <2>5. ASSUME NEW l \in Answers(a, q) PROVE l \in {todo'[c][i] : i \in DOMAIN todo'[c]}
    <3>1. PICK i \in DOMAIN todo[c] : l = todo[c][i]
      BY <2>4
    <3>2. i # 1
      BY <2>3, <3>1 DEF Answers
    <3>3. i - 1 \in DOMAIN Tail(todo[c]) /\ Tail(todo[c])[i - 1] = l
      BY <2>1, <3>1, <3>2
    <3> QED BY <2>1, <3>3
  <2> QED BY <2>5
<1>7. CASE Stored(c)
  <2>1. CASE found[c] # NoLayer
    BY <1>7, <2>1 DEF Stored, Goto, TypeOK
  <2>2. CASE found[c] = NoLayer
    <3>1. left = {} /\ pc[c] = "store" /\ pc'[c] = "done"
      BY <1>7, <2>2 DEF Stored, Reply, TypeOK
    <3> QED BY <2>2, <3>1 DEF Untold
  <2> QED BY <2>1, <2>2
<1>8. CASE Serve(c) \/ UpstreamFails(c)
  <2>1. pc'[c] = "done" /\ answer'[c].status \in {200, 500}
    BY <1>8 DEF Serve, UpstreamFails, Reply, Failed, Answer, TypeOK
  <2> QED BY <2>1
<1> QED BY <1>4, <1>5, <1>6, <1>7, <1>8 DEF Answering

LEMMA UntoldStays ==
  ASSUME ProxyInvariant, NEW c \in Clients, Untold(c), [Next]_vars
  PROVE  Untold(c)'
<1> USE DEF ProxyInvariant
<1>1. CASE Rests(c) /\ UNCHANGED <<fetcher, now>>
  <2>1. \A a, q : Answers(a, q)' = Answers(a, q)
    BY <1>1 DEF Answers
  <2>2. Named(asked[c].tag)' = Named(asked[c].tag)
    BY <1>1 DEF Named, Rests
  <2> QED BY <1>1, <2>1, <2>2 DEF Untold, Rests
<1>2. ASSUME NEW t \in Tags, Move(t) PROVE Untold(c)'
  <2>1. Rests(c) /\ fetcher' = fetcher
    BY <1>2 DEF Move, Rests
  <2>2. CASE pc[c] \notin {"store", "done"}
    BY <2>1, <2>2 DEF Untold, Rests
  <2>3. CASE pc[c] \in {"store", "done"}
    <3>1. asked[c].tag \in Tags
      BY <2>3, ProxyAssumption DEF TypeOK
    <3>2. CASE asked[c].tag = t
      <4>1. now'[asked[c].tag] # 1
        <5>1. now[t] \in Nat /\ now[t] >= 1 /\ now'[t] = now[t] + 1
          BY <1>2, ProxyAssumption DEF Move, TypeOK
        <5> QED BY <3>2, <5>1
      <4> QED BY <2>1, <4>1 DEF Untold, Rests
    <3>3. CASE asked[c].tag # t
      <4>1. now'[asked[c].tag] = now[asked[c].tag]
        BY <1>2, <3>1, <3>3 DEF Move, TypeOK
      <4>2. \A a, q : Answers(a, q)' = Answers(a, q)
        BY <2>1 DEF Answers
      <4>3. Named(asked[c].tag)' = Named(asked[c].tag)
        BY <2>1, <4>1 DEF Named, Rests
      <4> QED BY <2>1, <4>1, <4>2, <4>3 DEF Untold, Rests
    <3> QED BY <3>2, <3>3
  <2> QED BY <2>2, <2>3
<1>3. ASSUME NEW q \in Questions, Receive(c, q) PROVE Untold(c)'
  <2>1. pc'[c] = "lookup" \/ (pc'[c] = "done" /\ answer'[c].status \in {400, 405})
    BY <1>3 DEF Receive, Goto, Reply, Answer, TypeOK
  <2> QED BY <2>1 DEF Untold
<1>4. CASE Answering(c)
  BY <1>4, UntoldByItsStep
<1>5. ASSUME NEW d \in Clients, d # c, (\E q \in Questions : Receive(d, q)) \/ Answering(d)
      PROVE  Untold(c)'
  <2>1. Rests(c) /\ UNCHANGED <<fetcher, now>>
    BY <1>5, RequestSteps DEF OneSteps
  <2> QED BY <1>1, <2>1
<1>6. CASE UNCHANGED vars
  BY <1>1, <1>6 DEF vars, Rests
<1> QED BY <1>2, <1>3, <1>4, <1>5, <1>6 DEF Next

LEMMA CacheInvariantHolds == Spec => []CacheInvariant
<1>1. Init => CacheInvariant
  <2> SUFFICES ASSUME Init PROVE CacheInvariant
    OBVIOUS
  <2>1. \A c \in Clients : Untold(c) /\ WellFormed(c)
    BY DEF Init, Untold, WellFormed
  <2> QED BY <2>1, InitIsRight DEF CacheInvariant
<1>2. CacheInvariant /\ [Next]_vars => CacheInvariant'
  <2> SUFFICES ASSUME CacheInvariant, [Next]_vars PROVE CacheInvariant'
    OBVIOUS
  <2>1. ProxyInvariant'
    BY TypesStay, CacheStaysRight, RequestsStayRight DEF CacheInvariant, ProxyInvariant
  <2>2. \A c \in Clients : Untold(c)' /\ WellFormed(c)'
    BY UntoldStays, WellFormedStays DEF CacheInvariant
  <2> QED BY <2>1, <2>2 DEF CacheInvariant
<1> QED BY <1>1, <1>2, PTL DEF Spec

(* As long as a tag has not moved, whoever gets an answer from the proxy   *)
(* gets the one there would be without the cache: a layer the artifact has *)
(* for the platform under the title, if there is one, and 404 if not       *)
(* (proxy.go:141-185, cache.go:41-62).                                     *)
THEOREM TransparentHolds == Spec => []Transparent
<1>1. CacheInvariant => Transparent
  <2> SUFFICES ASSUME CacheInvariant, NEW c \in Clients,
                      Over(c), answer[c].status \in {200, 404}, now[asked[c].tag] = 1,
                      ~Refuses(fetcher, Named(asked[c].tag), Named(asked[c].tag), asked[c])
               PROVE  answer[c] \in IF Answers(Named(asked[c].tag), asked[c]) = {} THEN {Answer(404, NoLayer)}
                                    ELSE {Answer(200, l) : l \in Answers(Named(asked[c].tag), asked[c])}
    BY DEF Transparent
  <2> DEFINE q == asked[c]
             a == Named(q.tag)
  <2>1. /\ pc[c] = "done" /\ q \in Questions /\ q.tag \in Tags
        /\ answer[c] = Answer(answer[c].status, answer[c].layer)
    BY ProxyAssumption DEF Over, CacheInvariant, ProxyInvariant, TypeOK, WellFormed
  <2>2. CASE answer[c].status = 404
    <3>1. Answers(a, q) = {} /\ answer[c].layer = NoLayer
      BY <2>1, <2>2 DEF CacheInvariant, Untold, WellFormed
    <3> QED BY <2>1, <2>2, <3>1
  <2>3. CASE answer[c].status = 200
    <3>1. Right(c, answer[c].layer)
      BY <2>1, <2>3 DEF CacheInvariant, ProxyInvariant, RequestIsRight
    <3>2. SoFar(q.tag, q.platform) = Offered(fetcher, a, q.platform)
      BY <2>1, FirstVersion DEF CacheInvariant, ProxyInvariant
    <3>3. answer[c].layer \in Answers(a, q)
      BY <3>1, <3>2 DEF Right, Wanted, Answers
    <3> QED BY <2>1, <2>3, <3>3
  <2> QED BY <2>2, <2>3
<1> QED BY <1>1, CacheInvariantHolds, PTL

-----------------------------------------------------------------------------
(* What is flattened has the elements of its parts, and no others.         *)

Flattened(s, L, F) == Elements(s) = UNION {Elements(F[i]) : i \in 1 .. L}

LEMMA ElementsOfSeq ==
  ASSUME NEW X, NEW s \in Seq(X)
  PROVE  /\ Len(s) \in Nat /\ DOMAIN s = 1 .. Len(s)
         /\ \A i \in DOMAIN s : s[i] \in X
         /\ Elements(s) \subseteq X
BY DEF Elements

LEMMA ElementsOfBoth ==
  ASSUME NEW X, NEW s \in Seq(X), NEW t \in Seq(X)
  PROVE  s \o t \in Seq(X) /\ Elements(s \o t) = Elements(s) \cup Elements(t)
<1>1. s \o t \in Seq(X)
  OBVIOUS
<1>2. PICK k, n, m \in Nat : k = Len(s \o t) /\ n = Len(s) /\ m = Len(t)
  BY <1>1
<1>3. /\ DOMAIN (s \o t) = 1 .. k /\ DOMAIN s = 1 .. n /\ DOMAIN t = 1 .. m /\ k = n + m
      /\ \A i \in 1 .. k : (s \o t)[i] = IF i <= n THEN s[i] ELSE t[i - n]
  BY <1>1, <1>2
<1>4. ASSUME NEW x \in Elements(s \o t) PROVE x \in Elements(s) \cup Elements(t)
  <2>1. PICK i \in 1 .. k : x = (s \o t)[i]
    BY <1>3, <1>4 DEF Elements
  <2>2. CASE i <= n
    BY <1>3, <2>1, <2>2 DEF Elements
  <2>3. CASE ~(i <= n)
    <3>1. i - n \in 1 .. m
      BY <1>2, <1>3, <2>3
    <3> QED BY <1>3, <2>1, <2>3, <3>1 DEF Elements
  <2> QED BY <2>2, <2>3
<1>5. ASSUME NEW x \in Elements(s) PROVE x \in Elements(s \o t)
  <2>1. PICK i \in 1 .. n : x = s[i]
    BY <1>3, <1>5 DEF Elements
  <2>2. i \in 1 .. k /\ i <= n
    BY <1>2, <1>3
  <2> QED BY <1>3, <2>1, <2>2 DEF Elements
<1>6. ASSUME NEW x \in Elements(t) PROVE x \in Elements(s \o t)
  <2>1. PICK i \in 1 .. m : x = t[i]
    BY <1>3, <1>6 DEF Elements
  <2>2. PICK j \in Nat : j = i + n
    BY <1>2
  <2>3. j \in 1 .. k /\ ~(j <= n) /\ j - n = i
    BY <1>2, <1>3, <2>2
  <2>4. (s \o t)[j] = t[i]
    BY <1>3, <2>3
  <2> QED BY <1>3, <2>1, <2>3, <2>4 DEF Elements
<1> QED BY <1>1, <1>4, <1>5, <1>6

LEMMA FlatHas ==
  ASSUME NEW X, NEW L \in Nat, NEW F \in [1 .. L -> Seq(X)], NEW up,
         up[0] = << >>, \A n \in 1 .. L : up[n] = up[n - 1] \o F[n]
  PROVE  up[L] \in Seq(X) /\ Flattened(up[L], L, F)
<1> DEFINE S == {n \in 0 .. L : up[n] \in Seq(X) /\ Flattened(up[n], n, F)}
<1>1. 0 \in S
  <2>1. 0 \in 0 .. L /\ up[0] \in Seq(X) /\ 1 .. 0 = {}
    OBVIOUS
  <2>2. Flattened(up[0], 0, F)
    BY <2>1 DEF Flattened, Elements
  <2> QED BY <2>1, <2>2
<1>2. ASSUME NEW n \in 1 .. L, n - 1 \in S PROVE n \in S
  <2>1. up[n - 1] \in Seq(X) /\ F[n] \in Seq(X) /\ n \in 0 .. L /\ Flattened(up[n - 1], n - 1, F)
    BY <1>2
  <2>2. /\ up[n] \in Seq(X)
        /\ Elements(up[n]) = Elements(up[n - 1]) \cup Elements(F[n])
    <3>1. PICK s, t \in Seq(X) : s = up[n - 1] /\ t = F[n]
      BY <2>1
    <3>2. s \o t \in Seq(X) /\ Elements(s \o t) = Elements(s) \cup Elements(t)
      BY ElementsOfBoth
    <3>3. up[n] = s \o t
      BY <3>1
    <3> QED BY <3>1, <3>2, <3>3
  <2>3. 1 .. n = (1 .. n - 1) \cup {n}
    OBVIOUS
  <2>4. Flattened(up[n], n, F)
    BY <2>1, <2>2, <2>3 DEF Flattened
  <2> QED BY <2>1, <2>2, <2>4
<1>3. \A n \in 0 .. L : n \in S
  <2> HIDE DEF S
  <2> QED BY <1>1, <1>2, CountingUp
<1>4. L \in 0 .. L
  OBVIOUS
<1> QED BY <1>3, <1>4

LEMMA FlattenSeqGoes ==
  ASSUME NEW X, NEW L \in Nat, NEW F \in [1 .. L -> Seq(X)], L # 0
  PROVE  \E up : up[0] = << >> /\ (\A n \in 1 .. L : up[n] = up[n - 1] \o F[n]) /\ FlattenSeq(F) = up[L]
<1>0. Len(F) = L
  OBVIOUS
<1> DEFINE Body(f) == [i \in 1 .. L |-> IF i = 1 THEN F[i] ELSE f[i - 1] \o F[i]]
           h == CHOOSE f : f = Body(f)
<1>1. PICK g : g = [n \in 0 .. L |-> IF n = 0 THEN << >> ELSE g[n - 1] \o F[n]]
  BY FlatExists
<1>2. g[0] = << >> /\ \A n \in 1 .. L : g[n] = g[n - 1] \o F[n]
  <2>1. 0 \in 0 .. L /\ \A n \in 1 .. L : n \in 0 .. L /\ n # 0
    OBVIOUS
  <2> QED BY <1>1, <2>1
<1>3. \E f : f = Body(f)
  <2> DEFINE f == [i \in 1 .. L |-> g[i]]
  <2>1. ASSUME NEW i \in 1 .. L
        PROVE  f[i] = IF i = 1 THEN F[i] ELSE f[i - 1] \o F[i]
    <3>1. CASE i = 1
      <4>0. 1 \in 1 .. L /\ 1 - 1 = 0
        BY <3>1
      <4>1. g[1] = << >> \o F[1] /\ F[1] \in Seq(X) /\ f[1] = g[1]
        BY <1>2, <4>0
      <4>2. << >> \o F[1] = F[1]
        BY <4>1
      <4> QED BY <3>1, <4>1, <4>2
    <3>2. CASE i # 1
      <4>1. i - 1 \in 1 .. L
        BY <3>2
      <4> QED BY <1>2, <3>2, <4>1
    <3> QED BY <3>1, <3>2
  <2>2. f = Body(f)
    BY <2>1
  <2> QED BY <2>2
<1>4. h = Body(h)
  BY <1>3, Zenon
<1>5. FlattenSeq(F) = h[L]
  BY <1>0 DEF FlattenSeq
<1> HIDE DEF h
<1> DEFINE up == [n \in 0 .. L |-> IF n = 0 THEN << >> ELSE h[n]]
<1>6. up[0] = << >> /\ up[L] = h[L]
  OBVIOUS
<1>7. ASSUME NEW n \in 1 .. L PROVE up[n] = up[n - 1] \o F[n]
  <2>1. h[n] = IF n = 1 THEN F[n] ELSE h[n - 1] \o F[n]
    BY <1>4
  <2>2. CASE n = 1
    <3>1. up[n - 1] = << >> /\ up[n] = h[n] /\ F[n] \in Seq(X)
      BY <2>2
    <3>2. << >> \o F[n] = F[n]
      BY <3>1
    <3> QED BY <2>1, <2>2, <3>1, <3>2
  <2>3. CASE n # 1
    <3>1. n - 1 \in 0 .. L /\ n - 1 # 0 /\ n \in 0 .. L /\ n # 0
      BY <2>3
    <3> QED BY <2>1, <2>3, <3>1
  <2> QED BY <2>2, <2>3
<1> HIDE DEF up
<1> QED BY <1>5, <1>6, <1>7

LEMMA FlattenSeqHas ==
  ASSUME NEW X, NEW L \in Nat, NEW F \in [1 .. L -> Seq(X)]
  PROVE  FlattenSeq(F) \in Seq(X) /\ Flattened(FlattenSeq(F), L, F)
<1>1. CASE L = 0
  <2>1. FlattenSeq(F) = F /\ F = << >>
    BY <1>1 DEF FlattenSeq
  <2>2. 1 .. L = {} /\ Elements(<< >>) = {}
    BY <1>1 DEF Elements
  <2> QED BY <2>1, <2>2 DEF Flattened
<1>2. CASE L # 0
  <2>1. PICK up : up[0] = << >> /\ (\A n \in 1 .. L : up[n] = up[n - 1] \o F[n]) /\ FlattenSeq(F) = up[L]
    BY <1>2, FlattenSeqGoes
  <2>2. up[L] \in Seq(X) /\ Flattened(up[L], L, F)
    BY ONLY L \in Nat, F \in [1 .. L -> Seq(X)], <2>1, FlatHas
  <2> QED BY <2>1, <2>2
<1> QED BY <1>1, <1>2

-----------------------------------------------------------------------------
(* The two fetchers, of artifacts whose layers are from a set.             *)

IsList(s) == Len(s) \in Nat /\ DOMAIN s = 1 .. Len(s)
Made(a, Layers) ==
  IF ~IsIndex(a) THEN a.layers \in Seq(Layers)
  ELSE /\ IsList(a.members)
       /\ \A i \in DOMAIN a.members :
            ~IsIndex(a.members[i].of) => a.members[i].of.layers \in Seq(Layers)

(* What an index yields when the layers of some of its members are put one *)
(* after the other.                                                        *)
Chosen(a, T, Layers, s) ==
  /\ s \in Seq(Layers)
  /\ Elements(s) = UNION {Elements(a.members[i].of.layers) : i \in T}

LEMMA MembersFlatten ==
  ASSUME NEW Layers, NEW a, IsIndex(a), Made(a, Layers), NEW T \in SUBSET DOMAIN a.members,
         \A i \in T : ~IsIndex(a.members[i].of)
  PROVE  Chosen(a, T, Layers,
                FlattenSeq([i \in DOMAIN a.members |->
                              IF i \in T THEN a.members[i].of.layers ELSE << >>]))
<1> DEFINE F == [i \in DOMAIN a.members |-> IF i \in T THEN a.members[i].of.layers ELSE << >>]
<1>1. PICK L \in Nat : L = Len(a.members) /\ DOMAIN a.members = 1 .. L
  BY DEF Made, IsList
<1>2. F \in [1 .. L -> Seq(Layers)]
  <2>1. << >> \in Seq(Layers)
    OBVIOUS
  <2>2. \A i \in T : a.members[i].of.layers \in Seq(Layers)
    BY DEF Made
  <2> QED BY <1>1, <2>1, <2>2
<1>3. \A i \in 1 .. L : Elements(F[i]) = IF i \in T THEN Elements(a.members[i].of.layers) ELSE {}
  <2>1. Elements(<< >>) = {}
    BY DEF Elements
  <2>2. \A i \in 1 .. L : F[i] = IF i \in T THEN a.members[i].of.layers ELSE << >>
    BY <1>1
  <2> HIDE DEF F
  <2> QED BY <2>1, <2>2
<1> HIDE DEF F
<1>4. FlattenSeq(F) \in Seq(Layers) /\ Flattened(FlattenSeq(F), L, F)
  BY <1>2, FlattenSeqHas
<1>5. Elements(FlattenSeq(F)) = UNION {Elements(a.members[i].of.layers) : i \in T}
  <2>1. ASSUME NEW x \in UNION {Elements(F[i]) : i \in 1 .. L}
        PROVE  x \in UNION {Elements(a.members[i].of.layers) : i \in T}
    <3>1. PICK i \in 1 .. L : x \in Elements(F[i])
      BY <2>1
    <3>2. i \in T /\ x \in Elements(a.members[i].of.layers)
      BY <1>3, <3>1
    <3> QED BY <3>2
  <2>2. ASSUME NEW x \in UNION {Elements(a.members[i].of.layers) : i \in T}
        PROVE  x \in UNION {Elements(F[i]) : i \in 1 .. L}
    <3>1. PICK i \in T : x \in Elements(a.members[i].of.layers)
      BY <2>2
    <3>2. i \in 1 .. L /\ x \in Elements(F[i])
      BY <1>1, <1>3, <3>1
    <3> QED BY <3>2
  <2> QED BY <1>4, <2>1, <2>2 DEF Flattened
<1>6. Chosen(a, T, Layers, FlattenSeq(F))
  BY <1>4, <1>5 DEF Chosen
<1> QED BY <1>6 DEF F

(* List: the layers of an artifact's own files.                            *)
OwnMembers(a) == {i \in DOMAIN a.members : KindOf(a.members[i]) = "files"}
Own(a) == IF ~IsIndex(a) THEN Elements(a.layers)
          ELSE UNION {Elements(a.members[i].of.layers) : i \in OwnMembers(a)}

LEMMA OwnIsListed ==
  ASSUME NEW Layers, NEW a, Made(a, Layers)
  PROVE  OwnLayers(a) \in Seq(Layers) /\ Elements(OwnLayers(a)) = Own(a)
<1>1. CASE ~IsIndex(a)
  BY <1>1 DEF Made, OwnLayers, Own
<1>2. CASE IsIndex(a)
  <2>1. OwnMembers(a) \in SUBSET DOMAIN a.members
    BY DEF OwnMembers
  <2>2. \A i \in OwnMembers(a) : ~IsIndex(a.members[i].of)
    BY DEF OwnMembers, KindOf
  <2>3. [i \in DOMAIN a.members |->
           IF KindOf(a.members[i]) = "files" THEN a.members[i].of.layers ELSE << >>]
        = [i \in DOMAIN a.members |->
             IF i \in OwnMembers(a) THEN a.members[i].of.layers ELSE << >>]
    BY DEF OwnMembers
  <2>4. OwnLayers(a) = FlattenSeq([i \in DOMAIN a.members |->
             IF i \in OwnMembers(a) THEN a.members[i].of.layers ELSE << >>])
    BY <1>2, <2>3 DEF OwnLayers
  <2>5. Chosen(a, OwnMembers(a), Layers, OwnLayers(a))
    BY <1>2, <2>1, <2>2, <2>4, MembersFlatten
  <2> QED BY <1>2, <2>5 DEF Chosen, Own
<1> QED BY <1>1, <1>2

LEMMA SeqOfElements ==
  ASSUME NEW X, NEW s \in Seq(X)
  PROVE  s \in Seq(Elements(s))
BY ElementsOfSeq DEF Elements

LEMMA DescriptorsAreSeq ==
  ASSUME NEW Layers, NEW a, Made(a, Layers)
  PROVE  /\ Descriptors(a) \in Seq(Elements(Descriptors(a)))
         /\ \A l \in Elements(Descriptors(a)) : l # << >>
<1>1. OwnLayers(a) \in Seq(Layers)
  BY OwnIsListed
<1>2. PICK L \in Nat : L = Len(OwnLayers(a)) /\ DOMAIN OwnLayers(a) = 1 .. L
  BY <1>1
<1>3. Descriptors(a) = [i \in 1 .. L |-> Layer(List(a)[i].path, NoPath, List(a)[i].of)]
  BY <1>2 DEF Descriptors, List
<1>4. Descriptors(a) \in Seq({Descriptors(a)[i] : i \in 1 .. L})
  BY <1>3
<1>5. DOMAIN Descriptors(a) = 1 .. L
  BY <1>3
<1>6. \A i \in 1 .. L : Descriptors(a)[i] # << >>
  <2> SUFFICES ASSUME NEW i \in 1 .. L PROVE Descriptors(a)[i] # << >>
    OBVIOUS
  <2>1. Descriptors(a)[i] = Layer(List(a)[i].path, NoPath, List(a)[i].of)
    BY <1>3
  <2>2. "title" \in DOMAIN Layer(List(a)[i].path, NoPath, List(a)[i].of) /\ DOMAIN << >> = {}
    BY DEF Layer
  <2> QED BY <2>1, <2>2
<1> QED BY <1>4, <1>5, <1>6 DEF Elements

(* The layers of the members an index has for a platform.                  *)
MembersFor(a, q) == {i \in DOMAIN a.members : MemberFor(a.members[i], q)}
LEMMA LayersForAre ==
  ASSUME NEW Layers, NEW a, IsIndex(a), Made(a, Layers), NEW q
  PROVE  Chosen(a, MembersFor(a, q), Layers, LayersFor(a, q))
<1>1. MembersFor(a, q) \in SUBSET DOMAIN a.members
  BY DEF MembersFor
<1>2. \A i \in MembersFor(a, q) : ~IsIndex(a.members[i].of)
  BY DEF MembersFor, MemberFor
<1>3. [i \in DOMAIN a.members |->
         IF MemberFor(a.members[i], q) THEN a.members[i].of.layers ELSE << >>]
      = [i \in DOMAIN a.members |->
           IF i \in MembersFor(a, q) THEN a.members[i].of.layers ELSE << >>]
  BY DEF MembersFor
<1>4. LayersFor(a, q) = FlattenSeq([i \in DOMAIN a.members |->
           IF i \in MembersFor(a, q) THEN a.members[i].of.layers ELSE << >>])
  BY <1>3 DEF LayersFor
<1> QED BY <1>1, <1>2, <1>4, MembersFlatten

(* What the default fetcher may read of an index.                          *)
Suits(e, p) == ~IsIndex(e.of) /\ (p = None \/ e.platform \in {None, p})
LEMMA OfferedByIndex ==
  ASSUME NEW a, IsIndex(a), NEW p
  PROVE  OfferedBy("default", a, p) =
           UNION {Elements(a.members[i].of.layers) : i \in {i \in DOMAIN a.members : Suits(a.members[i], p)}}
<1>1. OfferedBy("default", a, p) =
        UNION {Elements(e.of.layers) : e \in {e \in Elements(a.members) : Suits(e, p)}}
  BY DEF OfferedBy, Suits
<1>2. {e \in Elements(a.members) : Suits(e, p)} =
        {a.members[i] : i \in {i \in DOMAIN a.members : Suits(a.members[i], p)}}
  BY DEF Elements
<1> QED BY <1>1, <1>2

(* The two fetchers the program has read nothing that is not there, of the *)
(* version HEAD announced or of the one GET found (proxy.go:222-274,       *)
(* file.go:128-142), and ask for no platform to get any.                   *)
THEOREM FetchersReadWhatIsThere ==
  ASSUME NEW Layers, NEW a, NEW b, Made(a, Layers), Made(b, Layers), NEW q,
         NEW f \in {"default", "paths"}
  PROVE  /\ ReadLayers(f, a, b, q) \in Seq(OfferedBy(f, a, q.platform) \cup OfferedBy(f, b, q.platform))
         /\ OfferedBy(f, a, q.platform) \subseteq OfferedBy(f, a, NoPlatform)
<1>1. CASE f = "paths"
  <2>1. ReadLayers(f, a, b, q) = Descriptors(a)
    BY <1>1 DEF ReadLayers
  <2>2. \A p : OfferedBy(f, a, p) = Elements(Descriptors(a))
    BY <1>1 DEF OfferedBy
  <2> QED BY <2>1, <2>2, DescriptorsAreSeq, SeqOfMore
<1>2. CASE f = "default"
  <2>1. OfferedBy(f, a, q.platform) \subseteq OfferedBy(f, a, NoPlatform)
    <3>1. CASE IsIndex(a)
      <4>1. \A i \in DOMAIN a.members :
              Suits(a.members[i], q.platform) => Suits(a.members[i], NoPlatform)
        BY DEF Suits, NoPlatform, None
      <4> QED BY <1>2, <3>1, <4>1, OfferedByIndex
    <3>2. CASE ~IsIndex(a)
      BY <1>2, <3>2 DEF OfferedBy
    <3> QED BY <3>1, <3>2
  <2>2. CASE IsIndex(a) # IsIndex(b)
    <3>1. ReadLayers(f, a, b, q) = << >>
      <4>1. IsIndex(a) \in BOOLEAN /\ IsIndex(b) \in BOOLEAN
        BY DEF IsIndex
      <4>2. CASE IsIndex(a) /\ ~IsIndex(b)
        BY <1>2, <2>2, <4>2 DEF ReadLayers
      <4>3. CASE ~IsIndex(a) /\ IsIndex(b)
        BY <1>2, <2>2, <4>3 DEF ReadLayers
      <4> QED BY <2>2, <4>1, <4>2, <4>3
    <3> QED BY <2>1, <3>1
  <2>3. CASE IsIndex(a) /\ IsIndex(b)
    <3>1. ReadLayers(f, a, b, q) = LayersFor(b, q)
      BY <1>2, <2>3 DEF ReadLayers
    <3>2. LayersFor(b, q) \in Seq(Elements(LayersFor(b, q)))
      BY <2>3, LayersForAre, SeqOfElements DEF Chosen
    <3>3. Elements(LayersFor(b, q)) \subseteq OfferedBy(f, b, q.platform)
      <4>1. Elements(LayersFor(b, q)) = UNION {Elements(b.members[i].of.layers) : i \in MembersFor(b, q)}
        BY <2>3, LayersForAre DEF Chosen
      <4>2. \A i \in MembersFor(b, q) : i \in DOMAIN b.members /\ Suits(b.members[i], q.platform)
        BY DEF MembersFor, MemberFor, Suits
      <4>3. OfferedBy(f, b, q.platform) =
              UNION {Elements(b.members[i].of.layers) :
                       i \in {i \in DOMAIN b.members : Suits(b.members[i], q.platform)}}
        BY <1>2, <2>3, OfferedByIndex
      <4> QED BY <4>1, <4>2, <4>3
    <3>4. LayersFor(b, q) \in Seq(OfferedBy(f, a, q.platform) \cup OfferedBy(f, b, q.platform))
      BY <3>2, <3>3, SeqOfMore
    <3> QED BY <2>1, <3>1, <3>4
  <2>4. CASE ~IsIndex(a) /\ ~IsIndex(b)
    <3>1. ReadLayers(f, a, b, q) = b.layers
      BY <1>2, <2>4 DEF ReadLayers
    <3>2. b.layers \in Seq(Elements(b.layers)) /\ OfferedBy(f, b, q.platform) = Elements(b.layers)
      BY <1>2, <2>4, SeqOfElements DEF Made, OfferedBy
    <3>3. b.layers \in Seq(OfferedBy(f, a, q.platform) \cup OfferedBy(f, b, q.platform))
      BY <3>2, SeqOfMore
    <3> QED BY <2>1, <3>1, <3>3
  <2> QED BY <2>2, <2>3, <2>4 DEF IsIndex
<1> QED BY <1>1, <1>2

(* Of an artifact that does not change meanwhile they read all there is    *)
(* for the platform, unless the default one refuses for want of one.       *)
THEOREM FetchersReadAllThereIs ==
  ASSUME NEW Layers, NoLayer \notin Layers, NEW a, Made(a, Layers), NEW q,
         NEW f \in {"default", "paths"}
  PROVE  /\ ~RefusesPlatform(f, a, a, q) =>
              OfferedBy(f, a, q.platform) \subseteq Elements(ReadLayers(f, a, a, q))
         /\ NoLayer \notin OfferedBy(f, a, q.platform)
<1>1. CASE f = "paths"
  <2>1. ReadLayers(f, a, a, q) = Descriptors(a) /\ OfferedBy(f, a, q.platform) = Elements(Descriptors(a))
    BY <1>1 DEF ReadLayers, OfferedBy
  <2> QED BY <2>1, DescriptorsAreSeq DEF NoLayer
<1>2. CASE f = "default" /\ ~IsIndex(a)
  <2>1. ReadLayers(f, a, a, q) = a.layers /\ OfferedBy(f, a, q.platform) = Elements(a.layers)
    BY <1>2 DEF ReadLayers, OfferedBy
  <2>2. Elements(a.layers) \subseteq Layers
    BY <1>2, ElementsOfSeq DEF Made
  <2> QED BY <2>1, <2>2
<1>3. CASE f = "default" /\ IsIndex(a)
  <2>1. ReadLayers(f, a, a, q) = LayersFor(a, q)
    BY <1>3 DEF ReadLayers
  <2>2. Elements(LayersFor(a, q)) = UNION {Elements(a.members[i].of.layers) : i \in MembersFor(a, q)}
    BY <1>3, LayersForAre DEF Chosen
  <2>3. OfferedBy(f, a, q.platform) =
          UNION {Elements(a.members[i].of.layers) :
                   i \in {i \in DOMAIN a.members : Suits(a.members[i], q.platform)}}
    BY <1>3, OfferedByIndex
  <2>4. ASSUME ~RefusesPlatform(f, a, a, q), NEW i \in DOMAIN a.members,
               Suits(a.members[i], q.platform)
        PROVE  i \in MembersFor(a, q)
    BY <1>3, <2>4 DEF RefusesPlatform, Suits, MembersFor, MemberFor
  <2>5. \A i \in DOMAIN a.members :
          Suits(a.members[i], q.platform) => Elements(a.members[i].of.layers) \subseteq Layers
    BY <1>3, ElementsOfSeq DEF Made, Suits
  <2>6. NoLayer \notin OfferedBy(f, a, q.platform)
    BY <2>3, <2>5
  <2>7. ASSUME ~RefusesPlatform(f, a, a, q)
        PROVE  OfferedBy(f, a, q.platform) \subseteq Elements(ReadLayers(f, a, a, q))
    <3>1. {i \in DOMAIN a.members : Suits(a.members[i], q.platform)} \subseteq MembersFor(a, q)
      BY <2>4, <2>7
    <3> QED BY <2>1, <2>2, <2>3, <3>1
  <2> QED BY <2>6, <2>7
<1> QED BY <1>1, <1>2, <1>3

-----------------------------------------------------------------------------
(* The commands next to each other: each behaves as it does alone, so all  *)
(* that is proved of the proxy and of the references holds of them too.    *)
THEOREM CommandsAreOnTheirOwn == ReadersSpec => Spec /\ ReadSpec
<1>1. ReadersInit => Init /\ ReadInit
  BY DEF ReadersInit, ReadInit, Commands, ReadCommands, Command
<1>2. [ReadersNext]_readerVars => [Next]_vars
  BY DEF ReadersNext, readerVars, RunExtract, RunReference, RunProxy
<1>3. [ReadersNext]_readerVars => [RunRead \/ OtherCommand]_<<command, output>>
  BY DEF ReadersNext, readerVars, RunExtract, RunReference, RunProxy, OtherCommand
<1> QED BY <1>1, <1>2, <1>3, PTL DEF ReadersSpec, Spec, ReadSpec
=============================================================================

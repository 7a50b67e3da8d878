----------------------------- MODULE PackProofs -----------------------------
(***************************************************************************)
(* How a pack moves: the shape of its actors, the four shapes a step can   *)
(* have (an actor moves, fans its children out, starts the next of them,   *)
(* or goes on when they have returned), and from these Control: every      *)
(* actor is of its type, at a step of its kind, and nothing below it runs  *)
(* unless it waits for it.                                                 *)
(***************************************************************************)
EXTENDS Pack, Induction, FiniteSetTheorems, SequenceTheorems

-----------------------------------------------------------------------------
(* The flattened files of a pack.                                          *)

LEMMA ItemsAreSeq ==
  ASSUME pack \in Packs
  PROVE  /\ Len(Items) \in Nat /\ DOMAIN Items = 1 .. Len(Items)
         /\ \A n \in DOMAIN Items : Items[n].files \in Seq(Paths) /\ Items[n].image \in Digests
                                    /\ Items[n].config \in Paths \cup {NoFile}
  <1> DEFINE R == [kind : Kinds, files : Seq(Paths), image : Digests,
                   config : Paths \cup {NoFile}, platform : {"none", "ok", "bad"}]
  <1>1. Items \in Seq(R)
    BY PackAssumption DEF Items
  <1> HIDE DEF R
  <1>2. Len(Items) \in Nat /\ DOMAIN Items = 1 .. Len(Items) /\ \A n \in DOMAIN Items : Items[n] \in R
    BY <1>1
  <1> USE DEF R
  <1> QED BY <1>2

LEMMA AllFilesIsSeq ==
  ASSUME pack \in Packs
  PROVE  AllFiles \in Seq(Paths)
  <1> DEFINE L == Len(Items)
             F == [n \in 1 .. L |-> Items[n].files]
             Body(u) == [n \in 0 .. L |-> IF n = 0 THEN << >> ELSE u[n - 1] \o Items[n].files]
             Up == CHOOSE u : u = Body(u)
  <1>1. L \in Nat /\ F \in [1 .. L -> Seq(Paths)]
    BY ItemsAreSeq
  <1>2. \A n \in 0 .. L : n # 0 => F[n] = Items[n].files
    BY <1>1
  <1>3. \E u : u = [n \in 0 .. L |-> IF n = 0 THEN << >> ELSE u[n - 1] \o F[n]]
    <2> HIDE DEF F, L
    <2> QED BY <1>1, FlatExists
  <1>4. \E u : u = Body(u)
    <2> HIDE DEF F, L
    <2> QED BY <1>2, <1>3
  <1>5. Up = Body(Up)
    BY <1>4, Zenon
  <1>6. AllFiles = Up[L]
    BY DEF AllFiles
  <1>7. Up[0] = << >> /\ \A n \in 1 .. L : Up[n] = Up[n - 1] \o F[n]
    <2>1. 0 \in 0 .. L /\ \A n \in 1 .. L : n \in 0 .. L /\ n # 0
      BY <1>1
    <2> HIDE DEF Up, F, L
    <2> QED BY <1>2, <1>5, <2>1
  <1>8. Up[L] \in Seq(Paths)
    <2> HIDE DEF Up, F, L
    <2> QED BY <1>1, <1>7, FlatIsSeq
  <1> QED BY <1>6, <1>8

-----------------------------------------------------------------------------
(* Who the actors are.                                                     *)

LEMMA ActorsDiffer ==
  /\ Root \in Actors /\ ItemActors \subseteq Actors /\ Members \subseteq Actors /\ PartActors \subseteq Actors
  /\ \A a \in Actors : a = Root \/ a \in ItemActors \/ a \in Members \/ a \in PartActors
  /\ \A a \in ItemActors : a # Root /\ a \notin Members /\ a \notin PartActors
  /\ \A a \in Members : a # Root /\ a \notin PartActors
  /\ \A a \in PartActors : a # Root
  <1>1. \A n : ItemOf(n) # Root /\ Member(n) # Root /\ \A k : Part(n, k) # Root
    BY DEF ItemOf, Member, Part, Root
  <1>2. \A m, n, k : ItemOf(n) # Member(m) /\ ItemOf(n) # Part(m, k) /\ Member(n) # Part(m, k)
    BY DEF ItemOf, Member, Part
  <1> QED BY <1>1, <1>2 DEF Actors, ItemActors, Members, PartActors

LEMMA Parents ==
  /\ \A a \in ItemActors \cup Members : Parent(a) = Root
  /\ \A a \in PartActors : Parent(a) \in Members
  <1>1. \A a \in PartActors : \E m \in 1 .. Width : a[2] = m
    BY DEF PartActors, Part
  <1> QED BY <1>1, ActorsDiffer DEF Parent, Members

(* How many an actor fans out, and which.                                  *)
Count(a, step) == CASE step = "build"  -> Len(Items)
                    [] step = "index"  -> Width
                    [] step = "layers" -> NParts(a[2])

LEMMA Counts ==
  ASSUME pack \in Packs
  PROVE  /\ Count(Root, "build") \in Nat /\ Count(Root, "index") \in Nat
         /\ \A a \in Members : Count(a, "layers") \in Nat \ {0}
         /\ Width \in Nat
  <1>1. Len(Items) \in Nat
    BY ItemsAreSeq
  <1>2. Width \in Nat
    BY <1>1 DEF Width
  <1>3. ASSUME NEW a \in Members PROVE Len(Files(a[2])) \in Nat
    <2>1. a[2] \in 1 .. Width
      BY DEF Members, Member
    <2>2. CASE IndexExpected
      <3>1. Items[a[2]].files \in Seq(Paths)
        BY <2>1, <2>2, ItemsAreSeq DEF Width
      <3> QED BY <2>2, <3>1 DEF Files
    <2>3. CASE ~IndexExpected
      <3>1. AllFiles \in Seq(Paths)
        BY AllFilesIsSeq
      <3> QED BY <2>3, <3>1 DEF Files
    <2> QED BY <2>2, <2>3
  <1>4. \A a \in Members : NParts(a[2]) \in Nat \ {0}
    BY <1>3 DEF NParts
  <1> QED BY <1>1, <1>2, <1>4 DEF Count

(* a is an actor that may be at one of the steps it fans out at.           *)
Fans(a, step) == (a = Root /\ step \in {"build", "index"}) \/ (a \in Members /\ step = "layers")

LEMMA KidsAre ==
  ASSUME pack \in Packs, NEW a, NEW step, Fans(a, step)
  PROVE  /\ Kids(a, step) = {Kid(a, step, i) : i \in 1 .. Count(a, step)}
         /\ \A i, j : Kid(a, step, i) = Kid(a, step, j) => i = j
         /\ \A i : Position(Kid(a, step, i)) = i
  <1>1. CASE a = Root /\ step = "build"
    BY <1>1, ItemsAreSeq DEF Kids, Kid, Count, ItemActors, ItemOf, Position
  <1>2. CASE a = Root /\ step = "index"
    BY <1>2 DEF Kids, Kid, Count, Members, Member, Position
  <1>3. CASE a \in Members /\ step = "layers"
    BY <1>3 DEF Kids, Kid, Count, Part, Position
  <1> QED BY <1>1, <1>2, <1>3 DEF Fans

LEMMA KidsAreActors ==
  ASSUME pack \in Packs, NEW a, NEW step, Fans(a, step)
  PROVE  /\ a \in Actors
         /\ \A b \in Kids(a, step) :
              /\ b \in Actors /\ b # Root /\ Parent(b) = a /\ b # a
              /\ step = "build" => b \in ItemActors
              /\ step = "index" => b \in Members
              /\ step = "layers" => b \in PartActors
         /\ step = "build" => Kids(a, step) = ItemActors
         /\ step = "index" => Kids(a, step) = Members
         /\ step = "layers" => Kids(a, step) = {b \in PartActors : Parent(b) = a}
  <1>1. CASE a = Root
    BY <1>1, ActorsDiffer, Parents DEF Fans, Kids
  <1>2. CASE a \in Members /\ step = "layers"
    <2>1. PICK m \in 1 .. Width : a = Member(m)
      BY <1>2 DEF Members
    <2>2. a[2] = m
      BY <2>1 DEF Member
    <2>3. Kids(a, step) = {Part(m, k) : k \in 1 .. NParts(m)}
      BY <1>2, <2>2 DEF Kids
    <2>4. \A k : Part(m, k)[2] = m
      BY DEF Part
    <2>5. \A b \in Kids(a, step) : b \in PartActors /\ Parent(b) = a
      BY <2>1, <2>3, <2>4 DEF PartActors, Parent
    <2>6. ASSUME NEW b \in PartActors, Parent(b) = a PROVE b \in Kids(a, step)
      <3>1. PICK n \in 1 .. Width : \E k \in 1 .. NParts(n) : b = Part(n, k)
        BY <2>6 DEF PartActors
      <3>4. b[2] = n
        BY <3>1 DEF Part
      <3>2. Member(n) = Member(m)
        BY <2>1, <2>6, <3>4 DEF Parent
      <3>3. n = m
        BY <3>2 DEF Member
      <3> QED BY <2>3, <3>1, <3>3
    <2> QED BY <1>2, <2>5, <2>6, ActorsDiffer
  <1> QED BY <1>1, <1>2 DEF Fans

LEMMA FirstKid ==
  ASSUME pack \in Packs, NEW a, NEW step, Fans(a, step), Kid(a, step, 1) \in Actors
  PROVE  Kid(a, step, 1) \in Kids(a, step)
  <1>1. CASE a = Root /\ step = "build"
    <2>1. Kid(a, step, 1) = ItemOf(1) /\ Kids(a, step) = ItemActors
      BY <1>1 DEF Kid, Kids
    <2>2. ItemOf(1) # Root /\ ItemOf(1) \notin Members /\ ItemOf(1) \notin PartActors
      BY DEF ItemOf, Root, Members, Member, PartActors, Part
    <2> QED BY <2>1, <2>2, ActorsDiffer
  <1>2. CASE a = Root /\ step = "index"
    <2>1. Kid(a, step, 1) = Member(1) /\ Kids(a, step) = Members
      BY <1>2 DEF Kid, Kids
    <2>2. Member(1) # Root /\ Member(1) \notin ItemActors /\ Member(1) \notin PartActors
      BY DEF Member, Root, ItemActors, ItemOf, PartActors, Part
    <2> QED BY <2>1, <2>2, ActorsDiffer
  <1>3. CASE a \in Members /\ step = "layers"
    <2>1. Count(a, step) \in Nat \ {0}
      BY <1>3, Counts
    <2>2. 1 \in 1 .. Count(a, step)
      BY <2>1
    <2> QED BY <2>2, KidsAre
  <1> QED BY <1>1, <1>2, <1>3 DEF Fans

LEMMA CountKids ==
  ASSUME pack \in Packs, NEW a, NEW step, Fans(a, step)
  PROVE  /\ Cardinality(Kids(a, step)) = Count(a, step)
         /\ Count(a, step) \in Nat
         /\ Ordered(a, step) <=> Sequential(Count(a, step))
  <1> DEFINE c == Count(a, step)
             f == [i \in 1 .. c |-> Kid(a, step, i)]
  <1>1. c \in Nat
    BY Counts DEF Fans
  <1>2. /\ f \in [1 .. c -> Kids(a, step)]
        /\ \A i, j \in 1 .. c : f[i] = f[j] => i = j
        /\ \A k \in Kids(a, step) : \E i \in 1 .. c : f[i] = k
    BY KidsAre
  <1>3. Cardinality(Kids(a, step)) = c
    <2> HIDE DEF f, c
    <2>1. IsFiniteSet(1 .. c) /\ Cardinality(1 .. c) = c
      BY <1>1, FS_Interval
    <2>2. f \in Bijection(1 .. c, Kids(a, step))
      BY <1>2 DEF Bijection, Injection, Surjection, IsInjective
    <2>3. ExistsBijection(1 .. c, Kids(a, step))
      BY <2>2 DEF ExistsBijection
    <2> QED BY <2>1, <2>3, FS_Bijection
  <1> QED BY <1>1, <1>3 DEF Ordered

(* A pack file does not change, nor does anything it determines.           *)
LEMMA PackStays ==
  ASSUME pack' = pack
  PROVE  /\ Items' = Items /\ IndexExpected' = IndexExpected /\ Width' = Width
         /\ ItemActors' = ItemActors /\ Members' = Members /\ PartActors' = PartActors
         /\ Actors' = Actors
         /\ \A a : Mounts(a)' = Mounts(a) /\ Parent(a)' = Parent(a) /\ Blank(a)' = Blank(a)
         /\ \A a, step : Kids(a, step)' = Kids(a, step) /\ Ordered(a, step)' = Ordered(a, step)
         /\ \A m : Files(m)' = Files(m) /\ Config(m)' = Config(m)
         /\ \A a : Source(a)' = Source(a)
BY DEF Items, IndexExpected, Width, ItemActors, Members, PartActors, Actors, Mounts, MountOnly,
       Parent, Blank, Kids, Ordered, NParts, Files, AllFiles, Config, Source

-----------------------------------------------------------------------------
(* Types.  Digests are all the content there is: what refers to digests    *)
(* has a digest, and what a digest refers to are digests.                  *)
ContentAddressed ==
  /\ Empty \in Digests
  /\ \A d \in Digests, l \in Seq(Digests) : Manifest(d, l) \in Digests /\ Index(l) \in Digests
  /\ \A d \in Digests : Parts(d) \in Seq(Digests)

LEMMA BlankLength ==
  ASSUME pack \in Packs
  PROVE  /\ Blank(Root) \in Seq({NoDigest}) /\ Len(Blank(Root)) = Width
         /\ \A a \in Members : Blank(a) \in Seq({NoDigest}) /\ Len(Blank(a)) = NParts(a[2])
                                                        /\ NParts(a[2]) \in Nat \ {0}
         /\ \A a \in Actors : Blank(a) \in Seq({NoDigest})
         /\ Width \in Nat
  <1>1. Width \in Nat /\ \A a \in Members : NParts(a[2]) \in Nat \ {0}
    BY Counts DEF Count
  <1>2. \A n \in Nat : [i \in 1 .. n |-> NoDigest] \in Seq({NoDigest}) /\ Len([i \in 1 .. n |-> NoDigest]) = n
    OBVIOUS
  <1>3. /\ Blank(Root) = [i \in 1 .. Width |-> NoDigest]
        /\ \A a \in Members : Blank(a) = [i \in 1 .. NParts(a[2]) |-> NoDigest]
        /\ \A a \in Actors : a \notin {Root} \cup Members => Blank(a) = [i \in 1 .. 0 |-> NoDigest]
    BY ActorsDiffer DEF Blank
  <1>4. \A a \in Members : Blank(a) \in Seq({NoDigest}) /\ Len(Blank(a)) = NParts(a[2])
    <2> SUFFICES ASSUME NEW a \in Members
                 PROVE  Blank(a) \in Seq({NoDigest}) /\ Len(Blank(a)) = NParts(a[2])
      OBVIOUS
    <2>1. NParts(a[2]) \in Nat /\ Blank(a) = [i \in 1 .. NParts(a[2]) |-> NoDigest]
      BY <1>1, <1>3
    <2> QED BY <1>2, <2>1
  <1>5. Blank(Root) \in Seq({NoDigest}) /\ Len(Blank(Root)) = Width
    BY <1>1, <1>2, <1>3
  <1>6. \A a \in Actors : a \notin {Root} \cup Members => Blank(a) \in Seq({NoDigest})
    <2>1. 0 \in Nat
      OBVIOUS
    <2> QED BY <1>2, <1>3, <2>1
  <1> QED BY <1>1, <1>4, <1>5, <1>6

LEMMA SourcesAreFiles ==
  ASSUME pack \in Packs, NEW a \in PartActors
  PROVE  Source(a) \in Paths \cup {NoFile}
  <1>1. PICK m \in 1 .. Width : \E k \in 1 .. NParts(m) : a = Part(m, k)
    BY DEF PartActors
  <1>2. PICK k \in 1 .. NParts(m) : a = Part(m, k)
    BY <1>1
  <1>3. a[2] = m /\ a[3] = k
    BY <1>2 DEF Part
  <1>4. Files(m) \in Seq(Paths) /\ Config(m) \in Paths \cup {NoFile}
    <2>1. CASE IndexExpected
      <3>1. m \in DOMAIN Items
        BY <2>1, ItemsAreSeq DEF Width
      <3> QED BY <2>1, <3>1, ItemsAreSeq DEF Files, Config
    <2>2. CASE ~IndexExpected
      BY <2>2, AllFilesIsSeq, PackAssumption DEF Files, Config
    <2> QED BY <2>1, <2>2
  <1>5. CASE k = 1
    BY <1>3, <1>4, <1>5 DEF Source
  <1>6. CASE k # 1
    <2>1. k - 1 \in 1 .. Len(Files(m))
      BY <1>4, <1>6 DEF NParts
    <2>2. Files(m)[k - 1] \in Paths
      BY <1>4, <2>1
    <2> QED BY <1>3, <1>6, <2>2 DEF Source
  <1> QED BY <1>5, <1>6

LEMMA TargetsAreDigests ==
  ASSUME ContentAddressed, TypeOK
  PROVE  /\ \A a \in PartActors \cup Members : Target(a) \in Digests /\ Result(a) \in Digests
         /\ Target(Root) \in Digests
         /\ \A a \in Members : Mounts(a) => Items[a[2]].image \in Digests
  <1>1. ASSUME NEW a \in PartActors PROVE Target(a) \in Digests
    <2>1. Target(a) = Content(Source(a))
      BY ActorsDiffer DEF Target
    <2>2. Source(a) \in Paths \cup {NoFile}
      BY SourcesAreFiles DEF TypeOK
    <2>3. disk \in [Paths -> Digests] /\ Empty \in Digests
      BY DEF TypeOK, ContentAddressed
    <2> QED BY <2>1, <2>2, <2>3 DEF Content
  <1>2. ASSUME NEW a \in Members PROVE Target(a) \in Digests
    <2>1. list[a] \in Seq(Digests) /\ Len(list[a]) \in Nat \ {0}
      BY BlankLength, ActorsDiffer DEF TypeOK
    <2>2. list[a][1] \in Digests /\ Tail(list[a]) \in Seq(Digests)
      BY <2>1
    <2> QED BY <2>2, ActorsDiffer DEF Target, ContentAddressed
  <1>3. ASSUME NEW a \in Members, Mounts(a) PROVE Items[a[2]].image \in Digests
    <2>1. PICK m \in 1 .. Width : a = Member(m)
      BY DEF Members
    <2>2. a[2] = m /\ IndexExpected
      BY <1>3, <2>1 DEF Member, Mounts, MountOnly
    <2>3. m \in DOMAIN Items
      BY <2>1, <2>2, ItemsAreSeq DEF Width, TypeOK
    <2> QED BY <2>2, <2>3, ItemsAreSeq DEF TypeOK
  <1>4. Target(Root) \in Digests
    <2>1. list[Root] \in Seq(Digests) /\ Len(list[Root]) = Width
      BY BlankLength, ActorsDiffer DEF TypeOK
    <2>2. Target(Root) = IF IndexExpected THEN Index(list[Root]) ELSE list[Root][1]
      BY ActorsDiffer DEF Target
    <2>3. CASE IndexExpected
      <3>1. \E d : d \in Digests
        BY DEF ContentAddressed
      <3> QED BY <2>1, <2>2, <2>3, <3>1 DEF ContentAddressed
    <2>4. CASE ~IndexExpected
      <3>1. Width = 1
        BY <2>4 DEF Width
      <3> QED BY <2>1, <2>2, <2>4, <3>1
    <2> QED BY <2>3, <2>4
  <1>5. \A a : Mounts(a) => a \in Members
    BY DEF Mounts
  <1>6. \A a \in PartActors \cup Members : Result(a) \in Digests
    BY <1>1, <1>2, <1>3, <1>5 DEF Result
  <1> QED BY <1>1, <1>2, <1>3, <1>4, <1>6

LEMMA OutcomesDiffer ==
  /\ Ok \in Outcomes /\ Canceled \in Outcomes /\ Failures \subseteq Outcomes
  /\ Unreadable \in Outcomes /\ Unreadable # Ok /\ Unreadable # Canceled
  /\ Canceled # Ok /\ Canceled \notin Failures /\ Ok \notin Failures
  /\ DeadlineExceeded \in Outcomes /\ DeadlineExceeded \notin Failures
  /\ DeadlineExceeded # Ok /\ DeadlineExceeded # Canceled
  /\ Refused \notin Outcomes
  /\ Unclaimed # Claimed /\ Unclaimed \notin Outcomes /\ Claimed \notin Outcomes
  /\ Outcomes \subseteq Errors /\ Unclaimed \notin Errors /\ Claimed \notin Errors
  <1>1. \A d \in Digests : Failed(d)[1] = "failed"
    BY DEF Failed
  <1>2. /\ Ok[1] = "ok" /\ Canceled[1] = "context.Canceled" /\ DeadlineExceeded[1] = "context.DeadlineExceeded"
        /\ Unclaimed[1] = "unclaimed" /\ Claimed[1] = "claimed" /\ Refused[1] = "pack file refused"
    BY DEF Ok, Canceled, DeadlineExceeded, Unclaimed, Claimed, Refused
  <1>3. \A e \in Errors : e[1] \in {"ok", "context.Canceled", "context.DeadlineExceeded", "failed"}
    BY <1>1, <1>2 DEF Errors, ContextErrors, Failures
  <1>4. Outcomes \subseteq Errors
    BY DEF Outcomes, Errors, ContextErrors
  <1>5. Unreadable \in Failures
    BY PackAssumption DEF Unreadable, Failures
  <1>6. \A e \in Failures : e[1] = "failed"
    BY <1>1 DEF Failures
  <1>7. Unclaimed \notin Errors /\ Claimed \notin Errors /\ Refused \notin Errors
    BY <1>2, <1>3
  <1>8. Canceled # Ok /\ Canceled \notin Failures /\ Ok \notin Failures /\ Unclaimed # Claimed
    BY <1>2, <1>6
  <1>9. DeadlineExceeded \notin Failures /\ DeadlineExceeded # Ok /\ DeadlineExceeded # Canceled
    BY <1>2, <1>6
  <1> QED BY <1>4, <1>5, <1>7, <1>8, <1>9 DEF Outcomes

(* What an actor fails with by itself: the failure of what it asked for,   *)
(* a timeout, or its being cancelled.                                      *)
LEMMA RequestsFail ==
  ASSUME NEW d \in Digests, NEW a,
         NEW err \in (IF d \in MayFail THEN {Failed(d)} ELSE {}) \cup TimedOutOn(d) \cup Interrupted(a)
  PROVE  /\ err \in Failures \cup {Canceled, DeadlineExceeded}
         /\ err = Canceled => Cancelled(a)
  <1>1. err \in Failures \/ (err = DeadlineExceeded) \/ (err = Canceled /\ Cancelled(a))
    BY DEF TimedOutOn, Interrupted, Failures
  <1> QED BY <1>1, OutcomesDiffer

LEMMA ItemsFail ==
  ASSUME NEW a, NEW err \in ItemErrors(a)
  PROVE  /\ err \in {Unreadable, Canceled, DeadlineExceeded}
         /\ err = Canceled => Cancelled(a)
  <1>1. err = Unreadable \/ err = DeadlineExceeded \/ (err = Canceled /\ Cancelled(a))
    BY DEF ItemErrors, TimedOutOn, Interrupted
  <1> QED BY <1>1, OutcomesDiffer

LEMMA InitTypes ==
  ASSUME Init
  PROVE  TypeOK
  <1>1. Blank(Root) \in Seq(Digests) /\ \A a \in Actors : Blank(a) \in Seq(Digests)
    <2>1. Seq({NoDigest}) \subseteq Seq(Digests)
      BY PackAssumption
    <2> QED BY <2>1, BlankLength DEF Init
  <1>2. slots \in Int /\ failure \in {Ok} \cup Failures
        /\ tasks \in [Digests -> {Unclaimed, Claimed} \cup Outcomes]
    BY DEF Init, NewBudget
  <1>3. requests \in [Actors -> Seq([op : Ops, of : Digests])]
    BY DEF Init
  <1>4. pc \in [Actors -> Steps] /\ \A a \in Actors : requests[a] = << >> /\ pc[a] # "requests"
    BY DEF Init, Steps
  <1>5. res \in [Actors -> Outcomes \cup {Refused}] /\ group \in [Actors -> Outcomes]
        /\ \A a \in Actors : res[a] # Refused
    BY OutcomesDiffer DEF Init
  <1>6. list \in [Actors -> Seq(Digests)] /\ \A a \in Actors : list[a] = Blank(a)
    BY <1>1 DEF Init
  <1>7. disk \in [Paths -> Digests] /\ pack \in Packs
        /\ blobs \subseteq Digests /\ manifests \subseteq Digests /\ tag \in Digests
    BY PackAssumption DEF Init
  <1> QED BY <1>2, <1>3, <1>4, <1>5, <1>6, <1>7 DEF TypeOK

-----------------------------------------------------------------------------
(* Control.  One step of a goroutine moves one actor, starts some, or      *)
(* both.                                                                   *)
Control == TypeOK /\ StepsFit /\ Nested /\ NotBegun /\ EldersAreDone

OthersStay(S) == \A b \in Actors \ S : pc'[b] = pc[b] /\ res'[b] = res[b]

Moved(a) ==
  /\ pc[a] \notin AtRest \cup Fanned
  /\ pc'[a] \in Steps \ (Fanned \cup {"idle", "start", "validate"}) /\ Fits(a, pc'[a])
  /\ OthersStay({a})

(* What a waited for is over.                                              *)
Joined(a) ==
  /\ Fans(a, pc[a]) /\ \A b \in Kids(a, pc[a]) : pc[b] \in AtRest
  /\ pc'[a] \in {"commit", "return"}
  /\ OthersStay({a})

FannedOut(a, step) ==
  /\ Fans(a, step) /\ (step = "layers" => ~Mounts(a))
  /\ <<pc[a], step>> \in {<<"validate", "build">>, <<"build", "index">>, <<"start", "layers">>}
  /\ step = "index" => \A b \in ItemActors : pc[b] \in AtRest
  /\ pc'[a] = step
  /\ \A b \in Kids(a, step) :
       /\ pc[b] = "idle"
       /\ pc'[b] = IF Ordered(a, step) /\ Position(b) # 1 THEN "idle" ELSE "start"
  /\ \A b \in Actors : res'[b] = res[b]
  /\ OthersStay({a} \cup Kids(a, step))

Continued(a) ==
  /\ Fans(a, pc[a]) /\ Ordered(a, pc[a])
  /\ \E b, c \in Kids(a, pc[a]) :
       /\ pc[b] = "done" /\ res[b] = Ok /\ Position(c) = Position(b) + 1
       /\ pc[c] = "idle" /\ pc'[c] = "start" /\ res'[c] = res[c]
       /\ OthersStay({c})

LEMMA GotoMoves ==
  ASSUME TypeOK, NEW a \in Actors, NEW step, NEW err, Goto(a, step) \/ GotoWith(a, step, err)
  PROVE  pc'[a] = step /\ OthersStay({a})
BY DEF TypeOK, Goto, GotoWith, OthersStay

LEMMA LocalSteps ==
  ASSUME TypeOK, StepsFit, NEW a \in Actors,
         \/ Commit(a) \/ TakeSlot(a) \/ LeaveQueue(a)
         \/ ResolveItem(a) \/ FailItem(a) \/ BeginMount(a) \/ OpenSource(a)
         \/ ClaimUpload(a) \/ AwaitUpload(a) \/ ShareOutcome(a) \/ AbandonWait(a)
         \/ RequestGranted(a) \/ RequestRefused(a) \/ Settle(a) \/ Release(a) \/ Return(a)
  PROVE  Moved(a)
  <1>0. Fits(a, pc[a]) /\ (Mounts(a) => a \in Members) /\ (a = Root => ~Mounts(a))
    BY ActorsDiffer DEF StepsFit, Mounts
  <1> DEFINE Goes(from, step) == /\ pc[a] = from /\ pc'[a] = step /\ OthersStay({a})
  <1>1. CASE Commit(a) \/ LeaveQueue(a)
    <2>1. (Goes("commit", "queue") \/ Goes("commit", "return") \/ Goes("queue", "return"))
      BY <1>1, GotoMoves DEF Commit, LeaveQueue, AskForSlot
    <2> QED BY <2>1, <1>0 DEF Moved, AtRest, Fanned, Fits, Steps
  <1>2. CASE TakeSlot(a)
    <2>1. Goes("queue", "held")
      BY <1>2, GotoMoves DEF TakeSlot
    <2> QED BY <2>1, <1>0 DEF Moved, AtRest, Fanned, Fits, Steps
  <1>3. CASE ResolveItem(a) \/ FailItem(a)
    <2>1. Goes("held", "release")
      BY <1>3, GotoMoves DEF ResolveItem, FailItem
    <2> QED BY <2>1, <1>0 DEF Moved, AtRest, Fanned, Fits, Steps
  <1>4. CASE BeginMount(a)
    <2>1. Goes("held", "requests") /\ Mounts(a)
      BY <1>4, GotoMoves DEF BeginMount
    <2> QED BY <2>1, <1>0, ActorsDiffer DEF Moved, AtRest, Fanned, Fits, Steps
  <1>5. CASE OpenSource(a)
    <2>1. (Goes("held", "release") \/ Goes("held", "once")) /\ a \notin ItemActors /\ ~Mounts(a)
      BY <1>5, GotoMoves DEF OpenSource
    <2> QED BY <2>1, <1>0 DEF Moved, AtRest, Fanned, Fits, Steps
  <1>6. CASE ClaimUpload(a) \/ AwaitUpload(a)
    <2>1. Goes("once", "requests") \/ Goes("once", "wait")
      BY <1>6, GotoMoves DEF ClaimUpload, AwaitUpload
    <2> QED BY <2>1, <1>0 DEF Moved, AtRest, Fanned, Fits, Steps
  <1>7. CASE ShareOutcome(a) \/ AbandonWait(a)
    <2>1. Goes("wait", "release")
      BY <1>7, GotoMoves DEF ShareOutcome, AbandonWait
    <2> QED BY <2>1, <1>0 DEF Moved, AtRest, Fanned, Fits, Steps
  <1>8. CASE RequestGranted(a) \/ RequestRefused(a)
    <2>1. Goes("requests", "requests") \/ Goes("requests", Ended(a))
      <3>1. CASE RequestGranted(a)
        <4>1. PICK rest : pc[a] = "requests" /\ Goto(a, IF rest = << >> THEN Ended(a) ELSE "requests")
          BY <3>1 DEF RequestGranted
        <4> QED BY <4>1, GotoMoves
      <3>2. CASE RequestRefused(a)
        <4>1. PICK err : pc[a] = "requests" /\ GotoWith(a, Ended(a), err)
          BY <3>2 DEF RequestRefused
        <4> QED BY <4>1, GotoMoves
      <3> QED BY <1>8, <3>1, <3>2
    <2> QED BY <2>1, <1>0 DEF Moved, AtRest, Fanned, Fits, Steps, Ended
  <1>9. CASE Settle(a) \/ Release(a) \/ Return(a)
    <2>1. Goes("settle", "release") \/ Goes("release", "return") \/ Goes("return", "done")
      BY <1>9, GotoMoves DEF Settle, Release, Return
    <2> QED BY <2>1, <1>0 DEF Moved, AtRest, Fanned, Fits, Steps
  <1> QED BY <1>1, <1>2, <1>3, <1>4, <1>5, <1>6, <1>7, <1>8, <1>9

LEMMA FanOutIs ==
  ASSUME TypeOK, NEW a, NEW step, Fans(a, step), FanOut(a, step),
         pc[a] \notin {"idle"}, \A b \in Kids(a, step) : pc[b] = "idle"
  PROVE  /\ pc'[a] = step
         /\ \A b \in Kids(a, step) : pc'[b] = IF Ordered(a, step) /\ Position(b) # 1 THEN "idle" ELSE "start"
         /\ \A b \in Actors : res'[b] = res[b]
         /\ OthersStay({a} \cup Kids(a, step))
  <1> DEFINE new == IF Ordered(a, step) THEN {Kid(a, step, 1)} ELSE Kids(a, step)
  <1>1. /\ pc' = [b \in Actors |-> IF b = a THEN step ELSE IF b \in new THEN "start" ELSE pc[b]]
        /\ res' = res
    BY DEF FanOut
  <1>2. pack \in Packs
    BY DEF TypeOK
  <1>3. a \in Actors /\ \A b \in Kids(a, step) : b \in Actors /\ b # a
    BY <1>2, KidsAreActors
  <1>4. \A b \in Kids(a, step) : b \in new <=> ~(Ordered(a, step) /\ Position(b) # 1)
    BY <1>2, KidsAre
  <1>5. \A b \in Actors : b \in new /\ b \notin Kids(a, step) => Ordered(a, step) /\ b = Kid(a, step, 1)
    OBVIOUS
  <1>6. \A b \in Actors : b \in new => b \in Kids(a, step)
    BY <1>2, FirstKid
  <1> QED BY <1>1, <1>3, <1>4, <1>6 DEF OthersStay

LEMMA StartSteps ==
  ASSUME Control, NEW a \in Actors, Start(a)
  PROVE  Moved(a) \/ FannedOut(a, "layers")
  <1> USE DEF Control
  <1>0. Fits(a, pc[a]) /\ pc[a] = "start" /\ (Mounts(a) => a \in Members) /\ (a = Root => ~Mounts(a))
    BY ActorsDiffer DEF StepsFit, Mounts, Start
  <1>1. CASE a \in Members /\ ~Mounts(a)
    <2>1. FanOut(a, "layers") /\ Fans(a, "layers")
      BY <1>1 DEF Start, Fans
    <2>2. pack \in Packs
      BY DEF TypeOK
    <2>3. \A b \in Kids(a, "layers") : b \in PartActors /\ Parent(b) = a
      BY <2>1, <2>2, KidsAreActors
    <2>4. \A b \in Kids(a, "layers") : pc[b] = "idle"
      BY <1>0, <2>3 DEF NotBegun
    <2> QED BY <1>0, <1>1, <2>1, <2>4, FanOutIs DEF FannedOut
  <1>2. CASE ~(a \in Members /\ ~Mounts(a))
    <2>1. pc'[a] \in {"queue", "return"} /\ OthersStay({a})
      BY <1>2, GotoMoves DEF Start, AskForSlot
    <2> QED BY <1>0, <2>1 DEF Moved, AtRest, Fanned, Fits, Steps
  <1> QED BY <1>1, <1>2

LEMMA FannedAre ==
  ASSUME Control, NEW a \in Actors, pc[a] \in Fanned
  PROVE  Fans(a, pc[a]) /\ pack \in Packs
  <1>1. Fits(a, pc[a]) /\ pack \in Packs
    BY DEF Control, StepsFit, TypeOK
  <1> QED BY <1>1, ActorsDiffer DEF Fans, Fits, Fanned

LEMMA ProceedIs ==
  ASSUME Control, NEW a \in Actors, pc[a] \in Fanned, Proceed(a),
         \A b \in Kids(a, pc[a]) : pc[b] \in AtRest
  PROVE  Joined(a) \/ FannedOut(a, "index")
  <1>1. Fans(a, pc[a]) /\ pack \in Packs
    BY FannedAre
  <1>2. CASE pc[a] = "build"
    <2>1. a = Root /\ FanOut(a, "index") /\ Fans(a, "index")
      BY <1>1, <1>2 DEF Proceed, Fans
    <2>2. Kids(a, "index") = Members /\ Kids(a, "build") = ItemActors
      BY <2>1 DEF Kids
    <2>3. \A b \in Kids(a, "index") : pc[b] = "idle"
      BY <1>2, <2>1, <2>2 DEF Control, NotBegun
    <2>4. \A b \in ItemActors : pc[b] \in AtRest
      BY <1>2, <2>1, <2>2
    <2>5. /\ pc'[a] = "index"
          /\ \A b \in Kids(a, "index") :
               pc'[b] = IF Ordered(a, "index") /\ Position(b) # 1 THEN "idle" ELSE "start"
          /\ \A b \in Actors : res'[b] = res[b]
          /\ OthersStay({a} \cup Kids(a, "index"))
      BY <1>2, <2>1, <2>3, FanOutIs DEF Control
    <2> QED BY <1>2, <2>1, <2>3, <2>4, <2>5 DEF FannedOut
  <1>3. CASE pc[a] # "build"
    <2>1. pc'[a] \in {"commit", "return"} /\ OthersStay({a})
      BY <1>3, GotoMoves DEF Proceed, Control
    <2> QED BY <1>1, <2>1 DEF Joined
  <1> QED BY <1>2, <1>3

LEMMA JoinSteps ==
  ASSUME Control, NEW a \in Actors, Join(a)
  PROVE  Joined(a) \/ FannedOut(a, "index")
  <1>1. pc[a] \in Fanned /\ \A b \in Kids(a, pc[a]) : pc[b] \in AtRest
    BY DEF Join, AtRest
  <1>2. CASE Proceed(a)
    BY <1>1, <1>2, ProceedIs
  <1>3. CASE GotoWith(a, "return", group[a])
    <2>1. pc'[a] = "return" /\ OthersStay({a})
      BY <1>3, GotoMoves DEF Control
    <2> QED BY <1>1, <2>1, FannedAre DEF Joined
  <1> QED BY <1>2, <1>3 DEF Join

(* When Each has come as far as a child in order, all before it are done   *)
(* and all behind it untouched.                                            *)
LEMMA InOrder ==
  ASSUME Control, NEW a \in Actors, Fans(a, pc[a]), Ordered(a, pc[a]),
         NEW i \in 1 .. Count(a, pc[a]), pc[Kid(a, pc[a], i)] = "done",
         i # Count(a, pc[a]) => pc[Kid(a, pc[a], i + 1)] = "idle"
  PROVE  \A b \in Kids(a, pc[a]) :
           pc[b] \in AtRest /\ (pc[b] = "idle" <=> Position(b) > i)
  <1>1. pack \in Packs /\ pc[a] \in Fanned /\ a \in {Root} \cup Members
    BY DEF Control, TypeOK, Fans, Fanned
  <1>2. Count(a, pc[a]) \in Nat
    BY <1>1, CountKids
  <1>3. SUFFICES ASSUME NEW j \in 1 .. Count(a, pc[a])
                 PROVE  LET b == Kid(a, pc[a], j) IN
                        pc[b] \in AtRest /\ (pc[b] = "idle" <=> j > i)
    BY <1>1, KidsAre
  <1> DEFINE kid(k) == Kid(a, pc[a], k)
  <1>4. \A k \in 1 .. Count(a, pc[a]) : kid(k) \in Kids(a, pc[a]) /\ Position(kid(k)) = k
    BY <1>1, KidsAre
  <1>5. \A k, l \in 1 .. Count(a, pc[a]) : k < l /\ pc[kid(l)] # "idle" => pc[kid(k)] = "done"
    BY <1>1, <1>4 DEF Control, EldersAreDone
  <1> HIDE DEF kid
  <1>6. pc[kid(i)] = "done" /\ (i # Count(a, pc[a]) => pc[kid(i + 1)] = "idle")
    BY DEF kid
  <1>7. CASE j < i
    BY <1>2, <1>5, <1>6, <1>7 DEF AtRest, kid
  <1>8. CASE j = i
    BY <1>2, <1>6, <1>8 DEF AtRest, kid
  <1>9. CASE j > i
    <2>1. i + 1 \in 1 .. Count(a, pc[a]) /\ i # Count(a, pc[a]) /\ (j = i + 1 \/ i + 1 < j)
      BY <1>2, <1>9
    <2>2. pc[kid(j)] = "idle"
      BY <1>5, <1>6, <2>1
    <2> QED BY <1>9, <2>2 DEF AtRest, kid
  <1> QED BY <1>2, <1>7, <1>8, <1>9

LEMMA JoinInOrderSteps ==
  ASSUME Control, NEW a \in Actors, JoinInOrder(a)
  PROVE  Joined(a) \/ FannedOut(a, "index") \/ Continued(a)
  <1>1. pc[a] \in Fanned /\ Ordered(a, pc[a]) /\ Fans(a, pc[a]) /\ pack \in Packs
    BY FannedAre DEF JoinInOrder
  <1>2. Cardinality(Kids(a, pc[a])) = Count(a, pc[a]) /\ Count(a, pc[a]) \in Nat
    BY <1>1, CountKids
  <1>3. PICK i \in 1 .. Count(a, pc[a]) :
          /\ pc[Kid(a, pc[a], i)] = "done"
          /\ i # Count(a, pc[a]) => pc[Kid(a, pc[a], i + 1)] = "idle"
          /\ IF res[Kid(a, pc[a], i)] # Ok THEN GotoWith(a, "return", res[Kid(a, pc[a], i)])
             ELSE IF i = Count(a, pc[a]) THEN Proceed(a)
             ELSE pc' = [pc EXCEPT ![Kid(a, pc[a], i + 1)] = "start"] /\ UNCHANGED res
    BY <1>2 DEF JoinInOrder
  <1>4. \A b \in Kids(a, pc[a]) : pc[b] \in AtRest
    BY <1>1, <1>3, InOrder
  <1>5. CASE res[Kid(a, pc[a], i)] # Ok
    <2>1. pc'[a] = "return" /\ OthersStay({a})
      BY <1>3, <1>5, GotoMoves DEF Control
    <2> QED BY <1>1, <1>4, <2>1 DEF Joined
  <1>6. CASE res[Kid(a, pc[a], i)] = Ok /\ i = Count(a, pc[a])
    BY <1>1, <1>3, <1>4, <1>6, ProceedIs
  <1>7. CASE res[Kid(a, pc[a], i)] = Ok /\ i # Count(a, pc[a])
    <2> DEFINE k == Kid(a, pc[a], i)
               c == Kid(a, pc[a], i + 1)
    <2>1. i + 1 \in 1 .. Count(a, pc[a])
      BY <1>2, <1>7
    <2>2. k \in Kids(a, pc[a]) /\ c \in Kids(a, pc[a]) /\ Position(c) = Position(k) + 1
      BY <1>1, <2>1, KidsAre
    <2>3. c \in Actors /\ pc[c] = "idle" /\ pc[k] = "done" /\ res[k] = Ok
      BY <1>1, <1>3, <1>7, <2>2, KidsAreActors
    <2>4. pc' = [pc EXCEPT ![c] = "start"] /\ res' = res
      BY <1>3, <1>7
    <2> HIDE DEF c, k
    <2>5. pc'[c] = "start" /\ res'[c] = res[c] /\ OthersStay({c})
      BY <2>3, <2>4 DEF OthersStay, Control, TypeOK
    <2> QED BY <1>1, <2>2, <2>3, <2>5 DEF Continued
  <1> QED BY <1>5, <1>6, <1>7

(* Every step is one of these.                                             *)
Shaped == \E a \in Actors :
  Moved(a) \/ Joined(a) \/ (\E step \in Fanned : FannedOut(a, step)) \/ Continued(a)
RefusedAtOnce == /\ pc[Root] = "validate" /\ pc'[Root] = "done"
                 /\ OthersStay({Root})

LEMMA StepsAreShaped ==
  ASSUME Control, NEW a \in Actors, Step(a)
  PROVE  Moved(a) \/ Joined(a) \/ (\E step \in Fanned : FannedOut(a, step)) \/ Continued(a)
  <1>1. CASE Start(a)
    BY <1>1, StartSteps DEF Fanned
  <1>2. CASE Join(a)
    BY <1>2, JoinSteps DEF Fanned
  <1>3. CASE JoinInOrder(a)
    BY <1>3, JoinInOrderSteps DEF Fanned
  <1>4. CASE ~Start(a) /\ ~Join(a) /\ ~JoinInOrder(a)
    BY <1>4, LocalSteps DEF Control, Step
  <1> QED BY <1>1, <1>2, <1>3, <1>4

LEMMA ProgressIsShaped ==
  ASSUME Control, Progress
  PROVE  (Shaped \/ RefusedAtOnce) /\ pack' = pack
  <1>0. Root \in Actors /\ TypeOK /\ pack \in Packs /\ ~Mounts(Root) /\ Root \notin ItemActors
        /\ Root \notin PartActors
    BY ActorsDiffer DEF Control, TypeOK, Mounts
  <1>1. CASE RefusePack
    <2>1. pc[Root] = "validate" /\ pc'[Root] = "done" /\ OthersStay({Root})
      BY <1>0, <1>1, GotoMoves DEF RefusePack
    <2> QED BY <1>1, <2>1 DEF RefusedAtOnce, RefusePack, data
  <1>2. CASE AcceptPack
    <2>1. pc[Root] = "validate" /\ FanOut(Root, "build") /\ Fans(Root, "build")
      BY <1>2 DEF AcceptPack, Fans
    <2>2. Kids(Root, "build") = ItemActors
      BY <1>0, <2>1, KidsAreActors
    <2>3. \A b \in Kids(Root, "build") : pc[b] = "idle"
      BY <2>1, <2>2 DEF Control, NotBegun
    <2>4. FannedOut(Root, "build")
      <3>1. /\ pc'[Root] = "build"
            /\ \A b \in Kids(Root, "build") :
                 pc'[b] = IF Ordered(Root, "build") /\ Position(b) # 1 THEN "idle" ELSE "start"
            /\ \A b \in Actors : res'[b] = res[b]
            /\ OthersStay({Root} \cup Kids(Root, "build"))
        BY <1>0, <2>1, <2>3, FanOutIs
      <3> QED BY <2>1, <2>3, <3>1 DEF FannedOut
    <2> QED BY <1>0, <1>2, <2>4 DEF Shaped, Fanned, AcceptPack, data
  <1>3. CASE \E a \in Actors : Step(a)
    <2>1. Shaped
      BY <1>3, StepsAreShaped DEF Shaped
    <2>2. pack' = pack
      BY <1>3 DEF Step, Start, Commit, TakeSlot, LeaveQueue, ResolveItem, FailItem, BeginMount,
                  OpenSource, ClaimUpload, AwaitUpload, ShareOutcome, AbandonWait, RequestGranted,
                  RequestRefused, Settle, Release, Return, Join, JoinInOrder, data
    <2> QED BY <2>1, <2>2
  <1>4. CASE ReportFailure \/ TagPack \/ FailToTag
    <2>1. pc[Root] = "return" /\ pc'[Root] = "done" /\ OthersStay({Root})
      BY <1>0, <1>4, GotoMoves DEF ReportFailure, TagPack, FailToTag
    <2>2. Moved(Root)
      BY <1>0, <2>1 DEF Moved, AtRest, Fanned, Fits, Steps
    <2> QED BY <1>0, <1>4, <2>2 DEF Shaped, ReportFailure, TagPack, FailToTag, data
  <1> QED BY <1>1, <1>2, <1>3, <1>4 DEF Progress

LEMMA FitsStep ==
  ASSUME Control, pack' = pack, NEW a \in Actors,
         Moved(a) \/ Joined(a) \/ (\E step \in Fanned : FannedOut(a, step)) \/ Continued(a)
         \/ (a = Root /\ RefusedAtOnce)
  PROVE  StepsFit'
  <1>0. pack \in Packs /\ Actors' = Actors /\ (\A b : Mounts(b)' = Mounts(b))
        /\ ItemActors' = ItemActors /\ PartActors' = PartActors
    BY PackStays DEF Control, TypeOK
  <1>1. SUFFICES ASSUME NEW b \in Actors PROVE Fits(b, pc'[b])
    BY <1>0 DEF StepsFit, Fits
  <1>2. Fits(b, pc[b]) /\ (Mounts(b) => b \in Members)
    BY DEF Control, StepsFit, Mounts
  <1>3. CASE Moved(a) \/ (a = Root /\ RefusedAtOnce)
    BY <1>2, <1>3, ActorsDiffer DEF Moved, RefusedAtOnce, OthersStay, Fits
  <1>4. CASE Joined(a)
    <2>1. a \in {Root} \cup Members /\ (a = Root \/ a \in Members) /\ Fits(a, pc[a])
      BY <1>4 DEF Joined, Fans, Control, StepsFit
    <2>2. b # a => pc'[b] = pc[b]
      BY <1>4 DEF Joined, OthersStay
    <2>3. CASE b = a
      <3>1. Mounts(a) => pc[a] # "layers" /\ a # Root
        BY <1>2, <2>3, ActorsDiffer DEF Fits
      <3>2. pc'[a] \in {"commit", "return"} /\ ~Mounts(a)
        BY <1>4, <3>1 DEF Joined, Fans
      <3> QED BY <2>1, <2>3, <3>2, ActorsDiffer DEF Fits
    <2> QED BY <1>2, <2>2, <2>3
  <1>5. ASSUME NEW step, FannedOut(a, step) PROVE Fits(b, pc'[b])
    <2>1. Fans(a, step) /\ (\A c \in Kids(a, step) : c # Root /\ c \in Actors)
      BY <1>0, <1>5, KidsAreActors DEF FannedOut
    <2>2. CASE b = a
      <3>1. ~Mounts(a) \/ a # Root
        BY <1>2, <2>2, ActorsDiffer
      <3> QED BY <1>2, <1>5, <2>1, <2>2, ActorsDiffer DEF FannedOut, Fans, Fits
    <2>3. CASE b \in Kids(a, step)
      <3>1. pc'[b] \in {"idle", "start"} /\ b # Root
        BY <1>5, <2>1, <2>3 DEF FannedOut
      <3> QED BY <3>1 DEF Fits
    <2>4. CASE b # a /\ b \notin Kids(a, step)
      BY <1>2, <1>5, <2>4 DEF FannedOut, OthersStay
    <2> QED BY <2>2, <2>3, <2>4
  <1>6. CASE Continued(a)
    <2>1. PICK c \in Kids(a, pc[a]) : pc'[c] = "start" /\ OthersStay({c}) /\ Fans(a, pc[a])
      BY <1>6 DEF Continued
    <2>2. c # Root
      BY <1>0, <2>1, KidsAreActors
    <2> QED BY <1>2, <2>1, <2>2 DEF OthersStay, Fits
  <1> QED BY <1>3, <1>4, <1>5, <1>6

LEMMA NestedStep ==
  ASSUME Control, pack' = pack, NEW a \in Actors,
         Moved(a) \/ Joined(a) \/ (\E step \in Fanned : FannedOut(a, step)) \/ Continued(a)
         \/ (a = Root /\ RefusedAtOnce)
  PROVE  Nested'
  <1>0. pack \in Packs /\ (\A b : Parent(b)' = Parent(b)) /\ Members' = Members
        /\ ItemActors' = ItemActors /\ PartActors' = PartActors
    BY PackStays DEF Control, TypeOK
  <1> DEFINE Under(b) == IF b \in ItemActors THEN "build" ELSE IF b \in Members THEN "index" ELSE "layers"
  <1>1. \A b \in Actors \ {Root} :
          /\ Fans(Parent(b), Under(b)) /\ Parent(b) \in Actors /\ b \in Kids(Parent(b), Under(b))
          /\ pc[b] \notin AtRest => pc[Parent(b)] = Under(b)
    <2> SUFFICES ASSUME NEW b \in Actors, b # Root
                 PROVE  /\ Fans(Parent(b), Under(b)) /\ Parent(b) \in Actors
                        /\ b \in Kids(Parent(b), Under(b))
                        /\ pc[b] \notin AtRest => pc[Parent(b)] = Under(b)
      OBVIOUS
    <2>1. CASE b \in ItemActors
      <3>1. Parent(b) = Root /\ Under(b) = "build" /\ Kids(Root, "build") = ItemActors
        BY <2>1, Parents DEF Kids
      <3> QED BY <2>1, <3>1, ActorsDiffer DEF Fans, Control, Nested
    <2>2. CASE b \in Members
      <3>1. Parent(b) = Root /\ Under(b) = "index" /\ Kids(Root, "index") = Members
        BY <2>2, Parents, ActorsDiffer DEF Kids
      <3> QED BY <2>2, <3>1, ActorsDiffer DEF Fans, Control, Nested
    <2>3. CASE b \in PartActors
      <3>1. Parent(b) \in Members /\ Under(b) = "layers"
        BY <2>3, Parents, ActorsDiffer
      <3>2. Kids(Parent(b), "layers") = {c \in PartActors : Parent(c) = Parent(b)}
        BY <1>0, <3>1, KidsAreActors DEF Fans
      <3> QED BY <2>3, <3>1, <3>2, ActorsDiffer DEF Fans, Control, Nested
    <2> QED BY <2>1, <2>2, <2>3, ActorsDiffer
  <1>2. SUFFICES ASSUME NEW b \in Actors, b # Root, pc'[b] \notin AtRest
                 PROVE  pc'[Parent(b)] = Under(b)
    <2>1. \A b \in ItemActors : Parent(b) = Root /\ Under(b) = "build"
      BY Parents
    <2>2. \A b \in Members : Parent(b) = Root /\ Under(b) = "index"
      BY Parents, ActorsDiffer
    <2>3. \A b \in PartActors : Under(b) = "layers"
      BY ActorsDiffer
    <2> HIDE DEF Under
    <2> QED BY <1>0, <2>1, <2>2, <2>3, ActorsDiffer DEF Nested, AtRest
  <1> HIDE DEF Under
  <1>3. CASE Moved(a) \/ (a = Root /\ RefusedAtOnce)
    <2>1. a # Parent(b)
      BY <1>1, <1>2, <1>3 DEF Moved, RefusedAtOnce, Fans, AtRest, Fanned, OthersStay
    <2>2. pc[a] \notin AtRest
      BY <1>3 DEF Moved, RefusedAtOnce, AtRest
    <2> QED BY <1>1, <1>2, <1>3, <2>1, <2>2 DEF Moved, RefusedAtOnce, OthersStay
  <1>4. CASE Joined(a)
    <2>1. pc[a] \notin AtRest /\ \A c \in Actors : c # a => pc'[c] = pc[c]
      BY <1>4 DEF Joined, Fans, AtRest, OthersStay
    <2>2. pc[b] \notin AtRest
      BY <1>2, <2>1
    <2>3. a # Parent(b)
      BY <1>1, <1>2, <1>4, <2>2 DEF Joined
    <2> QED BY <1>1, <1>2, <2>1, <2>2, <2>3
  <1>5. ASSUME NEW step, FannedOut(a, step) PROVE pc'[Parent(b)] = Under(b)
    <2>1. Fans(a, step) /\ pc'[a] = step /\ pc[a] \notin AtRest
      BY <1>5 DEF FannedOut, AtRest
    <2>2. \A c \in Kids(a, step) : Parent(c) = a /\ c # a /\ c \in Actors /\ c # Root /\ Under(c) = step /\ pc[c] \in AtRest
      <3>1. \A c \in Kids(a, step) : pc[c] = "idle"
        BY <1>5 DEF FannedOut
      <3> QED BY <1>0, <2>1, <3>1, KidsAreActors, ActorsDiffer DEF Under, Fans, AtRest
    <2>3. CASE b \in Kids(a, step)
      BY <2>1, <2>2, <2>3
    <2>4. CASE b \notin Kids(a, step)
      <3>1. pc[b] \notin AtRest
        BY <1>2, <1>5, <2>1, <2>4 DEF FannedOut, OthersStay
      <3>2. pc[Parent(b)] = Under(b) /\ b \in Kids(Parent(b), Under(b)) /\ Parent(b) \in Actors
        BY <1>1, <1>2, <3>1
      <3>3. Parent(b) # a
        <4> SUFFICES ASSUME Parent(b) = a PROVE FALSE
          OBVIOUS
        <4>1. Under(b) = "build" /\ step = "index" /\ a = Root
          BY <1>5, <3>2, <2>1, <1>1 DEF FannedOut, Fans, Under
        <4>2. b \in ItemActors
          BY <4>1 DEF Under
        <4> QED BY <1>5, <3>1, <4>1, <4>2 DEF FannedOut
      <3>4. Parent(b) \notin Kids(a, step)
        BY <2>2, <3>2 DEF AtRest, Under
      <3> QED BY <1>5, <3>2, <3>3, <3>4 DEF FannedOut, OthersStay
    <2> QED BY <2>3, <2>4
  <1>6. CASE Continued(a)
    <2>1. PICK c \in Kids(a, pc[a]) : pc[c] = "idle" /\ OthersStay({c}) /\ Fans(a, pc[a])
      BY <1>6 DEF Continued
    <2>2. c \in Actors /\ c # Root /\ Parent(c) = a /\ c # a /\ Under(c) = pc[a]
      BY <1>0, <2>1, KidsAreActors, ActorsDiffer DEF Fans, Under
    <2>3. CASE b = c
      BY <2>1, <2>2, <2>3 DEF OthersStay
    <2>4. CASE b # c
      <3>1. pc[Parent(b)] = Under(b) /\ Parent(b) \in Actors
        BY <1>1, <1>2, <2>1, <2>4 DEF OthersStay
      <3>2. Parent(b) # c
        BY <2>1, <3>1 DEF Under
      <3> QED BY <2>1, <3>1, <3>2 DEF OthersStay
    <2> QED BY <2>3, <2>4
  <1> QED BY <1>3, <1>4, <1>5, <1>6

LEMMA NotBegunStep ==
  ASSUME Control, pack' = pack, NEW a \in Actors,
         Moved(a) \/ Joined(a) \/ (\E step \in Fanned : FannedOut(a, step)) \/ Continued(a)
         \/ (a = Root /\ RefusedAtOnce)
  PROVE  NotBegun'
  <1>0. pack \in Packs /\ (\A b : Parent(b)' = Parent(b)) /\ Members' = Members
        /\ ItemActors' = ItemActors /\ PartActors' = PartActors
    BY PackStays DEF Control, TypeOK
  (* Who is not where he was, and where he is.                             *)
  <1> DEFINE StartedBy(kids) ==
        /\ kids \in SUBSET (Actors \ {Root, a})
        /\ \A b \in kids : Parent(b) = a /\ pc[b] = "idle"
        /\ \A b \in kids : (b \in ItemActors => pc'[Root] = "build") /\ (b \in Members => pc'[Root] = "index")
                           /\ (b \in PartActors => pc'[Parent(b)] = "layers")
        /\ (pc[a] \notin AtRest /\ pc'[a] \notin {"idle", "start", "validate"}) \/ pc'[a] = pc[a]
        /\ pc'[a] = "build" => pc[a] \in {"validate", "build"}
        /\ \A b \in Actors \ ({a} \cup kids) : pc'[b] = pc[b]
  <1>1. \E kids : StartedBy(kids)
    <2>1. CASE Moved(a) \/ Joined(a) \/ (a = Root /\ RefusedAtOnce)
      <3>1. pc[a] \notin AtRest /\ pc'[a] \notin {"idle", "start", "validate", "build"}
            /\ \A b \in Actors \ {a} : pc'[b] = pc[b]
        BY <2>1 DEF Moved, Joined, RefusedAtOnce, Fans, AtRest, OthersStay, Fanned
      <3>2. StartedBy({})
        BY <3>1
      <3> HIDE DEF StartedBy
      <3> QED BY <3>2
    <2>2. ASSUME NEW step, FannedOut(a, step)
          PROVE  \E kids : StartedBy(kids)
      <3>1. Fans(a, step) /\ pc'[a] = step /\ pc[a] \notin AtRest /\ pc'[a] \notin {"idle", "start", "validate"}
            /\ (step = "build" => pc[a] \in {"validate", "build"})
        BY <2>2 DEF FannedOut, AtRest, Fans
      <3>2. Kids(a, step) \in SUBSET (Actors \ {Root, a})
            /\ \A b \in Kids(a, step) : Parent(b) = a /\ pc[b] = "idle"
        BY <1>0, <2>2, <3>1, KidsAreActors DEF FannedOut
      <3>3. \A b \in Kids(a, step) : (b \in ItemActors => pc'[Root] = "build") /\ (b \in Members => pc'[Root] = "index")
                             /\ (b \in PartActors => pc'[Parent(b)] = "layers")
        BY <1>0, <3>1, <3>2, KidsAreActors, ActorsDiffer DEF Fans
      <3>4. \A b \in Actors \ ({a} \cup Kids(a, step)) : pc'[b] = pc[b]
        BY <2>2 DEF FannedOut, OthersStay
      <3> WITNESS Kids(a, step)
      <3> QED BY <3>1, <3>2, <3>3, <3>4
    <2>3. CASE Continued(a)
      <3>1. PICK c \in Kids(a, pc[a]) : pc[c] = "idle" /\ OthersStay({c}) /\ Fans(a, pc[a])
        BY <2>3 DEF Continued
      <3>2. c \in Actors /\ c # Root /\ c # a /\ Parent(c) = a
            /\ (c \in ItemActors => a = Root /\ pc[a] = "build")
            /\ (c \in Members => a = Root /\ pc[a] = "index")
            /\ (c \in PartActors => pc[a] = "layers")
        BY <1>0, <3>1, KidsAreActors, ActorsDiffer DEF Fans
      <3>3. pc'[a] = pc[a] /\ \A b \in Actors \ {a, c} : pc'[b] = pc[b]
        BY <3>1, <3>2 DEF OthersStay
      <3> WITNESS {c}
      <3> QED BY <3>1, <3>2, <3>3
    <2> QED BY <2>1, <2>2, <2>3
  <1>2. PICK kids : StartedBy(kids)
    BY <1>1
  <1>3. ASSUME pc'[Root] = "validate", NEW b \in ItemActors PROVE pc'[b] = "idle"
    <2>1. pc[Root] = "validate"
      BY <1>2, <1>3, ActorsDiffer
    <2>2. pc[b] = "idle" /\ b \notin kids
      BY <1>2, <1>3, <2>1 DEF Control, NotBegun
    <2>3. b # a \/ pc'[a] = pc[a]
      BY <1>2, <2>2 DEF AtRest
    <2> QED BY <1>2, <2>2, <2>3, ActorsDiffer
  <1>4. ASSUME pc'[Root] \in {"validate", "build"}, NEW b \in Members PROVE pc'[b] = "idle"
    <2>1. pc[Root] \in {"validate", "build"}
      BY <1>2, <1>4, ActorsDiffer
    <2>2. pc[b] = "idle" /\ b \notin kids
      BY <1>2, <1>4, <2>1 DEF Control, NotBegun
    <2>3. b # a \/ pc'[a] = pc[a]
      BY <1>2, <2>2 DEF AtRest
    <2> QED BY <1>2, <2>2, <2>3, ActorsDiffer
  <1>5. ASSUME NEW b \in PartActors, pc'[Parent(b)] \in {"idle", "start"} PROVE pc'[b] = "idle"
    <2>0. Parent(b) \in Members /\ Parent(b) \in Actors /\ b \in Actors
      BY ActorsDiffer, Parents
    <2>1. pc[Parent(b)] \in {"idle", "start"}
      BY <1>2, <1>5, <2>0
    <2>2. pc[b] = "idle" /\ b \notin kids
      BY <1>2, <1>5, <2>1 DEF Control, NotBegun
    <2>3. b # a \/ pc'[a] = pc[a]
      BY <1>2, <2>2 DEF AtRest
    <2> QED BY <1>2, <2>0, <2>2, <2>3, ActorsDiffer
  <1> QED BY <1>0, <1>3, <1>4, <1>5 DEF NotBegun

LEMMA EldersStep ==
  ASSUME Control, pack' = pack, NEW a \in Actors,
         Moved(a) \/ Joined(a) \/ (\E step \in Fanned : FannedOut(a, step)) \/ Continued(a)
         \/ (a = Root /\ RefusedAtOnce)
  PROVE  EldersAreDone'
  <1>0. pack \in Packs /\ Members' = Members /\ \A b, step : Kids(b, step)' = Kids(b, step) /\ Ordered(b, step)' = Ordered(b, step)
    BY PackStays DEF Control, TypeOK
  <1>1. SUFFICES ASSUME NEW p \in {Root} \cup Members, pc'[p] \in Fanned, Ordered(p, pc'[p]),
                        NEW b \in Kids(p, pc'[p]), NEW c \in Kids(p, pc'[p]),
                        Position(b) < Position(c), pc'[c] # "idle"
                 PROVE  pc'[b] = "done" /\ res'[b] = Ok
    BY <1>0 DEF EldersAreDone, Position
  <1>2. p \in Actors
    BY ActorsDiffer
  (* p was there before, and c no longer idle.                             *)
  <1>3. ASSUME pc[p] = pc'[p], pc[c] # "idle", (pc'[b] = pc[b] /\ res'[b] = res[b]) \/ pc[b] \notin AtRest
        PROVE  pc'[b] = "done" /\ res'[b] = Ok
    BY <1>1, <1>3 DEF Control, EldersAreDone, AtRest
  <1>4. CASE Moved(a) \/ Joined(a) \/ (a = Root /\ RefusedAtOnce)
    <2>1. pc[a] \notin AtRest /\ pc'[a] \notin Fanned /\ OthersStay({a})
      BY <1>4 DEF Moved, Joined, RefusedAtOnce, Fans, AtRest, Fanned, OthersStay
    <2>2. p # a
      BY <1>1, <2>1
    <2>3. pc[p] = pc'[p]
      BY <1>2, <2>1, <2>2 DEF OthersStay
    <2>4. Fans(p, pc[p])
      BY <1>1, <1>2, <2>3, FannedAre
    <2>5. b \in Actors /\ c \in Actors
      BY <1>0, <1>1, <2>3, <2>4, KidsAreActors
    <2>6. pc[c] # "idle"
      BY <1>1, <2>1, <2>5 DEF OthersStay, AtRest
    <2> QED BY <1>3, <2>1, <2>3, <2>5, <2>6 DEF OthersStay
  <1>5. ASSUME NEW step, FannedOut(a, step) PROVE pc'[b] = "done" /\ res'[b] = Ok
    <2>1. Fans(a, step) /\ pc'[a] = step /\ step \in Fanned /\ pc[a] \notin AtRest
          /\ \A d \in Kids(a, step) : pc'[d] = IF Ordered(a, step) /\ Position(d) # 1 THEN "idle" ELSE "start"
      BY <1>5 DEF FannedOut, AtRest, Fans, Fanned
    <2>2. \A d \in Kids(a, step) : Parent(d) = a /\ d # a
      BY <1>0, <2>1, KidsAreActors
    <2>3. CASE p = a
      <3>1. Position(c) = 1 /\ c \in Kids(a, step) /\ b \in Kids(a, step)
        BY <1>1, <2>1, <2>3
      <3>2. Position(b) \in Nat \ {0}
        BY <1>0, <2>1, <3>1, CountKids, KidsAre
      <3> QED BY <1>1, <3>1, <3>2
    <2>4. CASE p # a
      <3>1. p \notin Kids(a, step)
        BY <1>1, <2>1 DEF Fanned
      <3>2. pc[p] = pc'[p]
        BY <1>2, <1>5, <2>4, <3>1 DEF FannedOut, OthersStay
      <3>3. Fans(p, pc[p])
        BY <1>1, <1>2, <3>2, FannedAre
      <3>4. b \in Actors /\ c \in Actors /\ Parent(b) = p /\ Parent(c) = p
        BY <1>0, <1>1, <3>2, <3>3, KidsAreActors
      <3>5. b \notin Kids(a, step) /\ c \notin Kids(a, step)
        BY <2>2, <2>4, <3>4
      <3>6. (b # a => pc'[b] = pc[b] /\ res'[b] = res[b]) /\ (c # a => pc'[c] = pc[c])
        BY <1>5, <3>4, <3>5 DEF FannedOut, OthersStay
      <3>7. pc[c] # "idle"
        BY <1>1, <2>1, <3>6 DEF AtRest
      <3> QED BY <1>3, <2>1, <3>2, <3>6, <3>7
    <2> QED BY <2>3, <2>4
  <1>6. CASE Continued(a)
    <2>1. PICK e, d \in Kids(a, pc[a]) :
            /\ pc[e] = "done" /\ res[e] = Ok /\ Position(d) = Position(e) + 1
            /\ pc[d] = "idle" /\ pc'[d] = "start" /\ res'[d] = res[d]
            /\ OthersStay({d}) /\ Fans(a, pc[a]) /\ Ordered(a, pc[a])
      BY <1>6 DEF Continued
    <2>2. d \in Actors /\ d # Root /\ Parent(d) = a /\ d # a /\ e \in Actors
      BY <1>0, <2>1, KidsAreActors
    <2>3. p # d /\ pc'[p] = pc[p]
      BY <1>1, <1>2, <2>1 DEF OthersStay, Fanned
    <2>4. Fans(p, pc[p])
      BY <1>1, <1>2, <2>3, FannedAre
    <2>5. b \in Actors /\ c \in Actors /\ Parent(b) = p /\ Parent(c) = p
      BY <1>0, <1>1, <2>3, <2>4, KidsAreActors
    <2>6. CASE c # d
      <3>1. pc[c] # "idle"
        BY <1>1, <2>1, <2>5, <2>6 DEF OthersStay
      <3>2. pc[b] = "done" /\ res[b] = Ok
        BY <1>1, <2>3, <3>1 DEF Control, EldersAreDone
      <3>3. b # d
        BY <2>1, <3>2
      <3> QED BY <2>1, <2>5, <3>2, <3>3 DEF OthersStay
    <2>7. CASE c = d
      <3>1. p = a
        BY <2>2, <2>5, <2>7
      <3>2. Position(b) \in Nat /\ Position(e) \in Nat
        BY <1>0, <1>1, <2>1, <2>3, <3>1, CountKids, KidsAre
      <3>3. CASE Position(b) = Position(e)
        <4>1. b = e
          BY <1>0, <1>1, <2>1, <2>3, <3>1, <3>3, KidsAre
        <4>2. b # d
          BY <2>1, <4>1
        <4> QED BY <2>1, <2>2, <4>1, <4>2 DEF OthersStay
      <3>4. CASE Position(b) # Position(e)
        <4>1. Position(b) < Position(e)
          BY <1>1, <2>1, <2>7, <3>2, <3>4
        <4>2. pc[b] = "done" /\ res[b] = Ok
          BY <1>1, <2>1, <2>3, <3>1, <4>1 DEF Control, EldersAreDone
        <4>3. b # d
          BY <2>1, <4>2
        <4> QED BY <2>1, <2>5, <4>2, <4>3 DEF OthersStay
      <3> QED BY <3>3, <3>4
    <2> QED BY <2>6, <2>7
  <1> QED BY <1>4, <1>5, <1>6

-----------------------------------------------------------------------------
(* Types, step by step.                                                    *)

(* A step that moves one actor on, with an error or without, and touches   *)
(* no more than the slots and the disk.                                    *)
LEMMA MovesTyped ==
  ASSUME TypeOK, NEW a \in Actors, NEW step \in Steps, NEW err \in Outcomes,
         Goto(a, step) \/ GotoWith(a, step, err),
         pc[a] \notin {"requests", "done"}, step # "requests",
         slots' \in Int, UNCHANGED <<tasks, failure, blobs, manifests, tag, pack, group, list, requests>>,
         disk' \in [Paths -> Digests]
  PROVE  TypeOK'
  <1>1. pc' = [pc EXCEPT ![a] = step] /\ (res' = res \/ res' = [res EXCEPT ![a] = err])
    BY DEF Goto, GotoWith
  <1>2. Actors' = Actors /\ \A b : Blank(b)' = Blank(b)
    BY PackStays
  <1>3. pc' \in [Actors -> Steps] /\ res' \in [Actors -> Outcomes \cup {Refused}]
    BY <1>1 DEF TypeOK
  <1>4. \A b \in Actors : pc[b] = pc'[b] \/ (b = a /\ pc'[b] = step)
    BY <1>1 DEF TypeOK
  <1>5. \A b \in Actors : res'[b] = Refused => b = Root /\ pc'[b] = "done"
    BY <1>1, <1>4, OutcomesDiffer DEF TypeOK
  <1>6. \A b \in Actors : requests'[b] # << >> <=> pc'[b] = "requests"
    BY <1>4 DEF TypeOK
  <1> QED BY <1>2, <1>3, <1>5, <1>6 DEF TypeOK

LEMMA FansTyped ==
  ASSUME Control, NEW a \in Actors, NEW step \in Fanned, FannedOut(a, step), FanOut(a, step),
         UNCHANGED <<budgetVars, data, children, requests>>
  PROVE  TypeOK'
  <1>0. TypeOK /\ pack \in Packs /\ Fans(a, step)
    BY DEF Control, TypeOK, FannedOut
  <1>1. Actors' = Actors /\ \A b : Blank(b)' = Blank(b)
    BY PackStays DEF data
  <1>2. step \in Steps /\ "start" \in Steps /\ step # "requests"
    BY DEF Steps, Fanned
  <1>3. pc' \in [Actors -> Steps] /\ res' = res
    BY <1>0, <1>2 DEF FanOut, TypeOK
  <1>4. \A b \in Actors : pc'[b] # pc[b] => pc[b] # "requests" /\ pc'[b] # "requests" /\ pc[b] # "done"
    BY <1>2 DEF FannedOut, OthersStay
  <1>5. \A b \in Actors : res'[b] = Refused => b = Root /\ pc'[b] = "done"
    BY <1>0, <1>3, <1>4 DEF TypeOK
  <1>6. \A b \in Actors : requests'[b] # << >> <=> pc'[b] = "requests"
    BY <1>0, <1>4 DEF TypeOK
  <1> QED BY <1>0, <1>1, <1>3, <1>5, <1>6 DEF TypeOK, budgetVars, data, clientVars, children

LEMMA LocalTypes ==
  ASSUME ContentAddressed, Control, NEW a \in Actors,
         \/ Commit(a) \/ TakeSlot(a) \/ LeaveQueue(a)
         \/ ResolveItem(a) \/ FailItem(a) \/ OpenSource(a)
         \/ AwaitUpload(a) \/ ShareOutcome(a) \/ AbandonWait(a) \/ Release(a)
  PROVE  TypeOK'
  <1> DEFINE Kept0 == UNCHANGED <<tasks, failure, blobs, manifests, tag, pack, group, list, requests>>
             Goes(step, err) == step \in Steps /\ err \in Outcomes /\ step # "requests"
                                /\ (Goto(a, step) \/ GotoWith(a, step, err))
  <1>0. TypeOK /\ slots \in Int /\ disk \in [Paths -> Digests] /\ Fits(a, pc[a])
    BY DEF Control, TypeOK, StepsFit
  <1>1. SUFFICES /\ pc[a] \notin {"requests", "done"} /\ \E step, err : Goes(step, err)
                 /\ slots' \in Int /\ disk' \in [Paths -> Digests] /\ Kept0
    BY <1>0, MovesTyped
  <1>2. CASE Commit(a) \/ LeaveQueue(a)
    <2>1. Goto(a, "queue") \/ GotoWith(a, "return", Canceled)
      BY <1>2 DEF Commit, LeaveQueue, AskForSlot
    <2>2. Goes("queue", Canceled) \/ Goes("return", Canceled)
      BY <2>1, OutcomesDiffer DEF Steps
    <2> HIDE DEF Goes
    <2> QED BY <1>0, <1>2, <2>2 DEF Commit, LeaveQueue, budgetVars, data, clientVars, children
  <1>3. CASE TakeSlot(a) \/ Release(a)
    <2>1. Goto(a, "held") \/ Goto(a, "return")
      BY <1>3 DEF TakeSlot, Release
    <2>2. Goes("held", Canceled) \/ Goes("return", Canceled)
      BY <2>1, OutcomesDiffer DEF Steps
    <2>3. slots' \in Int
      BY <1>0, <1>3 DEF TakeSlot, Release, AcquireSlot, ReleaseSlot
    <2> HIDE DEF Goes
    <2> QED BY <1>0, <1>3, <2>2, <2>3 DEF TakeSlot, Release, data, clientVars, children
  <1>4. CASE ResolveItem(a)
    <2>1. Goes("release", Canceled)
      BY <1>4, OutcomesDiffer DEF ResolveItem, Steps
    <2>2. disk' \in [Paths -> Digests]
      <3> DEFINE item == Items[a[2]]
      <3>1. item.kind = "http" => Served[item.files[1]] \in Digests
        <4>1. PICK n \in DOMAIN Items : a = ItemOf(n)
          BY <1>4 DEF ResolveItem, ItemActors
        <4>2. a[2] = n
          BY <4>1 DEF ItemOf
        <4> QED BY <4>2, <1>0, PackAssumption DEF TypeOK, Items
      <3> QED BY <1>0, <1>4, <3>1 DEF ResolveItem
    <2> HIDE DEF Goes
    <2> QED BY <1>0, <1>4, <2>1, <2>2 DEF ResolveItem, budgetVars, clientVars, children
  <1>5. CASE FailItem(a)
    <2>1. \/ GotoWith(a, "release", Unreadable) \/ GotoWith(a, "release", Canceled)
          \/ GotoWith(a, "release", DeadlineExceeded)
      BY <1>5, ItemsFail DEF FailItem
    <2>2. Goes("release", Canceled) \/ Goes("release", Unreadable) \/ Goes("release", DeadlineExceeded)
      BY <2>1, OutcomesDiffer DEF Steps
    <2> HIDE DEF Goes
    <2> QED BY <1>0, <1>5, <2>2 DEF FailItem, budgetVars, data, clientVars, children
  <1>6. CASE OpenSource(a) \/ AwaitUpload(a) \/ AbandonWait(a)
    <2>1. GotoWith(a, "release", Unreadable) \/ GotoWith(a, "release", Canceled)
          \/ Goto(a, "once") \/ Goto(a, "wait")
      BY <1>6 DEF OpenSource, AwaitUpload, AbandonWait
    <2>2. Goes("release", Unreadable) \/ Goes("release", Canceled) \/ Goes("once", Canceled) \/ Goes("wait", Canceled)
      BY <2>1, OutcomesDiffer DEF Steps
    <2> HIDE DEF Goes
    <2> QED BY <1>0, <1>6, <2>2 DEF OpenSource, AwaitUpload, AbandonWait, budgetVars, data, clientVars, children
  <1>7. CASE ShareOutcome(a)
    <2>1. a \notin ItemActors /\ Closed(Target(a))
      BY <1>0, <1>7 DEF ShareOutcome, Fits
    <2>2. Target(a) \in Digests
      BY <1>0, <2>1, TargetsAreDigests, ActorsDiffer
    <2>3. tasks[Target(a)] \in Outcomes
      BY <1>0, <2>1, <2>2, OutcomesDiffer DEF TypeOK, Closed
    <2>4. Goes("release", tasks[Target(a)])
      BY <1>7, <2>3 DEF ShareOutcome, Steps
    <2> HIDE DEF Goes
    <2> QED BY <1>0, <1>7, <2>4 DEF ShareOutcome, budgetVars, data, clientVars, children
  <1> QED BY <1>2, <1>3, <1>4, <1>5, <1>6, <1>7

LEMMA FirstOf ==
  ASSUME NEW X, NEW s \in Seq(X), s # << >>
  PROVE  /\ Head(s) \in X /\ Head(s) = s[1] /\ Tail(s) \in Seq(X)
         /\ Len(s) \in Nat \ {0} /\ Len(Tail(s)) = Len(s) - 1
         /\ \A i \in 1 .. Len(Tail(s)) : Tail(s)[i] = s[i + 1]
OBVIOUS

LEMMA FunctionIsSeq ==
  ASSUME NEW X, NEW n \in Nat, NEW f \in [1 .. n -> X]
  PROVE  f \in Seq(X) /\ Len(f) = n
OBVIOUS

Requests == Seq([op : Ops, of : Digests])

LEMMA AsksTyped ==
  ASSUME ContentAddressed, NEW d \in Digests
  PROVE  /\ \A op \in Ops : Ask(op, d) \in Requests /\ Ask(op, d) # << >>
         /\ MountDescriptor(d) \in Requests /\ MountManifest(d) \in Requests
         /\ Push(d) \in Requests /\ Push(d) # << >>
         /\ MountFrom(d) \in Requests /\ MountFrom(d) # << >>
  <1>1. \A e \in Digests, op \in Ops : [op |-> op, of |-> e] \in [op : Ops, of : Digests]
    OBVIOUS
  <1>2. \A r \in [op : Ops, of : Digests] : <<r>> \in Requests /\ <<r>> # << >> /\ <<r>>[1] = r
    BY DEF Requests
  <1>3. \A e \in Digests, op \in Ops : Ask(op, e) \in Requests /\ Ask(op, e) # << >>
                                        /\ Ask(op, e)[1] \in [op : Ops, of : Digests]
    BY <1>1, <1>2 DEF Ask
  <1>4. \A e \in Digests : MountDescriptor(e) \in Requests /\ MountDescriptor(e)[1] \in [op : Ops, of : Digests]
    BY <1>3 DEF MountDescriptor, Ops
  <1>5. Push(d) \in Requests /\ Push(d) # << >> /\ MountFrom(d) \in Requests /\ MountFrom(d) # << >>
    BY <1>3 DEF Push, MountFrom, Ops
  <1>6. MountManifest(d) \in Requests
    <2> DEFINE asked == [i \in 1 .. Len(Parts(d)) |-> MountDescriptor(Parts(d)[i])[1]]
    <2>1. Parts(d) \in Seq(Digests)
      BY DEF ContentAddressed
    <2>2. \A i \in 1 .. Len(Parts(d)) : Parts(d)[i] \in Digests
      BY <2>1
    <2>3. asked \in [1 .. Len(Parts(d)) -> [op : Ops, of : Digests]] /\ Len(Parts(d)) \in Nat
      BY <1>4, <2>1, <2>2
    <2>4. MountManifest(d) = asked \o Push(d)
      BY DEF MountManifest
    <2> HIDE DEF asked
    <2>5. asked \in Requests
      BY <2>3, FunctionIsSeq DEF Requests
    <2> QED BY <1>5, <2>4, <2>5 DEF Requests
  <1> QED BY <1>3, <1>4, <1>5, <1>6

LEMMA RequestTypes ==
  ASSUME ContentAddressed, Control, NEW a \in Actors,
         BeginMount(a) \/ ClaimUpload(a) \/ RequestGranted(a) \/ RequestRefused(a)
  PROVE  TypeOK'
  <1>0. TypeOK /\ Fits(a, pc[a]) /\ (Mounts(a) => a \in Members)
    BY DEF Control, StepsFit, Mounts
  <1>1. pack' = pack
    BY DEF BeginMount, ClaimUpload, RequestGranted, RequestRefused, data
  <1>2. Actors' = Actors /\ \A b : Blank(b)' = Blank(b)
    BY <1>1, PackStays
  <1>3. SUFFICES /\ \E step \in Steps, r \in Requests :
                      /\ requests' = [requests EXCEPT ![a] = r]
                      /\ r # << >> <=> step = "requests"
                      /\ pc' = [pc EXCEPT ![a] = step]
                 /\ pc[a] \in {"held", "once", "requests"}
                 /\ res' \in [Actors -> Outcomes \cup {Refused}]
                 /\ \A b \in Actors : res'[b] = Refused => res[b] = Refused
                 /\ tasks' \in [Digests -> {Unclaimed, Claimed} \cup Outcomes]
                 /\ blobs' \subseteq Digests
                 /\ UNCHANGED <<slots, failure, manifests, tag, disk, group, list>>
    <2>1. PICK step \in Steps, r \in Requests :
                      /\ requests' = [requests EXCEPT ![a] = r]
                      /\ r # << >> <=> step = "requests"
                      /\ pc' = [pc EXCEPT ![a] = step]
      BY <1>3
    <2>2. /\ pc' \in [Actors -> Steps] /\ requests' \in [Actors -> Requests]
          /\ \A b \in Actors : requests'[b] # << >> <=> pc'[b] = "requests"
          /\ \A b \in Actors : res[b] = Refused => b # a
          /\ \A b \in Actors \ {a} : pc'[b] = pc[b]
      BY <1>0, <1>3, <2>1 DEF TypeOK, Requests
    <2>3. \A b \in Actors : res'[b] = Refused => b = Root /\ pc'[b] = "done"
      BY <1>0, <1>3, <2>2 DEF TypeOK
    <2> QED BY <1>0, <1>1, <1>2, <1>3, <2>2, <2>3 DEF TypeOK, Requests
  <1>4. CASE BeginMount(a)
    <2>1. Items[a[2]].image \in Digests
      BY <1>0, <1>4, TargetsAreDigests DEF BeginMount
    <2>2. MountFrom(Items[a[2]].image) \in Requests /\ MountFrom(Items[a[2]].image) # << >>
      BY <2>1, AsksTyped
    <2> QED BY <1>0, <1>4, <2>2 DEF BeginMount, Goto, TypeOK, Steps, budgetVars, data, clientVars, children
  <1>5. CASE ClaimUpload(a)
    <2>1. Target(a) \in Digests
      BY <1>0, <1>5, TargetsAreDigests, ActorsDiffer DEF ClaimUpload, Fits
    <2>2. Push(Target(a)) \in Requests /\ Push(Target(a)) # << >>
      BY <2>1, AsksTyped
    <2>3. tasks' \in [Digests -> {Unclaimed, Claimed} \cup Outcomes]
      BY <1>0, <1>5 DEF TypeOK, ClaimUpload, Claim
    <2> QED BY <1>0, <1>5, <2>2, <2>3 DEF ClaimUpload, Goto, TypeOK, Steps, data, clientVars, children
  <1>6. CASE RequestGranted(a)
    <2>1. requests[a] \in Requests /\ requests[a] # << >>
      BY <1>0, <1>6 DEF TypeOK, Requests, RequestGranted
    <2>2. Head(requests[a]) \in [op : Ops, of : Digests] /\ Tail(requests[a]) \in Requests
      BY <2>1, FirstOf DEF Requests
    <2> DEFINE d == Head(requests[a]).of
    <2>3. d \in Digests
      BY <2>2
    <2>4. Continuations(Head(requests[a])) \subseteq Requests
      <3>1. /\ << >> \in Requests /\ MountDescriptor(d) \in Requests /\ MountManifest(d) \in Requests
            /\ Push(d) \in Requests /\ Ask("put", d) \in Requests
        <4>1. "put" \in Ops /\ << >> \in Requests
          BY DEF Requests, Ops
        <4> QED BY <2>3, <4>1, AsksTyped
      <3> QED BY <3>1 DEF Continuations
    <2>5. PICK more \in Continuations(Head(requests[a])) :
            LET rest == more \o Tail(requests[a]) IN
            /\ Serve(Head(requests[a]), more)
            /\ requests' = [requests EXCEPT ![a] = rest]
            /\ Goto(a, IF rest = << >> THEN Ended(a) ELSE "requests")
      BY <1>6 DEF RequestGranted
    <2>6. more \o Tail(requests[a]) \in Requests
      BY <2>2, <2>4, <2>5 DEF Requests
    <2>7. blobs' \subseteq Digests
      BY <1>0, <2>3, <2>5 DEF Serve, TypeOK
    <2>8. Ended(a) \in Steps /\ Ended(a) # "requests" /\ "requests" \in Steps
      BY DEF Ended, Steps
    <2>9. \E step \in Steps, r \in Requests :
                      /\ requests' = [requests EXCEPT ![a] = r]
                      /\ r # << >> <=> step = "requests"
                      /\ pc' = [pc EXCEPT ![a] = step]
      BY <2>5, <2>6, <2>8 DEF Goto
    <2> QED BY <1>0, <1>6, <2>5, <2>7, <2>9 DEF RequestGranted, Goto, TypeOK, budgetVars, children
  <1>7. CASE RequestRefused(a)
    <2>1. PICK err \in Outcomes : GotoWith(a, Ended(a), err)
      <3>1. requests[a] \in Requests /\ requests[a] # << >>
        BY <1>0, <1>7 DEF TypeOK, Requests, RequestRefused
      <3>2. Head(requests[a]).of \in Digests
        <4>1. Head(requests[a]) \in [op : Ops, of : Digests]
          BY <3>1, FirstOf DEF Requests
        <4> QED BY <4>1
      <3> QED BY <1>7, <3>2, RequestsFail, OutcomesDiffer DEF RequestRefused
    <2>2. Ended(a) \in Steps /\ Ended(a) # "requests" /\ << >> \in Requests
      BY DEF Ended, Steps, Requests
    <2>3. requests' = [requests EXCEPT ![a] = << >>] /\ pc' = [pc EXCEPT ![a] = Ended(a)]
          /\ res' = [res EXCEPT ![a] = err] /\ pc[a] = "requests"
      BY <1>7, <2>1 DEF RequestRefused, GotoWith
    <2>4. res' \in [Actors -> Outcomes \cup {Refused}]
          /\ \A b \in Actors : res'[b] = Refused => res[b] = Refused
      BY <1>0, <2>3, OutcomesDiffer DEF TypeOK
    <2> QED BY <1>0, <1>7, <2>2, <2>3, <2>4 DEF RequestRefused, TypeOK, budgetVars, data, clientVars, children
  <1> QED BY <1>4, <1>5, <1>6, <1>7

LEMMA ReplacedIn ==
  ASSUME NEW X, NEW s \in Seq(X), NEW x \in X, NEW i
  PROVE  /\ [s EXCEPT ![i] = x] \in Seq(X) /\ Len([s EXCEPT ![i] = x]) = Len(s)
         /\ \A j \in 1 .. Len(s) : [s EXCEPT ![i] = x][j] = IF j = i THEN x ELSE s[j]
  <1>1. Len(s) \in Nat /\ s \in [1 .. Len(s) -> X]
    OBVIOUS
  <1> DEFINE t == [s EXCEPT ![i] = x]
  <1>2. t \in [1 .. Len(s) -> X] /\ \A j \in 1 .. Len(s) : t[j] = IF j = i THEN x ELSE s[j]
    BY <1>1
  <1> HIDE DEF t
  <1>3. t \in Seq(X) /\ Len(t) = Len(s)
    BY <1>1, <1>2, FunctionIsSeq
  <1> QED BY <1>2, <1>3 DEF t

LEMMA SettleTypes ==
  ASSUME ContentAddressed, Control, NEW a \in Actors, Settle(a)
  PROVE  TypeOK'
  <1>0. TypeOK /\ Fits(a, pc[a]) /\ pack' = pack /\ pc[a] = "settle"
    BY DEF Control, StepsFit, Settle, data
  <1>1. Actors' = Actors /\ \A b : Blank(b)' = Blank(b)
    BY <1>0, PackStays
  <1>2. res[a] \in Outcomes
    BY <1>0 DEF TypeOK
  <1>3. tasks' \in [Digests -> {Unclaimed, Claimed} \cup Outcomes] /\ failure' \in {Ok} \cup Failures
    BY <1>0, <1>2, OutcomesDiffer DEF Settle, CloseTask, Record, TypeOK, Outcomes
  <1>4. pc' = [pc EXCEPT ![a] = "release"] /\ res' = res /\ requests' = requests
    BY DEF Settle, Goto
  <1>5. pc' \in [Actors -> Steps] /\ (\A b \in Actors : res'[b] = Refused => b = Root /\ pc'[b] = "done")
        /\ (\A b \in Actors : requests'[b] # << >> <=> pc'[b] = "requests")
    BY <1>0, <1>4 DEF TypeOK, Steps
  <1> QED BY <1>0, <1>1, <1>3, <1>4, <1>5 DEF TypeOK, Settle, data, clientVars, children

LEMMA ReturnTypes ==
  ASSUME ContentAddressed, Control, NEW a \in Actors, Return(a)
  PROVE  TypeOK'
  <1>0. TypeOK /\ pack' = pack /\ pc[a] = "return" /\ a # Root /\ pack \in Packs
    BY DEF Control, Return, data, TypeOK
  <1>1. Actors' = Actors /\ \A b : Blank(b)' = Blank(b)
    BY <1>0, PackStays
  <1>2. res[a] \in Outcomes
    BY <1>0 DEF TypeOK
  <1>3. Outcome(a) \in Outcomes
    BY <1>2, OutcomesDiffer DEF Outcome
  <1>4. failure' \in {Ok} \cup Failures /\ group' \in [Actors -> Outcomes]
    BY <1>0, <1>3 DEF Return, Record, TypeOK
  <1>5. pc' = [pc EXCEPT ![a] = "done"] /\ res' = [res EXCEPT ![a] = Outcome(a)] /\ requests' = requests
    BY DEF Return, GotoWith
  <1>6. pc' \in [Actors -> Steps] /\ res' \in [Actors -> Outcomes \cup {Refused}]
        /\ (\A b \in Actors : res'[b] = Refused => b = Root /\ pc'[b] = "done")
        /\ (\A b \in Actors : requests'[b] # << >> <=> pc'[b] = "requests")
    BY <1>0, <1>3, <1>5, OutcomesDiffer DEF TypeOK, Steps
  <1>7. list' \in [Actors -> Seq(Digests)] /\ \A b \in Actors : Len(list'[b]) = Len(Blank(b))
    <2>1. CASE list' = list
      BY <1>0, <2>1 DEF TypeOK
    <2>2. CASE list' # list
      <3>1. list' = [list EXCEPT ![Parent(a)] = Fill(list[Parent(a)], a)] /\ a \notin ItemActors
        BY <2>2 DEF Return
      <3>2. Result(a) \in Digests
        BY <1>0, <3>1, TargetsAreDigests, ActorsDiffer
      <3>3. Parent(a) \in Actors
        BY <1>0, <3>1, ActorsDiffer, Parents
      <3>4. list[Parent(a)] \in Seq(Digests) /\ Len(list[Parent(a)]) = Len(Blank(Parent(a)))
        BY <1>0, <3>3 DEF TypeOK
      <3>5. Fill(list[Parent(a)], a) \in Seq(Digests) /\ Len(Fill(list[Parent(a)], a)) = Len(list[Parent(a)])
        BY <3>2, <3>4, ReplacedIn DEF Fill
      <3> QED BY <1>0, <3>1, <3>3, <3>4, <3>5 DEF TypeOK
    <2> QED BY <2>1, <2>2
  <1> QED BY <1>0, <1>1, <1>4, <1>5, <1>6, <1>7 DEF TypeOK, Return, data, clientVars

LEMMA ProceedTypes ==
  ASSUME Control, NEW a \in Actors, pc[a] \in Fanned, Proceed(a),
         \A b \in Kids(a, pc[a]) : pc[b] \in AtRest,
         UNCHANGED <<budgetVars, data, children, requests>>
  PROVE  TypeOK'
  <1>0. TypeOK /\ pack' = pack /\ slots \in Int /\ disk \in [Paths -> Digests] /\ Fans(a, pc[a])
    BY FannedAre DEF Control, TypeOK, data
  <1>1. CASE pc[a] = "build"
    <2>1. FanOut(a, "index") /\ a = Root /\ pc'[a] = "index"
      BY <1>0, <1>1, ActorsDiffer DEF Proceed, FanOut, Fans
    <2>2. FannedOut(a, "index")
      BY <2>1, ProceedIs DEF Joined
    <2> QED BY <2>1, <2>2, FansTyped DEF Fanned
  <1>2. CASE pc[a] # "build"
    <2>1. Goto(a, "return") \/ Goto(a, "commit")
      BY <1>2 DEF Proceed
    <2>2. "return" \in Steps /\ "commit" \in Steps /\ pc[a] \notin {"requests", "done"}
      BY DEF Steps, Fanned
    <2> QED BY <1>0, <2>1, <2>2, MovesTyped, OutcomesDiffer DEF budgetVars, data, clientVars, children
  <1> QED BY <1>1, <1>2

LEMMA JoinTypes ==
  ASSUME Control, NEW a \in Actors, Join(a) \/ JoinInOrder(a)
  PROVE  TypeOK'
  <1>0. /\ TypeOK /\ pack' = pack /\ slots \in Int /\ disk \in [Paths -> Digests] /\ pack \in Packs
        /\ pc[a] \in Fanned /\ Fans(a, pc[a]) /\ UNCHANGED <<budgetVars, data, children, requests>>
    BY FannedAre DEF Control, TypeOK, Join, JoinInOrder, data
  <1>1. "return" \in Steps /\ pc[a] \notin {"requests", "done"}
    BY <1>0 DEF Steps, Fanned
  <1>2. ASSUME NEW err \in Outcomes, GotoWith(a, "return", err) PROVE TypeOK'
    BY <1>0, <1>1, <1>2, MovesTyped DEF budgetVars, data, clientVars, children
  <1>3. CASE Join(a)
    <2>1. \A b \in Kids(a, pc[a]) : pc[b] \in AtRest
      BY <1>3 DEF Join, AtRest
    <2>2. group[a] \in Outcomes
      BY <1>0 DEF TypeOK
    <2> QED BY <1>0, <1>2, <1>3, <2>1, <2>2, ProceedTypes DEF Join
  <1>4. CASE JoinInOrder(a)
    <2>1. Cardinality(Kids(a, pc[a])) = Count(a, pc[a]) /\ Count(a, pc[a]) \in Nat /\ Ordered(a, pc[a])
      BY <1>0, <1>4, CountKids DEF JoinInOrder
    <2>2. PICK i \in 1 .. Count(a, pc[a]) :
          /\ pc[Kid(a, pc[a], i)] = "done"
          /\ i # Count(a, pc[a]) => pc[Kid(a, pc[a], i + 1)] = "idle"
          /\ IF res[Kid(a, pc[a], i)] # Ok THEN GotoWith(a, "return", res[Kid(a, pc[a], i)])
             ELSE IF i = Count(a, pc[a]) THEN Proceed(a)
             ELSE pc' = [pc EXCEPT ![Kid(a, pc[a], i + 1)] = "start"] /\ UNCHANGED res
      BY <1>4, <2>1 DEF JoinInOrder
    <2>3. \A b \in Kids(a, pc[a]) : pc[b] \in AtRest
      BY <1>0, <2>1, <2>2, InOrder
    <2>4. Kid(a, pc[a], i) \in Kids(a, pc[a])
      BY <1>0, KidsAre
    <2>5. Kid(a, pc[a], i) \in Actors /\ Kid(a, pc[a], i) # Root
      BY <1>0, <2>4, KidsAreActors
    <2>6. res[Kid(a, pc[a], i)] \in Outcomes
      BY <1>0, <2>5 DEF TypeOK
    <2>7. CASE pc' = [pc EXCEPT ![Kid(a, pc[a], i + 1)] = "start"] /\ UNCHANGED res /\ i # Count(a, pc[a])
      <3> DEFINE next == Kid(a, pc[a], i + 1)
      <3>1. i + 1 \in 1 .. Count(a, pc[a])
        BY <2>1, <2>7
      <3>2. next \in Actors /\ next # Root /\ pc[next] = "idle"
        BY <1>0, <2>2, <2>7, <3>1, KidsAre, KidsAreActors
      <3>3. "start" \in Steps
        BY DEF Steps
      <3>4. Goto(next, "start")
        BY <2>7 DEF Goto
      <3> HIDE DEF next
      <3> QED BY <1>0, <3>2, <3>3, <3>4, MovesTyped, OutcomesDiffer DEF budgetVars, data, clientVars, children
    <2> QED BY <1>0, <1>2, <2>2, <2>3, <2>6, <2>7, ProceedTypes
  <1> QED BY <1>3, <1>4

LEMMA StartTypes ==
  ASSUME Control, NEW a \in Actors, Start(a)
  PROVE  TypeOK'
  <1>0. /\ TypeOK /\ pack' = pack /\ slots \in Int /\ disk \in [Paths -> Digests] /\ pc[a] = "start"
        /\ UNCHANGED <<budgetVars, data, children, requests>>
    BY DEF Control, TypeOK, Start, data
  <1>1. CASE a \in Members /\ ~Mounts(a)
    <2>1. FanOut(a, "layers") /\ pc'[a] = "layers"
      BY <1>0, <1>1 DEF Start, FanOut
    <2>2. FannedOut(a, "layers")
      BY <2>1, StartSteps DEF Moved, Fanned
    <2> QED BY <1>0, <2>1, <2>2, FansTyped DEF Fanned
  <1>2. CASE ~(a \in Members /\ ~Mounts(a))
    <2>1. Goto(a, "queue") \/ GotoWith(a, "return", Canceled) \/ GotoWith(a, "return", Unreadable)
      BY <1>2 DEF Start, AskForSlot
    <2>2. "return" \in Steps /\ "queue" \in Steps
      BY DEF Steps
    <2> QED BY <1>0, <2>1, <2>2, MovesTyped, OutcomesDiffer DEF budgetVars, data, clientVars, children
  <1> QED BY <1>1, <1>2

LEMMA StepTypes ==
  ASSUME ContentAddressed, Control, NEW a \in Actors, Step(a)
  PROVE  TypeOK'
BY LocalTypes, RequestTypes, SettleTypes, ReturnTypes, JoinTypes, StartTypes DEF Step

LEMMA ProgressTypes ==
  ASSUME ContentAddressed, Control, Progress
  PROVE  TypeOK'
  <1>0. /\ TypeOK /\ slots \in Int /\ disk \in [Paths -> Digests] /\ pack \in Packs /\ Root \in Actors
        /\ "done" \in Steps
    BY ActorsDiffer DEF Control, TypeOK, Steps
  <1>1. CASE RefusePack
    <2>1. pack' = pack /\ pc[Root] = "validate"
      BY <1>1 DEF RefusePack, data
    <2>2. Actors' = Actors /\ \A b : Blank(b)' = Blank(b)
      BY <2>1, PackStays
    <2>3. pc' = [pc EXCEPT ![Root] = "done"] /\ res' = [res EXCEPT ![Root] = Refused] /\ requests' = requests
      BY <1>1 DEF RefusePack, GotoWith
    <2>4. /\ pc' \in [Actors -> Steps] /\ res' \in [Actors -> Outcomes \cup {Refused}]
          /\ \A b \in Actors : res'[b] = Refused => b = Root /\ pc'[b] = "done"
          /\ \A b \in Actors : requests'[b] # << >> <=> pc'[b] = "requests"
      BY <1>0, <2>1, <2>3 DEF TypeOK
    <2> QED BY <1>0, <1>1, <2>1, <2>2, <2>4 DEF TypeOK, RefusePack, budgetVars, data, clientVars, children
  <1>2. CASE AcceptPack
    <2>1. FanOut(Root, "build") /\ pc[Root] = "validate" /\ Fans(Root, "build")
          /\ UNCHANGED <<budgetVars, data, children, requests>>
      BY <1>2 DEF AcceptPack, Fans
    <2>2. Kids(Root, "build") = ItemActors
      BY <1>0, <2>1, KidsAreActors
    <2>3. \A b \in Kids(Root, "build") : pc[b] = "idle"
      BY <2>1, <2>2 DEF Control, NotBegun
    <2>4. FannedOut(Root, "build")
      <3>1. /\ pc'[Root] = "build"
            /\ \A b \in Kids(Root, "build") :
                 pc'[b] = IF Ordered(Root, "build") /\ Position(b) # 1 THEN "idle" ELSE "start"
            /\ \A b \in Actors : res'[b] = res[b]
            /\ OthersStay({Root} \cup Kids(Root, "build"))
        BY <1>0, <2>1, <2>3, FanOutIs
      <3> QED BY <2>1, <2>3, <3>1 DEF FannedOut
    <2> QED BY <1>0, <2>1, <2>4, FansTyped DEF Fanned
  <1>3. CASE ReportFailure
    <2>1. pc[Root] = "return" /\ GotoWith(Root, "done", Cause(res[Root]))
      BY <1>3 DEF ReportFailure
    <2>2. Cause(res[Root]) \in Outcomes
      BY <1>0, <2>1 DEF TypeOK, Cause, Outcomes
    <2> QED BY <1>0, <1>3, <2>1, <2>2, MovesTyped DEF ReportFailure, budgetVars, data, clientVars, children
  <1>4. CASE TagPack
    <2>1. pc[Root] = "return" /\ Goto(Root, "done") /\ Target(Root) \in Digests /\ pack' = pack
      BY <1>0, <1>4, TargetsAreDigests DEF TagPack
    <2>2. Actors' = Actors /\ \A b : Blank(b)' = Blank(b)
      BY <2>1, PackStays
    <2>3. pc' = [pc EXCEPT ![Root] = "done"] /\ res' = res /\ requests' = requests
      BY <1>4 DEF TagPack, Goto
    <2>4. /\ pc' \in [Actors -> Steps]
          /\ \A b \in Actors : res'[b] = Refused => b = Root /\ pc'[b] = "done"
          /\ \A b \in Actors : requests'[b] # << >> <=> pc'[b] = "requests"
      BY <1>0, <2>1, <2>3 DEF TypeOK
    <2>5. tag' \in Digests /\ manifests' \subseteq Digests
      BY <1>0, <1>4, <2>1 DEF TagPack, SetTag, TypeOK
    <2> QED BY <1>0, <1>4, <2>1, <2>2, <2>3, <2>4, <2>5 DEF TypeOK, TagPack, budgetVars, children
  <1>5. CASE FailToTag
    <2>1. pc[Root] = "return" /\ Target(Root) \in Digests
      BY <1>0, <1>5, TargetsAreDigests DEF FailToTag
    <2>2. PICK err \in Outcomes : GotoWith(Root, "done", err)
      BY <1>5, <2>1, RequestsFail, OutcomesDiffer DEF FailToTag
    <2> QED BY <1>0, <1>5, <2>1, <2>2, MovesTyped DEF FailToTag, budgetVars, data, clientVars, children
  <1>6. CASE \E a \in Actors : Step(a)
    BY <1>6, StepTypes
  <1> QED BY <1>1, <1>2, <1>3, <1>4, <1>5, <1>6 DEF Progress

-----------------------------------------------------------------------------
LEMMA InitControl ==
  ASSUME Init
  PROVE  Control
  <1>1. TypeOK
    BY InitTypes
  <1>2. pc[Root] = "validate" /\ \A a \in Actors \ {Root} : pc[a] = "idle"
    BY ActorsDiffer DEF Init
  <1>3. StepsFit
    BY <1>2, ActorsDiffer DEF StepsFit, Fits, Mounts
  <1>4. Nested /\ NotBegun
    BY <1>2, ActorsDiffer DEF Nested, NotBegun, AtRest
  <1>5. EldersAreDone
    BY <1>2, ActorsDiffer DEF EldersAreDone, Fanned
  <1> QED BY <1>1, <1>3, <1>4, <1>5 DEF Control

LEMMA ControlStep ==
  ASSUME ContentAddressed, Control, [Next]_vars
  PROVE  Control'
  <1>1. CASE Progress
    <2>1. TypeOK'
      BY <1>1, ProgressTypes
    <2>2. pack' = pack /\ (Shaped \/ RefusedAtOnce)
      BY <1>1, ProgressIsShaped
    <2>3. PICK a \in Actors :
            Moved(a) \/ Joined(a) \/ (\E step \in Fanned : FannedOut(a, step)) \/ Continued(a)
            \/ (a = Root /\ RefusedAtOnce)
      BY <2>2, ActorsDiffer DEF Shaped
    <2>4. StepsFit'
      BY <2>2, <2>3, FitsStep
    <2>5. Nested'
      BY <2>2, <2>3, NestedStep
    <2>6. NotBegun'
      BY <2>2, <2>3, NotBegunStep
    <2>7. EldersAreDone'
      BY <2>2, <2>3, EldersStep
    <2> QED BY <2>1, <2>4, <2>5, <2>6, <2>7 DEF Control
  <1>2. CASE UNCHANGED vars
    <2>1. /\ pack' = pack /\ pc' = pc /\ res' = res /\ requests' = requests /\ list' = list /\ group' = group
          /\ slots' = slots /\ failure' = failure /\ tasks' = tasks /\ blobs' = blobs
          /\ manifests' = manifests /\ tag' = tag /\ disk' = disk
      BY <1>2 DEF vars, budgetVars, clientVars
    <2>2. TypeOK'
      BY <2>1, PackStays DEF Control, TypeOK
    <2>3. (StepsFit /\ Nested /\ NotBegun /\ EldersAreDone)'
      BY <2>1, PackStays DEF Control, StepsFit, Fits, Nested, NotBegun, EldersAreDone, Position
    <2> QED BY <2>2, <2>3 DEF Control
  <1> QED BY <1>1, <1>2 DEF Next, Finished
=============================================================================

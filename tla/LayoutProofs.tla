---------------------------- MODULE LayoutProofs ----------------------------
(***************************************************************************)
(* Proofs about LayoutCommands, for every set of commands, every content   *)
(* and every instant at which a command may be killed: what a tag reaches  *)
(* stays whole, what is incomplete is in somebody's hand, and nothing is   *)
(* left over.  Facts on indexes and what they reach come first, then the   *)
(* types, then the invariant, part by part.                                *)
(***************************************************************************)
EXTENDS LayoutCommands, Induction, SequenceTheorems

-----------------------------------------------------------------------------
(* Indexes.                                                                *)

(* The least of a set of numbers exists, so SelectInSeq finds an entry.    *)
LEMMA MinIsIn == ASSUME NEW S \in SUBSET Nat, S # {} PROVE Min(S) \in S
  <1>1. PICK x \in S : \A y \in S : x <= y
    BY LeastExists
  <1> QED BY <1>1 DEF Min

(* An entry's position is one of the index, or 0.                          *)
LEMMA PositionInIndex ==
  ASSUME NEW ix \in IndexStates, NEW tag
  PROVE  /\ EntryOf(ix, tag) \in 0 .. Len(ix.entries)
         /\ Tagged(ix, tag) => ix.entries[EntryOf(ix, tag)].tag = tag
  <1> DEFINE I == {i \in 1 .. Len(ix.entries) : ix.entries[i].tag = tag}
  <1>1. ix.entries \in Entries
    BY DEF IndexStates
  <1>2. I \in SUBSET Nat
    OBVIOUS
  <1>3. I # {} => Min(I) \in I
    BY <1>2, MinIsIn
  <1>4. EntryOf(ix, tag) = IF I # {} THEN Min(I) ELSE 0
    BY DEF EntryOf, SelectInSeq
  <1> QED BY <1>1, <1>3, <1>4 DEF Tagged, Entries

LEMMA EntriesHaveDigests ==
  ASSUME NEW ix \in IndexStates, NEW i \in 1 .. Len(ix.entries)
  PROVE  ix.entries[i].digest \in Digests
  <1>1. ix.entries \in Seq([tag : Tags, digest : Digests])
    BY DEF IndexStates, Entries
  <1>2. ix.entries[i] \in [tag : Tags, digest : Digests]
    BY <1>1, ElementOfSeq
  <1> QED BY <1>2

LEMMA TargetIsDigest ==
  ASSUME NEW ix \in IndexStates, NEW tag, Tagged(ix, tag)
  PROVE  Target(ix, tag) \in Digests
  <1>1. Len(ix.entries) \in Nat
    BY DEF IndexStates, Entries
  <1>2. EntryOf(ix, tag) \in 1 .. Len(ix.entries)
    BY <1>1, PositionInIndex DEF Tagged
  <1> QED BY <1>2, EntriesHaveDigests DEF Target

(* A walk stays inside any closed set it starts in.                        *)
LEMMA VisitedInside ==
  ASSUME NEW refs, NEW S \in SUBSET Digests, NEW d \in S, Closed(S, refs)
  PROVE  Visited(refs)[d] \subseteq S
  BY DEF Visited

LEMMA CollectedAreDigests ==
  ASSUME NEW d \in Digests
  PROVE  /\ d \in Collected[d] /\ Collected[d] \subseteq Digests
         /\ d \in CopySet[d] /\ CopySet[d] \subseteq Digests
  BY DEF Collected, CopySet, Visited

LEMMA ReachableAreDigests ==
  ASSUME NEW ix \in IndexStates
  PROVE  /\ Reachable(ix.entries) \subseteq Digests
         /\ \A i \in 1 .. Len(ix.entries) :
              /\ ix.entries[i].digest \in Digests
              /\ Collected[ix.entries[i].digest] \subseteq Reachable(ix.entries)
  BY EntriesHaveDigests, CollectedAreDigests DEF Reachable

(* A tag that is written adds what its digest reaches, and no more: the    *)
(* entry it may replace has the same digest.                               *)
LEMMA WithTagReaches ==
  ASSUME NEW ix \in IndexStates, NEW tag \in Tags, NEW d \in Digests
  PROVE  /\ WithTag(ix, tag, d) \in IndexStates
         /\ WithTag(ix, tag, d).mode = ix.mode
         /\ Reachable(WithTag(ix, tag, d).entries) = Reachable(ix.entries) \cup Collected[d]
  <1> DEFINE E  == [tag : Tags, digest : Digests]
             s  == ix.entries
             e  == [tag |-> tag, digest |-> d]
             I  == {i \in 1 .. Len(s) : s[i].digest = d}
             at == IF I # {} THEN Min(I) ELSE 0
             t  == IF at = 0 THEN Append(s, e) ELSE [s EXCEPT ![at] = e]
  <1>1. s \in Seq(E) /\ e \in E
    BY DEF IndexStates, Entries
  <1>2. I # {} => Min(I) \in I
    <2>1. I \in SUBSET Nat
      OBVIOUS
    <2> QED BY <2>1, MinIsIn
  <1>3. WithTag(ix, tag, d) = [ix EXCEPT !.entries = t]
    BY DEF WithTag, SelectInSeq, ReplaceAt
  <1>4. at = 0 \/ (at \in 1 .. Len(s) /\ s[at].digest = d)
    BY <1>2
  <1> HIDE DEF s, at
  <1>5. /\ t \in Seq(E)
        /\ \A i \in 1 .. Len(s) : i \in 1 .. Len(t) /\ t[i].digest = s[i].digest
        /\ \A i \in 1 .. Len(t) : t[i].digest = d \/ (i \in 1 .. Len(s) /\ t[i].digest = s[i].digest)
        /\ \E i \in 1 .. Len(t) : t[i].digest = d
    <2>1. CASE at = 0
      <3>1. /\ t \in Seq(E) /\ Len(t) = Len(s) + 1 /\ t[Len(s) + 1] = e
            /\ \A i \in 1 .. Len(s) : t[i] = s[i]
        BY <1>1, <2>1, AppendProperties
      <3>2. e.digest = d /\ Len(s) \in Nat
        BY <1>1
      <3> QED BY <3>1, <3>2
    <2>2. CASE at # 0
      <3>1. at \in 1 .. Len(s) /\ s[at].digest = d
        BY <1>4, <2>2
      <3>2. /\ t \in Seq(E) /\ Len(t) = Len(s) /\ t[at] = e
            /\ \A i \in 1 .. Len(s) : i # at => t[i] = s[i]
        BY <1>1, <2>2, <3>1
      <3>3. e.digest = d
        OBVIOUS
      <3> QED BY <3>1, <3>2, <3>3
    <2> QED BY <2>1, <2>2
  <1> HIDE DEF t
  <1>6. [ix EXCEPT !.entries = t] \in IndexStates /\ [ix EXCEPT !.entries = t].mode = ix.mode
        /\ [ix EXCEPT !.entries = t].entries = t
    BY <1>5 DEF IndexStates, Entries
  <1>7. Reachable(t) = Reachable(s) \cup Collected[d]
    <2>1. ASSUME NEW x \in Reachable(t) PROVE x \in Reachable(s) \cup Collected[d]
      BY <1>5, <2>1 DEF Reachable
    <2>2. ASSUME NEW x \in Reachable(s) PROVE x \in Reachable(t)
      <3>1. PICK i \in 1 .. Len(s) : x \in Collected[s[i].digest]
        BY <2>2 DEF Reachable
      <3>2. i \in 1 .. Len(t) /\ x \in Collected[t[i].digest]
        BY <1>5, <3>1
      <3> QED BY <3>2 DEF Reachable
    <2>3. ASSUME NEW x \in Collected[d] PROVE x \in Reachable(t)
      <3>1. PICK i \in 1 .. Len(t) : t[i].digest = d
        BY <1>5
      <3> QED BY <2>3, <3>1 DEF Reachable
    <2> QED BY <2>1, <2>2, <2>3
  <1> QED BY <1>3, <1>6, <1>7 DEF s

(* What is removed from a sequence leaves the rest in order.               *)
LEMMA RemovedAt ==
  ASSUME NEW E, NEW s \in Seq(E), NEW at \in 1 .. Len(s)
  PROVE  /\ RemoveAt(s, at) \in Seq(E) /\ Len(RemoveAt(s, at)) = Len(s) - 1
         /\ \A i \in 1 .. Len(s) - 1 : RemoveAt(s, at)[i] = IF i < at THEN s[i] ELSE s[i + 1]
  <1>1. at \in 1 .. Len(s) /\ at - 1 \in Int /\ at + 1 \in Int /\ Len(s) \in Int
    OBVIOUS
  <1>2. PICK a : a = SubSeq(s, 1, at - 1)
    OBVIOUS
  <1>3. PICK b : b = SubSeq(s, at + 1, Len(s))
    OBVIOUS
  <1>4. a \in Seq(E) /\ Len(a) = at - 1 /\ \A i \in 1 .. at - 1 : a[i] = s[i]
    <2>1. \A i \in 1 .. at - 1 : s[i] \in E
      BY <1>1, ElementOfSeq
    <2>2. /\ SubSeq(s, 1, at - 1) \in Seq(E)
          /\ Len(SubSeq(s, 1, at - 1)) = IF 1 <= at - 1 THEN at - 1 - 1 + 1 ELSE 0
          /\ \A i \in 1 .. at - 1 - 1 + 1 : SubSeq(s, 1, at - 1)[i] = s[1 + i - 1]
      BY <1>1, <2>1, SubSeqProperties
    <2> QED BY <1>1, <1>2, <2>2
  <1>5. b \in Seq(E) /\ Len(b) = Len(s) - at /\ \A i \in 1 .. Len(s) - at : b[i] = s[at + i]
    <2>1. \A i \in at + 1 .. Len(s) : s[i] \in E
      BY <1>1, ElementOfSeq
    <2>2. /\ SubSeq(s, at + 1, Len(s)) \in Seq(E)
          /\ Len(SubSeq(s, at + 1, Len(s))) =
               IF at + 1 <= Len(s) THEN Len(s) - (at + 1) + 1 ELSE 0
          /\ \A i \in 1 .. Len(s) - (at + 1) + 1 :
               SubSeq(s, at + 1, Len(s))[i] = s[at + 1 + i - 1]
      BY <1>1, <2>1, SubSeqProperties
    <2> QED BY <1>1, <1>3, <2>2
  <1>6. PICK t : t = a \o b
    OBVIOUS
  <1>7. /\ t \in Seq(E) /\ Len(t) = Len(s) - 1
        /\ \A i \in 1 .. Len(s) - 1 : t[i] = IF i < at THEN s[i] ELSE s[i + 1]
    <2>1. /\ t \in Seq(E) /\ Len(t) = Len(a) + Len(b)
          /\ \A i \in 1 .. Len(a) + Len(b) : t[i] = IF i <= Len(a) THEN a[i] ELSE b[i - Len(a)]
      BY <1>4, <1>5, <1>6, ConcatProperties
    <2>2. Len(t) = Len(s) - 1
      BY <1>1, <1>4, <1>5, <2>1
    <2>3. ASSUME NEW i \in 1 .. Len(s) - 1
          PROVE  t[i] = IF i < at THEN s[i] ELSE s[i + 1]
      <3>0. i \in 1 .. Len(a) + Len(b)
        BY <1>1, <1>4, <1>5
      <3>1. CASE i < at
        <4>1. i <= Len(a) /\ i \in 1 .. at - 1
          BY <1>1, <1>4, <3>1
        <4>2. t[i] = a[i]
          BY <2>1, <3>0, <4>1
        <4> QED BY <1>4, <3>1, <4>1, <4>2
      <3>2. CASE ~(i < at)
        <4>1. i - (at - 1) \in 1 .. Len(s) - at /\ at + (i - (at - 1)) = i + 1
          BY <1>1, <3>2
        <4>2. ~(i <= Len(a)) /\ i - Len(a) = i - (at - 1)
          BY <1>1, <1>4, <3>2
        <4>3. t[i] = b[i - Len(a)]
          BY <2>1, <3>0, <4>2
        <4> QED BY <1>5, <3>2, <4>1, <4>2, <4>3
      <3> QED BY <3>1, <3>2
    <2> QED BY <2>1, <2>2, <2>3
  <1>8. RemoveAt(s, at) = t
    BY <1>2, <1>3, <1>6 DEF RemoveAt
  <1> QED BY <1>7, <1>8

LEMMA RemoveAtKeeps ==
  ASSUME NEW E, NEW s \in Seq(E), NEW at \in 0 .. Len(s)
  PROVE  /\ RemoveAt(s, at) \in Seq(E)
         /\ \A i \in 1 .. Len(RemoveAt(s, at)) : \E j \in 1 .. Len(s) : RemoveAt(s, at)[i] = s[j]
         /\ \A j \in 1 .. Len(s) :
              j # at => \E i \in 1 .. Len(RemoveAt(s, at)) : RemoveAt(s, at)[i] = s[j]
  <1>1. Len(s) \in Nat
    OBVIOUS
  <1>2. CASE at = 0
    <2>1. SubSeq(s, 1, at - 1) = << >>
      <3>1. at - 1 \in Int /\ at - 1 < 1
        BY <1>2
      <3> QED BY <3>1, SubSeqEmpty
    <2>2. SubSeq(s, at + 1, Len(s)) = s
      <3>1. at + 1 = 1
        BY <1>2
      <3> QED BY <3>1, SubSeqFull
    <2>3. RemoveAt(s, at) = s
      BY <2>1, <2>2, ConcatEmptySeq DEF RemoveAt
    <2> QED BY <2>3
  <1>3. CASE at # 0
    <2>1. at \in 1 .. Len(s) /\ at - 1 \in Int /\ at + 1 \in Int /\ Len(s) \in Int
      BY <1>1, <1>3
    <2>2. PICK t : t = RemoveAt(s, at)
      OBVIOUS
    <2>3. /\ t \in Seq(E) /\ Len(t) = Len(s) - 1
          /\ \A i \in 1 .. Len(s) - 1 : t[i] = IF i < at THEN s[i] ELSE s[i + 1]
      BY <2>1, <2>2, RemovedAt
    <2>4. RemoveAt(s, at) = t
      BY <2>2
    <2>5. ASSUME NEW i \in 1 .. Len(t) PROVE \E j \in 1 .. Len(s) : t[i] = s[j]
      <3>1. i \in 1 .. Len(s) /\ i + 1 \in 1 .. Len(s) /\ t[i] \in {s[i], s[i + 1]}
        BY <1>1, <2>3
      <3> QED BY <3>1
    <2>6. ASSUME NEW j \in 1 .. Len(s), j # at PROVE \E i \in 1 .. Len(t) : t[i] = s[j]
      <3>1. CASE j < at
        <4>1. j \in 1 .. Len(t) /\ t[j] = s[j]
          BY <2>1, <2>3, <3>1
        <4> QED BY <4>1
      <3>2. CASE j > at
        <4>1. j - 1 \in 1 .. Len(s) - 1 /\ ~(j - 1 < at) /\ (j - 1) + 1 = j
          BY <2>1, <3>2
        <4>2. j - 1 \in 1 .. Len(t) /\ t[j - 1] = s[j]
          BY <2>3, <4>1
        <4> QED BY <4>2
      <3> QED BY <2>1, <2>6, <3>1, <3>2
    <2> QED BY <2>3, <2>4, <2>5, <2>6
  <1> QED BY <1>2, <1>3

(* An entry that is removed takes no other away.                           *)
LEMMA WithoutEntryReaches ==
  ASSUME NEW ix \in IndexStates, NEW tag
  PROVE  /\ WithoutEntry(ix, tag) \in IndexStates
         /\ WithoutEntry(ix, tag).mode = ix.mode
         /\ Reachable(WithoutEntry(ix, tag).entries) \subseteq Reachable(ix.entries)
         /\ Tagged(ix, tag) =>
              Reachable(ix.entries) \subseteq
                Collected[Target(ix, tag)] \cup Reachable(WithoutEntry(ix, tag).entries)
  <1> DEFINE E  == [tag : Tags, digest : Digests]
             s  == ix.entries
             at == EntryOf(ix, tag)
             t  == RemoveAt(s, at)
  <1>1. s \in Seq(E) /\ at \in 0 .. Len(s)
    BY PositionInIndex DEF IndexStates, Entries
  <1>2. WithoutEntry(ix, tag) = [ix EXCEPT !.entries = t]
    BY DEF WithoutEntry
  <1> HIDE DEF s, at
  <1>3. /\ t \in Seq(E)
        /\ \A i \in 1 .. Len(t) : \E j \in 1 .. Len(s) : t[i] = s[j]
        /\ \A j \in 1 .. Len(s) : j # at => \E i \in 1 .. Len(t) : t[i] = s[j]
    BY <1>1, RemoveAtKeeps
  <1> HIDE DEF t
  <1>4. [ix EXCEPT !.entries = t] \in IndexStates /\ [ix EXCEPT !.entries = t].mode = ix.mode
        /\ [ix EXCEPT !.entries = t].entries = t
    BY <1>3 DEF IndexStates, Entries
  <1>5. Reachable(t) \subseteq Reachable(s)
    BY <1>3 DEF Reachable
  <1>6. ASSUME Tagged(ix, tag), NEW x \in Reachable(s), x \notin Collected[Target(ix, tag)]
        PROVE  x \in Reachable(t)
    <2>1. PICK j \in 1 .. Len(s) : x \in Collected[s[j].digest]
      BY <1>6 DEF Reachable
    <2>2. j # at
      BY <1>6, <2>1 DEF Target, s, at
    <2>3. PICK i \in 1 .. Len(t) : t[i] = s[j]
      BY <1>3, <2>2
    <2> QED BY <2>1, <2>3 DEF Reachable
  <1> QED BY <1>2, <1>4, <1>5, <1>6 DEF s

-----------------------------------------------------------------------------
(* Types.                                                                  *)

LEMMA CommandTypes ==
  ASSUME NEW p \in Procs
  PROVE  /\ Op(p) \in {"copy", "delete", "mount"} /\ Tag(p) \in Tags
         /\ Root(p) \in Digests /\ Command[p].mode \in Modes
         /\ NoIndex \in IndexStates
  <1>1. << >> \in Entries
    BY EmptySeq DEF Entries
  <1> QED BY <1>1, CommandAssumption DEF Op, Tag, Root, Tags, NoIndex, IndexStates

TypesHold == TypeOK /\ IndexesAreRead

LEMMA InitTypes == Init => TypesHold
  <1> SUFFICES ASSUME Init PROVE TypesHold
    OBVIOUS
  <1>1. index \in IndexStates
    BY SeedAssumption, CommandAssumption, EmptySeq
       DEF Init, IndexStates, NoIndex, Entries
  <1>2. blobs \in [Digests -> BlobStates]
    BY DEF Init, BlobStates, StoredAs
  <1>3. snapshot \in [Procs -> IndexStates]
    BY CommandTypes DEF Init
  <1>4. mode \in [Procs -> Modes]
    BY CommandAssumption DEF Init
  <1>5. IndexesAreRead
    BY SeedAssumption, CommandAssumption DEF Init, IndexesAreRead
  <1> QED
    BY <1>1, <1>2, <1>3, <1>4, <1>5, CommandAssumption
       DEF Init, TypeOK, TypesHold, Steps, Markers

(* The index a command writes.                                             *)
LEMMA TagWritten ==
  ASSUME TypesHold, NEW p \in Procs, WriteTag(p)
  PROVE  /\ index' \in IndexStates /\ index'.mode = snapshot[p].mode /\ index'.mode \in Modes
         /\ Reachable(index'.entries) = Reachable(snapshot[p].entries) \cup Collected[Root(p)]
  <1>1. pc[p] = "tag" /\ index' = WithTag(snapshot[p], Tag(p), Root(p))
    BY DEF WriteTag
  <1>2. snapshot[p] \in IndexStates /\ snapshot[p].mode \in Modes
    BY <1>1 DEF TypesHold, TypeOK, IndexesAreRead
  <1>3. Tag(p) \in Tags /\ Root(p) \in Digests
    BY CommandTypes
  <1>4. /\ WithTag(snapshot[p], Tag(p), Root(p)) \in IndexStates
        /\ WithTag(snapshot[p], Tag(p), Root(p)).mode = snapshot[p].mode
        /\ Reachable(WithTag(snapshot[p], Tag(p), Root(p)).entries)
             = Reachable(snapshot[p].entries) \cup Collected[Root(p)]
    BY <1>2, <1>3, WithTagReaches
  <1> QED BY <1>1, <1>2, <1>4

LEMMA IndexTrimmed ==
  ASSUME TypesHold, NEW p \in Procs, TrimIndex(p)
  PROVE  index' \in IndexStates /\ index'.mode = snapshot[p].mode /\ index'.mode \in Modes
  <1>1. pc[p] = "trim" /\ index' = WithoutEntry(snapshot[p], Tag(p))
    BY DEF TrimIndex
  <1>2. snapshot[p] \in IndexStates /\ snapshot[p].mode \in Modes
    BY <1>1 DEF TypesHold, TypeOK, IndexesAreRead
  <1>3. /\ WithoutEntry(snapshot[p], Tag(p)) \in IndexStates
        /\ WithoutEntry(snapshot[p], Tag(p)).mode = snapshot[p].mode
    BY <1>2, WithoutEntryReaches
  <1> QED BY <1>1, <1>2, <1>3

(* Steps that only move their command and set its handle, its snapshot or  *)
(* its lower directories.                                                  *)
LEMMA QuietTypes ==
  ASSUME TypesHold, NEW p \in Procs,
         \/ StatMarker(p) \/ BeginMarker(p) \/ CreateMarker(p)
         \/ Validate(p) \/ OpenIndex(p) \/ Lock(p)
         \/ CopyFailed(p) \/ CopyDone(p) \/ ReadIndex(p) \/ DeleteDone(p)
         \/ Mount(p) \/ Unmount(p) \/ Break(p)
  PROVE  TypesHold'
  <1> USE DEF TypesHold, IndexesAreRead, Steps, Markers, disk, locals, Goto, Exit
  <1>1. CASE \/ StatMarker(p) \/ BeginMarker(p) \/ CreateMarker(p) \/ Validate(p) \/ Lock(p)
    <2>1. CASE StatMarker(p)
      BY <2>1 DEF TypeOK, StatMarker
    <2>2. CASE Validate(p)
      BY <2>2, CommandAssumption DEF TypeOK, Validate
    <2>3. CASE BeginMarker(p) \/ CreateMarker(p)
      BY <2>3 DEF TypeOK, BeginMarker, CreateMarker
    <2>4. CASE Lock(p)
      BY <2>4, CommandAssumption DEF TypeOK, Lock
    <2> QED BY <1>1, <2>1, <2>2, <2>3, <2>4
  <1>2. CASE OpenIndex(p)
    <2>1. /\ pc' \in [Procs -> Steps] /\ mode' \in [Procs -> Modes]
          /\ UNCHANGED <<marker, index, blobs, lock, snapshot, landed, writing, failed, garbage, lowers>>
          /\ \A q \in Procs : pc'[q] \in {"tag", "collect", "trim"} => pc[q] = pc'[q]
      BY <1>2 DEF OpenIndex, TypeOK
    <2> QED BY <2>1 DEF TypeOK
  <1>3. CASE CopyFailed(p) \/ CopyDone(p) \/ DeleteDone(p) \/ Mount(p) \/ Unmount(p) \/ Break(p)
    BY <1>3, CommandAssumption DEF TypeOK, CopyFailed, CopyDone, DeleteDone, Mount, Unmount,
                                   Break, GiveUp, Kill
  <1>4. CASE ReadIndex(p)
    BY <1>4, CommandAssumption DEF TypeOK, ReadIndex
  <1> QED BY <1>1, <1>2, <1>3, <1>4

(* Steps that write the index.                                             *)
LEMMA IndexTypes ==
  ASSUME TypesHold, NEW p \in Procs, CreateIndex(p) \/ WriteTag(p) \/ TrimIndex(p)
  PROVE  TypesHold'
  <1> USE DEF TypesHold, IndexesAreRead, TypeOK, Steps, disk, locals, Goto, Exit
  <1>1. CASE CreateIndex(p)
    <2>1. index' \in IndexStates /\ index'.mode \in Modes
      BY <1>1, EmptySeq DEF CreateIndex, IndexStates, Entries
    <2> QED BY <1>1, <2>1 DEF CreateIndex
  <1>2. CASE WriteTag(p)
    <2>1. index' \in IndexStates /\ index'.mode \in Modes
      BY <1>2, TagWritten
    <2> QED BY <1>2, <2>1, CommandAssumption DEF WriteTag
  <1>3. CASE TrimIndex(p)
    <2>1. index' \in IndexStates /\ index'.mode \in Modes
      BY <1>3, IndexTrimmed
    <2> QED BY <1>3, <2>1 DEF TrimIndex
  <1> QED BY <1>1, <1>2, <1>3

(* Steps on a blob.                                                        *)
LEMMA BlobTypes ==
  ASSUME TypesHold, NEW p \in Procs, NEW d \in Digests,
         \/ PushExisting(p, d) \/ PushStart(p, d) \/ PushObstructed(p, d) \/ SourceFails(p, d)
         \/ PushFinish(p, d) \/ PushFail(p, d) \/ RemoveBlob(p, d) \/ RemoveFails(p, d)
  PROVE  TypesHold'
  <1> USE DEF TypesHold, IndexesAreRead, TypeOK, disk
  <1>1. CASE PushExisting(p, d) \/ SourceFails(p, d)
    BY <1>1 DEF PushExisting, SourceFails, Ready
  <1>2. CASE PushStart(p, d) \/ PushObstructed(p, d)
    BY <1>2 DEF PushStart, PushObstructed, Ready, BlobStates, Unfinished, StoredAs,
                AfterObstruction
  <1>3. CASE PushFinish(p, d) \/ PushFail(p, d)
    BY <1>3 DEF PushFinish, PushFail, BlobStates, StoredAs
  <1>4. CASE RemoveBlob(p, d) \/ RemoveFails(p, d)
    BY <1>4 DEF RemoveBlob, RemoveFails, BlobStates
  <1> QED BY <1>1, <1>2, <1>3, <1>4

LEMMA OtherTypes ==
  ASSUME TypesHold, NEW p \in Procs, Collect(p) \/ LayerDirs(p)
  PROVE  TypesHold'
  <1> USE DEF TypesHold, IndexesAreRead, TypeOK, disk, Steps, Goto, Exit
  <1>1. CASE Collect(p)
    <2>1. Deletable(p) => Orphans(snapshot[p], Tag(p)) \subseteq Digests
      BY TargetIsDigest, CollectedAreDigests DEF Deletable, Orphans
    <2> QED BY <1>1, <2>1, CommandAssumption DEF Collect
  <1>2. CASE LayerDirs(p)
    <2>1. \A m : LayersOf(m) \subseteq Digests
      BY StoreAssumption DEF LayersOf
    <2> QED BY <1>2, <2>1 DEF LayerDirs
  <1> QED BY <1>1, <1>2

LEMMA StepTypes == TypesHold /\ [Next]_vars => TypesHold'
  <1> SUFFICES ASSUME TypesHold, [Next]_vars PROVE TypesHold'
    OBVIOUS
  <1>1. CASE UNCHANGED vars
    BY <1>1 DEF vars, locals, TypesHold, IndexesAreRead, TypeOK
  <1>2. ASSUME NEW p \in Procs, Step(p) \/ Break(p) PROVE TypesHold'
    BY <1>2, QuietTypes, IndexTypes, BlobTypes, OtherTypes DEF Step
  <1> QED BY <1>1, <1>2 DEF Next, AllEnded

(* Every variable keeps its type, whatever the commands, the layout they   *)
(* find and the instants at which they are killed or fail.                 *)
THEOREM LayoutTypes == Spec => []TypeOK
  <1>1. TypesHold => TypeOK
    BY DEF TypesHold
  <1> QED BY <1>1, InitTypes, StepTypes, PTL DEF Spec

-----------------------------------------------------------------------------
(* Commands and the lock.                                                  *)

(* A step of one command leaves what the others know alone.                *)
LEMMA OthersStay ==
  ASSUME TypesHold, NEW p \in Procs, Step(p) \/ Break(p), NEW q \in Procs, q # p
  PROVE  /\ pc'[q] = pc[q] /\ mode'[q] = mode[q] /\ snapshot'[q] = snapshot[q]
         /\ landed'[q] = landed[q] /\ writing'[q] = writing[q]
         /\ garbage'[q] = garbage[q] /\ failed'[q] = failed[q]
  <1> USE DEF TypesHold, TypeOK, Goto, Exit, disk, locals
  <1>1. CASE \/ StatMarker(p) \/ Validate(p) \/ BeginMarker(p) \/ CreateMarker(p)
             \/ CreateIndex(p) \/ OpenIndex(p) \/ Lock(p)
    BY <1>1 DEF StatMarker, Validate, BeginMarker, CreateMarker, CreateIndex, OpenIndex,
                Lock
  <1>2. CASE \E d \in Digests : \/ PushExisting(p, d) \/ PushStart(p, d)
                                \/ PushObstructed(p, d) \/ SourceFails(p, d)
                                \/ PushFinish(p, d) \/ PushFail(p, d)
                                \/ RemoveBlob(p, d) \/ RemoveFails(p, d)
    BY <1>2 DEF PushExisting, PushStart, PushObstructed, SourceFails, PushFinish, PushFail,
                RemoveBlob, RemoveFails
  <1>3. CASE CopyFailed(p) \/ CopyDone(p) \/ ReadIndex(p) \/ WriteTag(p)
    BY <1>3 DEF CopyFailed, CopyDone, ReadIndex, WriteTag
  <1>4. CASE Collect(p) \/ TrimIndex(p) \/ DeleteDone(p)
    BY <1>4 DEF Collect, TrimIndex, DeleteDone
  <1>5. CASE LayerDirs(p) \/ Mount(p) \/ Unmount(p) \/ Break(p)
    BY <1>5 DEF LayerDirs, Mount, Unmount, Break, GiveUp, Kill
  <1> QED BY <1>1, <1>2, <1>3, <1>4, <1>5 DEF Step

(* Where a command goes, and what becomes of the lock.                     *)
LEMMA WhereCommandsGo ==
  ASSUME TypesHold, NEW p \in Procs, Step(p) \/ Break(p)
  PROVE  /\ pc'[p] \in {"collect", "tag"} => pc[p] = "readIndex"
         /\ \/ pc'[p] = pc[p] /\ lock' = lock
            \/ pc'[p] \notin Holding /\ pc[p] \notin Holding /\ lock' = lock
            \/ pc'[p] \in Holding /\ pc[p] \in Holding /\ lock' = lock
            \/ pc[p] = "lock" /\ lock = Nobody /\ lock' = p
            \/ pc'[p] \in Ended /\ lock' = IF lock = p THEN Nobody ELSE lock
  <1> USE DEF TypesHold, TypeOK, Goto, Exit, disk, locals, Holding, Ended
  <1>1. CASE \/ StatMarker(p) \/ Validate(p) \/ BeginMarker(p) \/ CreateMarker(p)
             \/ CreateIndex(p) \/ OpenIndex(p) \/ Lock(p)
    BY <1>1 DEF StatMarker, Validate, BeginMarker, CreateMarker, CreateIndex, OpenIndex,
                Lock, MayStart
  <1>2. CASE \E d \in Digests : \/ PushExisting(p, d) \/ PushStart(p, d)
                                \/ PushObstructed(p, d) \/ SourceFails(p, d)
                                \/ PushFinish(p, d) \/ PushFail(p, d)
                                \/ RemoveBlob(p, d) \/ RemoveFails(p, d)
    BY <1>2 DEF PushExisting, PushStart, PushObstructed, SourceFails, PushFinish, PushFail,
                RemoveBlob, RemoveFails, Ready
  <1>3. CASE CopyFailed(p) \/ CopyDone(p) \/ ReadIndex(p) \/ WriteTag(p)
    BY <1>3 DEF CopyFailed, CopyDone, ReadIndex, WriteTag
  <1>4. CASE Collect(p) \/ TrimIndex(p) \/ DeleteDone(p)
    BY <1>4 DEF Collect, TrimIndex, DeleteDone
  <1>5. CASE LayerDirs(p) \/ Mount(p) \/ Unmount(p) \/ Break(p)
    BY <1>5 DEF LayerDirs, Mount, Unmount, Break, GiveUp, Kill
  <1> QED BY <1>1, <1>2, <1>3, <1>4, <1>5 DEF Step

LEMMA StepLock ==
  ASSUME TypesHold, LockIsHeld, NEW p \in Procs, Step(p) \/ Break(p)
  PROVE  LockIsHeld'
  <1> SUFFICES ASSUME NEW q \in Procs, pc'[q] \in Holding PROVE lock' = q
    BY DEF LockIsHeld
  <1>1. CASE q = p
    BY <1>1, WhereCommandsGo DEF LockIsHeld, Holding, Ended
  <1>2. CASE q # p
    <2>1. pc[q] \in Holding /\ lock = q
      BY <1>2, OthersStay DEF LockIsHeld
    <2> QED BY <1>2, <2>1, WhereCommandsGo, CommandAssumption
  <1> QED BY <1>1, <1>2

(* A command's position says which command it is.                          *)
LEMMA StepOps ==
  ASSUME TypesHold, OpsMatch, NEW p \in Procs, Step(p) \/ Break(p)
  PROVE  OpsMatch'
  <1>1. /\ pc'[p] \in Making \cup {"create", "copying", "tag"} => Op(p) = "copy"
        /\ pc'[p] \in {"collect", "trim", "remove"} => Op(p) = "delete"
        /\ pc'[p] \in {"lock", "readIndex"} => Op(p) # "mount"
    <2> USE CommandTypes DEF TypesHold, TypeOK, OpsMatch, Goto, Exit
    <2>1. CASE \/ StatMarker(p) \/ Validate(p) \/ BeginMarker(p) \/ CreateMarker(p)
               \/ CreateIndex(p) \/ OpenIndex(p) \/ Lock(p)
      BY <2>1 DEF StatMarker, Validate, BeginMarker, CreateMarker, CreateIndex, OpenIndex,
                  Lock, Making
    <2>2. CASE \E d \in Digests : \/ PushExisting(p, d) \/ PushStart(p, d)
                                  \/ PushObstructed(p, d) \/ SourceFails(p, d)
                                  \/ PushFinish(p, d) \/ PushFail(p, d)
                                  \/ RemoveBlob(p, d) \/ RemoveFails(p, d)
      BY <2>2 DEF PushExisting, PushStart, PushObstructed, SourceFails, PushFinish,
                  PushFail, RemoveBlob, RemoveFails
    <2>3. CASE CopyFailed(p) \/ CopyDone(p) \/ ReadIndex(p) \/ WriteTag(p)
      BY <2>3 DEF CopyFailed, CopyDone, ReadIndex, WriteTag, Making
    <2>4. CASE Collect(p) \/ TrimIndex(p) \/ DeleteDone(p)
      BY <2>4 DEF Collect, TrimIndex, DeleteDone, Making
    <2>5. CASE LayerDirs(p) \/ Mount(p) \/ Unmount(p) \/ Break(p)
      BY <2>5 DEF LayerDirs, Mount, Unmount, Break, GiveUp, Kill, Fallible, Making
    <2> QED BY <2>1, <2>2, <2>3, <2>4, <2>5 DEF Step
  <1> QED BY <1>1, OthersStay DEF OpsMatch

(* What the marker and the index can be when Open would not take them: a   *)
(* marker that is cut short, or without an index beside it, was left so by *)
(* a command that is in the middle of New, or ended there.                 *)
HalfMade ==
  /\ marker = "part" => \E p \in Procs : pc[p] \in {"marker", "unmade"}
  /\ marker # "none" /\ index = NoIndex => \E p \in Procs : pc[p] \in Making \cup {"unmade"}

LEMMA StepMarker ==
  ASSUME TypesHold, HalfMade, NEW p \in Procs, Step(p) \/ Break(p)
  PROVE  HalfMade'
  <1> USE DEF TypesHold, TypeOK, IndexesAreRead, disk, locals, Goto, Exit
  <1>1. CASE BeginMarker(p)
    BY <1>1 DEF BeginMarker, HalfMade, Making
  <1>2. CASE CreateMarker(p)
    BY <1>2 DEF CreateMarker, HalfMade, Making
  <1>3. CASE CreateIndex(p) \/ WriteTag(p) \/ TrimIndex(p)
    <2>1. index'.mode \in Modes
      <3>1. CASE CreateIndex(p)
        BY <3>1 DEF CreateIndex
      <3>2. CASE WriteTag(p)
        BY <3>2, TagWritten
      <3>3. CASE TrimIndex(p)
        BY <3>3, IndexTrimmed
      <3> QED BY <1>3, <3>1, <3>2, <3>3
    <2>2. index' # NoIndex
      BY <2>1 DEF NoIndex, Modes
    <2>3. marker' = marker /\ pc[p] \notin {"marker", "unmade"}
      BY <1>3 DEF CreateIndex, WriteTag, TrimIndex
    <2> QED BY <2>2, <2>3, OthersStay DEF HalfMade
  <1>4. CASE ~(\/ BeginMarker(p) \/ CreateMarker(p) \/ CreateIndex(p)
               \/ WriteTag(p) \/ TrimIndex(p))
    <2>1. marker' = marker /\ index' = index
      BY <1>4
         DEF Step, StatMarker, Validate, OpenIndex, Lock, PushExisting, PushStart,
             PushObstructed, SourceFails, PushFinish, PushFail, RemoveBlob, RemoveFails,
             CopyFailed, CopyDone, ReadIndex, Collect, DeleteDone, LayerDirs, Mount,
             Unmount, Break, GiveUp, Kill
    <2>2. pc[p] \in Making => pc'[p] = "unmade"
      BY <1>4
         DEF Step, StatMarker, Validate, OpenIndex, Lock, MayStart, PushExisting, PushStart,
             PushObstructed, SourceFails, PushFinish, PushFail, RemoveBlob, RemoveFails,
             Ready, CopyFailed, CopyDone, ReadIndex, Collect, DeleteDone, LayerDirs, Mount,
             Unmount, Break, GiveUp, Kill, Making
    <2>3. pc[p] # "unmade"
      BY <1>4
         DEF Step, StatMarker, Validate, OpenIndex, Lock, MayStart, PushExisting, PushStart,
             PushObstructed, SourceFails, PushFinish, PushFail, RemoveBlob, RemoveFails,
             Ready, CopyFailed, CopyDone, ReadIndex, Collect, DeleteDone, LayerDirs, Mount,
             Unmount, Break, GiveUp, Kill, Fallible, Making, Live, Ended
    <2> QED BY <2>1, <2>2, <2>3, OthersStay DEF HalfMade, Making
  <1> QED BY <1>1, <1>2, <1>3, <1>4

(* A layout that was begun and cannot be opened is being made, or was left *)
(* by a command that failed or was killed in the middle of New, whatever   *)
(* else fails and whoever else is killed: no other step of a copy, delete  *)
(* or mount brings it about (layout.go: New writes oci-layout first, then  *)
(* the index; the index is only ever replaced by another).                 *)
THEOREM HalfMadeIsUnmade == Spec => []UnopenableIsUnmade
  <1>1. Init => HalfMade
    <2>1. Seeded => SeedIndex.mode \in Modes
      BY SeedAssumption
    <2> QED BY <2>1, CommandAssumption DEF Init, HalfMade, NoIndex, Modes
  <1>2. TypesHold /\ HalfMade /\ [Next]_vars => HalfMade'
    <2> SUFFICES ASSUME TypesHold, HalfMade, [Next]_vars PROVE HalfMade'
      OBVIOUS
    <2>1. CASE UNCHANGED vars
      BY <2>1 DEF vars, HalfMade
    <2>2. ASSUME NEW p \in Procs, Step(p) \/ Break(p) PROVE HalfMade'
      BY <2>2, StepMarker
    <2> QED BY <2>1, <2>2 DEF Next, AllEnded
  <1>3. TypesHold /\ HalfMade => UnopenableIsUnmade
    BY DEF TypesHold, TypeOK, Markers, HalfMade, UnopenableIsUnmade, Openable, Making
  <1> QED BY <1>1, <1>2, <1>3, InitTypes, StepTypes, PTL DEF Spec

-----------------------------------------------------------------------------
(* The layout's mode.                                                      *)

LEMMA ModeOfLayout ==
  ASSUME OneMode
  PROVE  /\ LayoutMode \in Modes
         /\ Seeded => LayoutMode = SeedIndex.mode
         /\ ~Seeded => \A p \in Procs : Op(p) = "copy" => Command[p].mode = LayoutMode
  BY SeedAssumption DEF OneMode, LayoutMode

LEMMA InitModes == OneMode /\ Init => ModesAgree /\ BlobsFit
  <1> SUFFICES ASSUME OneMode, Init PROVE ModesAgree /\ BlobsFit
    OBVIOUS
  <1>1. ModesAgree
    BY ModeOfLayout, CommandAssumption DEF Init, ModesAgree, Holding, Making
  <1>2. BlobsFit
    BY ModeOfLayout DEF Init, BlobsFit
  <1> QED BY <1>1, <1>2

LEMMA StepModes ==
  ASSUME OneMode, TypesHold, OpsMatch, ModesAgree, NEW p \in Procs, Step(p) \/ Break(p)
  PROVE  ModesAgree'
  <1> USE DEF TypesHold, TypeOK, disk, locals, Goto, Exit, Holding
  <1>1. /\ index' = NoIndex \/ index'.mode = LayoutMode
        /\ Seeded => marker' = "whole" /\ index'.mode = LayoutMode
    <2>1. CASE CreateIndex(p)
      BY <2>1 DEF CreateIndex, ModesAgree, Making
    <2>2. CASE WriteTag(p)
      <3>1. index'.mode = snapshot[p].mode
        BY <2>2, WithTagReaches, CommandTypes DEF WriteTag
      <3>2. snapshot[p].mode = LayoutMode /\ marker' = marker
        BY <2>2 DEF WriteTag, ModesAgree
      <3> QED BY <3>1, <3>2 DEF ModesAgree
    <2>3. CASE TrimIndex(p)
      BY <2>3, WithoutEntryReaches DEF TrimIndex, ModesAgree
    <2>4. CASE ~(CreateIndex(p) \/ WriteTag(p) \/ TrimIndex(p))
      <3>1. index' = index /\ (Seeded => marker' = marker)
        BY <2>4
           DEF Step, StatMarker, Validate, BeginMarker, CreateMarker, OpenIndex, Lock,
               PushExisting, PushStart, PushObstructed, SourceFails, PushFinish, PushFail,
               RemoveBlob, RemoveFails, CopyFailed, CopyDone, ReadIndex, Collect,
               DeleteDone, LayerDirs, Mount, Unmount, Break, GiveUp, Kill, Making,
               ModesAgree
      <3> QED BY <3>1 DEF ModesAgree
    <2> QED BY <2>1, <2>2, <2>3, <2>4
  <1>2. /\ Seeded => pc'[p] \notin Making \cup {"create"}
        /\ pc'[p] = "start" => mode'[p] = Command[p].mode
        /\ pc'[p] \in Making \cup {"create", "lock"} \cup Holding => mode'[p] = LayoutMode
        /\ pc'[p] \in {"tag", "collect", "trim"} => snapshot'[p].mode = LayoutMode
    <2>1. CASE StatMarker(p)
      BY <2>1, ModeOfLayout DEF StatMarker, MayStart, ModesAgree, Making
    <2>2. CASE OpenIndex(p) \/ ReadIndex(p)
      BY <2>2 DEF OpenIndex, ReadIndex, ModesAgree, Making
    <2>3. CASE \/ Validate(p) \/ BeginMarker(p) \/ CreateMarker(p) \/ CreateIndex(p) \/ Lock(p)
      BY <2>3 DEF Validate, BeginMarker, CreateMarker, CreateIndex, Lock, ModesAgree, Making
    <2>4. CASE \E d \in Digests : \/ PushExisting(p, d) \/ PushStart(p, d)
                                  \/ PushObstructed(p, d) \/ SourceFails(p, d)
                                  \/ PushFinish(p, d) \/ PushFail(p, d)
                                  \/ RemoveBlob(p, d) \/ RemoveFails(p, d)
      BY <2>4 DEF PushExisting, PushStart, PushObstructed, SourceFails, PushFinish,
                  PushFail, RemoveBlob, RemoveFails, ModesAgree
    <2>5. CASE CopyFailed(p) \/ CopyDone(p) \/ WriteTag(p)
      BY <2>5 DEF CopyFailed, CopyDone, WriteTag, ModesAgree, Making
    <2>6. CASE Collect(p) \/ TrimIndex(p) \/ DeleteDone(p)
      BY <2>6 DEF Collect, TrimIndex, DeleteDone, ModesAgree, Making
    <2>7. CASE LayerDirs(p) \/ Mount(p) \/ Unmount(p) \/ Break(p)
      BY <2>7 DEF LayerDirs, Mount, Unmount, Break, GiveUp, Kill, ModesAgree, Fallible,
                  Making
    <2> QED BY <2>1, <2>2, <2>3, <2>4, <2>5, <2>6, <2>7 DEF Step
  <1> QED BY <1>1, <1>2, OthersStay DEF ModesAgree

-----------------------------------------------------------------------------
(* Blobs.                                                                  *)

(* Only a copy that is copying and a delete that is removing touch blobs,  *)
(* and both have the lock.                                                 *)
LEMMA WhoTouchesBlobs ==
  ASSUME TypesHold, NEW p \in Procs, Step(p) \/ Break(p)
  PROVE  \/ blobs' = blobs
         \/ \E d \in Digests :
              \/ PushStart(p, d) \/ PushObstructed(p, d)
              \/ PushFinish(p, d) \/ PushFail(p, d) \/ RemoveBlob(p, d)
  BY DEF Step, StatMarker, Validate, BeginMarker, CreateMarker, CreateIndex, OpenIndex,
         Lock, PushExisting, SourceFails, RemoveFails, CopyFailed, CopyDone, ReadIndex,
         WriteTag, Collect, TrimIndex, DeleteDone, LayerDirs, Mount, Unmount, Break, GiveUp,
         Kill, disk

(* A layer's directory is never in the way of a file, nor a file of it.    *)
LEMMA NothingObstructs ==
  ASSUME ModesAgree, BlobsFit, NEW p \in Procs, NEW d \in Digests, Ready(p, d)
  PROVE  mode[p] = LayoutMode /\ ~Obstructed(d, mode[p])
  <1>1. mode[p] = LayoutMode
    BY DEF ModesAgree, Ready, Holding
  <1> QED BY <1>1 DEF BlobsFit, Obstructed, StoredAs, Unfinished, Files, Directories

LEMMA StepBlobs ==
  ASSUME OneMode, TypesHold, ModesAgree, BlobsFit, NEW p \in Procs, Step(p) \/ Break(p)
  PROVE  BlobsFit'
  <1> USE DEF TypesHold, TypeOK
  <1>1. CASE blobs' = blobs
    BY <1>1 DEF BlobsFit
  <1>2. ASSUME NEW d \in Digests, PushStart(p, d) PROVE BlobsFit'
    BY <1>2, NothingObstructs DEF PushStart, BlobsFit
  <1>3. ASSUME NEW d \in Digests, PushObstructed(p, d) PROVE FALSE
    BY <1>3, NothingObstructs DEF PushObstructed
  <1>4. ASSUME NEW d \in Digests, PushFinish(p, d) \/ PushFail(p, d) PROVE BlobsFit'
    BY <1>4 DEF PushFinish, PushFail, BlobsFit, ModesAgree, Holding
  <1>5. ASSUME NEW d \in Digests, RemoveBlob(p, d) PROVE BlobsFit'
    BY <1>5 DEF RemoveBlob, BlobsFit, StoredAs, Unfinished
  <1> QED BY <1>1, <1>2, <1>3, <1>4, <1>5, WhoTouchesBlobs

-----------------------------------------------------------------------------
(* Contents.                                                               *)

(* The part of the invariant that the rest rests on.                       *)
Ground == TypesHold /\ OpsMatch /\ LockIsHeld /\ ModesAgree /\ BlobsFit

(* Whatever a copy takes as it finds it is whole, because the lock's       *)
(* holder would be at work on it otherwise.                                *)
LEMMA FoundIsWhole ==
  ASSUME OneMode, Ground, Undisturbed => PartialIsWorkedOn, Undisturbed \/ LayoutMode = "tar",
         NEW p \in Procs, NEW d \in Digests, Ready(p, d), Exists(d, mode[p])
  PROVE  Whole(d, LayoutMode)
  <1>1. mode[p] = LayoutMode /\ LayoutMode \in Modes /\ pc[p] = "copying"
    BY NothingObstructs, ModeOfLayout DEF Ready, Ground
  <1>2. blobs[d] \in {"absent", StoredAs(d, LayoutMode), Unfinished(d, LayoutMode)}
    BY DEF Ground, BlobsFit
  <1>3. CASE LayoutMode = "tar"
    BY <1>1, <1>3 DEF Exists, Whole, StoredAs, Unfinished, Modes
  <1>4. CASE LayoutMode # "tar"
    <2>1. blobs[d] # Unfinished(d, LayoutMode)
      <3> SUFFICES ASSUME blobs[d] = Unfinished(d, LayoutMode) PROVE FALSE
        OBVIOUS
      <3>1. PICK q \in Procs : \/ pc[q] = "copying" /\ d \in writing[q]
                               \/ pc[q] = "remove" /\ d \in garbage[q]
        BY <1>4 DEF PartialIsWorkedOn
      <3>2. q = p
        BY <1>1, <3>1 DEF Ground, LockIsHeld, Holding
      <3> QED BY <1>1, <3>1, <3>2 DEF Ready
    <2> QED BY <1>1, <1>2, <2>1 DEF Exists, Whole, Files, Directories
  <1> QED BY <1>3, <1>4

(* When a copy has landed its root it has landed all, and writes nothing.  *)
LEMMA LandedIsAll ==
  ASSUME Ground, CopyIsWhole, NEW p \in Procs,
         pc[p] \in {"copying", "readIndex", "tag"}, Op(p) = "copy", Root(p) \in landed[p]
  PROVE  /\ CopySet[Root(p)] \subseteq landed[p]
         /\ Collected[Root(p)] \subseteq landed[p]
         /\ pc[p] = "copying" => writing[p] = {}
  <1> DEFINE walk == [d \in Digests |-> Walked(d)]
  <1>1. landed[p] \in SUBSET Digests /\ Root(p) \in Digests
    BY CommandTypes DEF Ground, TypesHold, TypeOK
  <1>2. \A d \in landed[p] : Whole(d, LayoutMode) /\ Walked(d) \subseteq landed[p]
    BY DEF CopyIsWhole
  <1>3. Closed(landed[p], walk) /\ Closed(landed[p], References)
    BY <1>1, <1>2 DEF Closed, Walked
  <1>4. CopySet[Root(p)] \subseteq landed[p]
    BY <1>1, <1>3, VisitedInside DEF CopySet
  <1>5. Collected[Root(p)] \subseteq landed[p]
    BY <1>1, <1>3, VisitedInside DEF Collected
  <1>6. pc[p] = "copying" => writing[p] = {}
    <2> SUFFICES ASSUME pc[p] = "copying", NEW d \in writing[p] PROVE FALSE
      OBVIOUS
    <2>1. d \in landed[p]
      BY <1>4 DEF Ground, TypesHold, TypeOK
    <2>2. blobs[d] = Unfinished(d, LayoutMode) /\ blobs[d] = StoredAs(d, LayoutMode)
      BY <1>2, <2>1 DEF CopyIsWhole, Whole
    <2> QED BY <2>2 DEF Unfinished, StoredAs
  <1> QED BY <1>4, <1>5, <1>6

LEMMA InitPartial == OneMode /\ Init => PartialIsWorkedOn
  BY ModeOfLayout DEF Init, PartialIsWorkedOn, Unfinished, StoredAs

LEMMA StepPartial ==
  ASSUME OneMode, Ground, Undisturbed, PartialIsWorkedOn, CopyIsWhole,
         NEW p \in Procs, Step(p) \/ Break(p)
  PROVE  PartialIsWorkedOn'
  <1> USE DEF Goto, Exit, disk, locals
  <1> SUFFICES ASSUME NEW x \in Digests, blobs'[x] = Unfinished(x, LayoutMode)
               PROVE  \E q \in Procs : \/ pc'[q] = "copying" /\ x \in writing'[q]
                                       \/ pc'[q] = "remove" /\ x \in garbage'[q]
    BY DEF PartialIsWorkedOn, LayoutMode, Op
  <1>a. TypeOK /\ OpsMatch /\ ModesAgree
    BY DEF Ground, TypesHold
  <1>1. ASSUME NEW q \in Procs, q # p, \/ pc[q] = "copying" /\ x \in writing[q]
                                       \/ pc[q] = "remove" /\ x \in garbage[q]
        PROVE  \/ pc'[q] = "copying" /\ x \in writing'[q]
               \/ pc'[q] = "remove" /\ x \in garbage'[q]
    BY <1>1, OthersStay DEF Ground
  <1>2. \/ blobs[x] = Unfinished(x, LayoutMode)
        \/ pc'[p] = "copying" /\ x \in writing'[p]
        \/ pc'[p] = "remove" /\ x \in garbage'[p]
    <2>1. CASE blobs' = blobs
      BY <2>1
    <2>2. ASSUME NEW d \in Digests, PushStart(p, d)
          PROVE  \/ blobs[x] = Unfinished(x, LayoutMode)
                 \/ pc'[p] = "copying" /\ x \in writing'[p]
      BY <1>a, <2>2 DEF PushStart, Ready, TypeOK
    <2>3. ASSUME NEW d \in Digests, PushObstructed(p, d)
          PROVE  FALSE
      BY <2>3, NothingObstructs DEF PushObstructed, Ground
    <2>4. ASSUME NEW d \in Digests, PushFinish(p, d) \/ PushFail(p, d)
          PROVE  blobs[x] = Unfinished(x, LayoutMode)
      BY <1>a, <2>4 DEF PushFinish, PushFail, TypeOK, Unfinished, StoredAs
    <2>5. ASSUME NEW d \in Digests, RemoveBlob(p, d)
          PROVE  \/ blobs[x] = Unfinished(x, LayoutMode)
                 \/ pc'[p] = "remove" /\ x \in garbage'[p]
      BY <1>a, <2>5 DEF RemoveBlob, TypeOK, Unfinished, StoredAs
    <2> QED BY <2>1, <2>2, <2>3, <2>4, <2>5, WhoTouchesBlobs DEF Ground
  <1>3. ASSUME pc[p] = "copying", x \in writing[p]
        PROVE  pc'[p] = "copying" /\ x \in writing'[p]
    <2>1. ~Break(p)
      BY <1>3 DEF Break, GiveUp, Kill, Undisturbed, Fallible, Making
    <2>2. ~CopyDone(p)
      BY <1>3, <1>a, LandedIsAll DEF CopyDone, OpsMatch
    <2>3. ASSUME NEW d \in Digests, PushExisting(p, d) \/ PushStart(p, d) \/ SourceFails(p, d)
          PROVE  pc'[p] = "copying" /\ x \in writing'[p]
      BY <1>3, <1>a, <2>3 DEF PushExisting, PushStart, SourceFails, TypeOK
    <2>4. ASSUME NEW d \in Digests, PushFinish(p, d) \/ PushFail(p, d)
          PROVE  pc'[p] = "copying" /\ x \in writing'[p]
      <3>1. d # x
        <4>1. mode[p] = LayoutMode
          BY <1>3, <1>a DEF ModesAgree, Holding
        <4> QED BY <1>a, <2>4, <4>1 DEF PushFinish, PushFail, TypeOK, Unfinished, StoredAs
      <3> QED BY <1>3, <1>a, <2>4, <3>1 DEF PushFinish, PushFail, TypeOK
    <2>5. ASSUME NEW d \in Digests, PushObstructed(p, d)
          PROVE  FALSE
      BY <2>5, NothingObstructs DEF PushObstructed, Ground
    <2> QED
      BY <1>3, <2>1, <2>2, <2>3, <2>4, <2>5
         DEF Step, StatMarker, Validate, BeginMarker, CreateMarker, CreateIndex, OpenIndex,
             Lock, MayStart, RemoveBlob, RemoveFails, CopyFailed, ReadIndex, WriteTag,
             Collect, TrimIndex, DeleteDone, LayerDirs, Mount, Unmount
  <1>4. ASSUME pc[p] = "remove", x \in garbage[p]
        PROVE  pc'[p] = "remove" /\ x \in garbage'[p]
    <2>1. ~Break(p)
      BY <1>4 DEF Break, GiveUp, Kill, Undisturbed, Fallible, Making
    <2>2. ASSUME NEW d \in Digests, RemoveBlob(p, d)
          PROVE  pc'[p] = "remove" /\ x \in garbage'[p]
      BY <1>4, <1>a, <2>2 DEF RemoveBlob, TypeOK, Unfinished, StoredAs
    <2>3. ASSUME NEW d \in Digests PROVE ~RemoveFails(p, d)
      BY <1>4, <1>a DEF RemoveFails, Undisturbed, OpsMatch
    <2> QED
      BY <1>4, <2>1, <2>2, <2>3
         DEF Step, StatMarker, Validate, BeginMarker, CreateMarker, CreateIndex, OpenIndex,
             Lock, MayStart, PushExisting, PushStart, PushObstructed, SourceFails,
             PushFinish, PushFail, Ready, CopyFailed, CopyDone, ReadIndex, WriteTag,
             Collect, TrimIndex, DeleteDone, LayerDirs, Mount, Unmount
  <1> QED BY <1>1, <1>2, <1>3, <1>4 DEF PartialIsWorkedOn

-----------------------------------------------------------------------------
(* What is whole stays whole.                                              *)

Contents == CopyIsWhole /\ SnapshotIsWhole /\ TaggedIsWhole

LEMMA InitContents == OneMode /\ Init => Contents
  <1> SUFFICES ASSUME OneMode, Init PROVE Contents
    OBVIOUS
  <1>1. \A d \in Reachable(index.entries) : Whole(d, index.mode)
    <2>1. CASE Seeded
      <3>1. Reachable(SeedIndex.entries) \subseteq Digests
        <4>1. SeedIndex \in IndexStates
          BY <2>1, SeedAssumption DEF IndexStates
        <4> QED BY <4>1, ReachableAreDigests
      <3> QED BY <2>1, <3>1 DEF Init, Seed, Whole
    <2>2. CASE ~Seeded
      <3>1. Reachable(index.entries) = {}
        BY <2>2 DEF Init, NoIndex, Reachable
      <3> QED BY <3>1
    <2> QED BY <2>1, <2>2
  <1>2. CopyIsWhole /\ SnapshotIsWhole
    BY DEF Init, CopyIsWhole, SnapshotIsWhole, Begun
  <1> QED BY <1>1, <1>2 DEF Contents, TaggedIsWhole

(* A blob that a step leaves incomplete or removes was not whole, or is    *)
(* an orphan.                                                              *)
LEMMA WholeStays ==
  ASSUME OneMode, Ground, Contents, Undisturbed => PartialIsWorkedOn,
         Undisturbed \/ LayoutMode = "tar",
         NEW p \in Procs, Step(p) \/ Break(p),
         NEW x \in Digests, Whole(x, LayoutMode), ~(Whole(x, LayoutMode)')
  PROVE  pc[p] = "remove" /\ x \in garbage[p]
  <1>a. TypeOK /\ ModesAgree
    BY DEF Ground, TypesHold
  <1>b. blobs[x] = StoredAs(x, LayoutMode) /\ blobs'[x] # StoredAs(x, LayoutMode)
    BY DEF Whole, StoredAs, LayoutMode, Op
  <1>1. ASSUME NEW d \in Digests, PushStart(p, d) PROVE FALSE
    <2>1. d = x
      BY <1>a, <1>b, <1>1 DEF PushStart, TypeOK
    <2>2. mode[p] = LayoutMode /\ LayoutMode \in Modes
      BY <1>1, NothingObstructs, ModeOfLayout DEF PushStart, Ground
    <2> QED BY <1>1, <1>b, <2>1, <2>2 DEF PushStart, Exists, StoredAs, Directories
  <1>2. ASSUME NEW d \in Digests, PushObstructed(p, d) PROVE FALSE
    BY <1>2, NothingObstructs DEF PushObstructed, Ground
  <1>3. ASSUME NEW d \in Digests, PushFinish(p, d) \/ PushFail(p, d) PROVE FALSE
    <2>1. d = x
      BY <1>a, <1>b, <1>3 DEF PushFinish, PushFail, TypeOK
    <2>2. blobs[d] = Unfinished(d, LayoutMode)
      BY <1>3 DEF PushFinish, PushFail, Contents, CopyIsWhole
    <2> QED BY <1>b, <2>1, <2>2 DEF Unfinished, StoredAs
  <1>4. ASSUME NEW d \in Digests, RemoveBlob(p, d)
        PROVE  pc[p] = "remove" /\ x \in garbage[p]
    BY <1>a, <1>b, <1>4 DEF RemoveBlob, TypeOK
  <1> QED BY <1>b, <1>1, <1>2, <1>3, <1>4, WhoTouchesBlobs DEF Ground

(* What CopyIsWhole says of one command.                                   *)
CopyOf(p) ==
  /\ pc[p] \in Begun => landed[p] \cup writing[p] = {}
  /\ pc[p] \in {"copying", "readIndex", "tag"} /\ Op(p) = "copy" =>
       /\ \A d \in landed[p] : Whole(d, LayoutMode) /\ Walked(d) \subseteq landed[p]
       /\ pc[p] # "copying" => Root(p) \in landed[p]
  /\ pc[p] = "copying" =>
       \A d \in writing[p] :
         blobs[d] = Unfinished(d, LayoutMode) /\ Walked(d) \subseteq landed[p]

(* What a copy has landed stays whole: its lock keeps deletes away.        *)
LEMMA OtherCopies ==
  ASSUME Ground, CopyIsWhole, NEW p \in Procs, Step(p) \/ Break(p), NEW q \in Procs, q # p
  PROVE  CopyOf(q)'
  <1>1. /\ pc'[q] = pc[q] /\ landed'[q] = landed[q] /\ writing'[q] = writing[q]
    BY OthersStay DEF Ground
  <1>2. ASSUME pc[q] \in {"copying", "readIndex", "tag"} PROVE blobs' = blobs
    <2>1. pc[p] \notin Holding
      BY <1>2 DEF Ground, LockIsHeld, Holding
    <2> QED
      BY <2>1, WhoTouchesBlobs
         DEF Ground, PushStart, PushObstructed, PushFinish, PushFail, RemoveBlob, Ready,
             Holding
  <1>3. CopyOf(q)
    BY DEF CopyOf, CopyIsWhole
  <1>4. CASE pc[q] \in {"copying", "readIndex", "tag"}
    BY <1>1, <1>2, <1>3, <1>4 DEF CopyOf, Whole, StoredAs, Unfinished, LayoutMode, Op,
                                  Walked, Root
  <1>5. CASE pc[q] \notin {"copying", "readIndex", "tag"}
    BY <1>1, <1>3, <1>5 DEF CopyOf
  <1> QED BY <1>4, <1>5

LEMMA OwnCopy ==
  ASSUME OneMode, Ground, Contents, Undisturbed => PartialIsWorkedOn,
         Undisturbed \/ LayoutMode = "tar",
         NEW p \in Procs, Step(p) \/ Break(p)
  PROVE  CopyOf(p)'
  <1> USE DEF Goto, Exit, disk, locals
  <1>1. /\ TypeOK /\ OpsMatch /\ ModesAgree /\ CopyOf(p)
        /\ landed[p] \subseteq Digests /\ writing[p] \subseteq Digests
    BY DEF Ground, TypesHold, TypeOK, Contents, CopyIsWhole, CopyOf
  <1>2. ASSUME pc[p] = "copying"
        PROVE  /\ mode[p] = LayoutMode /\ Op(p) = "copy"
               /\ \A k \in landed[p] : Whole(k, LayoutMode) /\ Walked(k) \subseteq landed[p]
               /\ \A k \in writing[p] :
                    blobs[k] = Unfinished(k, LayoutMode) /\ Walked(k) \subseteq landed[p]
               /\ \A k \in Digests : Whole(k, LayoutMode) => Whole(k, LayoutMode)'
    BY <1>1, <1>2, WholeStays DEF ModesAgree, Holding, OpsMatch, CopyOf
  <1>3. (\A k : Whole(k, LayoutMode)' <=> blobs'[k] = StoredAs(k, LayoutMode))
    BY DEF Whole, StoredAs, LayoutMode, Op
  <1>4. ASSUME pc[p] = "copying", pc'[p] = "copying",
               \A k \in landed'[p] : Whole(k, LayoutMode)' /\ Walked(k) \subseteq landed'[p],
               \A k \in writing'[p] :
                 blobs'[k] = Unfinished(k, LayoutMode) /\ Walked(k) \subseteq landed'[p]
        PROVE  CopyOf(p)'
    BY <1>4 DEF CopyOf, Begun, LayoutMode, Op, Unfinished, StoredAs, Walked, Making
  <1>5. CASE \/ StatMarker(p) \/ Validate(p) \/ BeginMarker(p) \/ CreateMarker(p)
             \/ CreateIndex(p) \/ OpenIndex(p)
    <2>1. pc[p] \in Begun /\ landed'[p] = landed[p] /\ writing'[p] = writing[p]
      BY <1>5 DEF StatMarker, Validate, BeginMarker, CreateMarker, CreateIndex, OpenIndex,
                  MayStart, Begun, Making
    <2>2. pc'[p] \notin {"copying", "readIndex", "tag"}
      BY <1>1, <1>5
         DEF StatMarker, Validate, BeginMarker, CreateMarker, CreateIndex, OpenIndex,
             MayStart, TypeOK
    <2> QED BY <1>1, <2>1, <2>2 DEF CopyOf
  <1>6. CASE Lock(p)
    <2>1. /\ pc[p] \in Begun /\ landed'[p] = landed[p] /\ writing'[p] = writing[p]
          /\ pc'[p] = IF Op(p) = "copy" THEN "copying" ELSE "readIndex"
      BY <1>1, <1>6 DEF Lock, Begun, TypeOK
    <2>2. landed[p] = {} /\ writing[p] = {}
      BY <1>1, <2>1 DEF CopyOf
    <2> QED BY <2>1, <2>2 DEF CopyOf, Begun, Op
  <1>7. ASSUME NEW d \in Digests, PushExisting(p, d) PROVE CopyOf(p)'
    <2>1. /\ pc[p] = "copying" /\ pc'[p] = "copying" /\ writing'[p] = writing[p]
          /\ blobs' = blobs /\ landed'[p] = landed[p] \cup {d} /\ Walked(d) \subseteq landed[p]
      BY <1>1, <1>7 DEF PushExisting, Ready, TypeOK
    <2>2. Whole(d, LayoutMode)
      BY <1>7, FoundIsWhole DEF PushExisting, Contents
    <2> QED BY <1>1, <1>2, <1>4, <2>1, <2>2
  <1>8. ASSUME NEW d \in Digests, PushStart(p, d) PROVE CopyOf(p)'
    <2>1. /\ pc[p] = "copying" /\ pc'[p] = "copying" /\ writing'[p] = writing[p] \cup {d}
          /\ landed'[p] = landed[p] /\ Walked(d) \subseteq landed[p]
          /\ blobs' = [blobs EXCEPT ![d] = Unfinished(d, mode[p])]
      BY <1>1, <1>8 DEF PushStart, Ready, TypeOK
    <2>2. \A k \in writing'[p] : blobs'[k] = Unfinished(k, LayoutMode)
      BY <1>1, <1>2, <2>1 DEF TypeOK
    <2> QED BY <1>1, <1>2, <1>4, <2>1, <2>2
  <1>9. ASSUME NEW d \in Digests, PushObstructed(p, d) PROVE FALSE
    BY <1>9, NothingObstructs DEF PushObstructed, Ground
  <1>10. ASSUME NEW d \in Digests, SourceFails(p, d) PROVE CopyOf(p)'
    <2>1. /\ pc[p] = "copying" /\ pc'[p] = "copying" /\ writing'[p] = writing[p]
          /\ landed'[p] = landed[p] /\ blobs' = blobs
      BY <1>1, <1>10 DEF SourceFails, Ready, TypeOK
    <2> QED BY <1>1, <1>2, <1>4, <2>1
  <1>11. ASSUME NEW d \in Digests, PushFinish(p, d) PROVE CopyOf(p)'
    <2>1. /\ pc[p] = "copying" /\ pc'[p] = "copying" /\ writing'[p] = writing[p] \ {d}
          /\ d \in writing[p] /\ landed'[p] = landed[p] \cup {d}
          /\ blobs' = [blobs EXCEPT ![d] = IF @ = Unfinished(d, mode[p])
                                           THEN StoredAs(d, mode[p]) ELSE @]
      BY <1>1, <1>11 DEF PushFinish, TypeOK
    <2>2. Walked(d) \subseteq landed[p] /\ blobs'[d] = StoredAs(d, LayoutMode)
      BY <1>1, <1>2, <2>1 DEF TypeOK
    <2>3. \A k \in writing'[p] : blobs'[k] = Unfinished(k, LayoutMode)
      BY <1>1, <1>2, <2>1 DEF TypeOK
    <2> QED BY <1>1, <1>2, <1>3, <1>4, <2>1, <2>2, <2>3
  <1>12. ASSUME NEW d \in Digests, PushFail(p, d) PROVE CopyOf(p)'
    <2>1. /\ pc[p] = "copying" /\ pc'[p] = "copying" /\ writing'[p] = writing[p] \ {d}
          /\ landed'[p] = landed[p] /\ blobs' = [blobs EXCEPT ![d] = "absent"]
      BY <1>1, <1>12 DEF PushFail, TypeOK
    <2>2. \A k \in writing'[p] : blobs'[k] = Unfinished(k, LayoutMode)
      BY <1>1, <1>2, <2>1 DEF TypeOK
    <2> QED BY <1>1, <1>2, <1>4, <2>1, <2>2
  <1>13. CASE CopyDone(p) \/ ReadIndex(p)
    <2>1. /\ landed'[p] = landed[p] /\ blobs' = blobs
          /\ pc'[p] \in {"readIndex", "tag", "collect", "failed"}
          /\ pc[p] \in {"copying", "readIndex"}
          /\ pc[p] = "copying" => Root(p) \in landed[p]
      BY <1>1, <1>13 DEF CopyDone, ReadIndex, TypeOK
    <2> QED BY <1>1, <1>2, <2>1 DEF CopyOf, Begun, Whole, StoredAs, LayoutMode, Op, Walked, Root, Making
  <1>14. CASE \/ CopyFailed(p) \/ WriteTag(p) \/ Collect(p) \/ TrimIndex(p) \/ DeleteDone(p)
              \/ LayerDirs(p) \/ Mount(p) \/ Unmount(p) \/ Break(p)
    <2>1. pc'[p] \in {"failed", "done", "trim", "remove", "mount", "mounted", "killed",
                  "unmade"}
      BY <1>1, <1>14
         DEF CopyFailed, WriteTag, Collect, TrimIndex, DeleteDone, LayerDirs, Mount,
             Unmount, Break, GiveUp, Kill, TypeOK
    <2> QED BY <2>1 DEF CopyOf, Begun, Making
  <1>15. ASSUME NEW d \in Digests, RemoveBlob(p, d) \/ RemoveFails(p, d) PROVE CopyOf(p)'
    <2>1. pc'[p] = "remove"
      BY <1>15 DEF RemoveBlob, RemoveFails
    <2> QED BY <2>1 DEF CopyOf, Begun, Making
  <1> QED
    BY <1>5, <1>6, <1>7, <1>8, <1>9, <1>10, <1>11, <1>12, <1>13, <1>14, <1>15 DEF Step

LEMMA StepCopies ==
  ASSUME OneMode, Ground, Contents, Undisturbed => PartialIsWorkedOn,
         Undisturbed \/ LayoutMode = "tar",
         NEW p \in Procs, Step(p) \/ Break(p)
  PROVE  CopyIsWhole'
  <1>1. \A q \in Procs : CopyOf(q)'
    BY OtherCopies, OwnCopy DEF Contents
  <1> QED BY <1>1 DEF CopyOf, CopyIsWhole

(* What SnapshotIsWhole says of one command.                               *)
SnapshotOf(p) ==
  /\ pc[p] \in {"tag", "collect", "trim"} =>
       \A d \in Reachable(snapshot[p].entries) : Whole(d, LayoutMode)
  /\ pc[p] = "trim" =>
       garbage[p] \cap Reachable(WithoutEntry(snapshot[p], Tag(p)).entries) = {}
  /\ pc[p] = "remove" => garbage[p] \cap Reachable(index.entries) = {}

(* An index that is written holds nothing that was not whole, and nothing  *)
(* that anybody is removing.                                               *)
LEMMA WrittenIndex ==
  ASSUME OneMode, Ground, Contents, NEW p \in Procs, Step(p) \/ Break(p), index' # index
  PROVE  /\ blobs' = blobs
         /\ \A d \in Reachable(index'.entries) : Whole(d, LayoutMode)
         /\ \/ index'.entries = << >>
            \/ pc[p] \in Holding
  <1>a. TypeOK /\ OpsMatch
    BY DEF Ground, TypesHold
  <1>1. CASE CreateIndex(p)
    <2>1. index'.entries = << >> /\ blobs' = blobs
      BY <1>1 DEF CreateIndex
    <2> QED BY <2>1 DEF Reachable
  <1>2. CASE WriteTag(p)
    <2>1. /\ pc[p] = "tag" /\ blobs' = blobs
          /\ index' = WithTag(snapshot[p], Tag(p), Root(p))
      BY <1>2 DEF WriteTag
    <2>2. Reachable(index'.entries) = Reachable(snapshot[p].entries) \cup Collected[Root(p)]
      BY <1>2, TagWritten DEF Ground
    <2>3. \A d \in Collected[Root(p)] : Whole(d, LayoutMode)
      BY <1>a, <2>1, LandedIsAll DEF Contents, CopyIsWhole, OpsMatch
    <2> QED BY <2>1, <2>2, <2>3 DEF Contents, SnapshotIsWhole, Holding
  <1>3. CASE TrimIndex(p)
    <2>1. /\ pc[p] = "trim" /\ blobs' = blobs
          /\ index' = WithoutEntry(snapshot[p], Tag(p))
      BY <1>3 DEF TrimIndex
    <2>2. Reachable(index'.entries) \subseteq Reachable(snapshot[p].entries)
      BY <1>a, <2>1, WithoutEntryReaches DEF TypeOK
    <2> QED BY <2>1, <2>2 DEF Contents, SnapshotIsWhole, Holding
  <1>4. CASE ~(CreateIndex(p) \/ WriteTag(p) \/ TrimIndex(p))
    <2>1. index' = index
      BY <1>4
         DEF Step, StatMarker, Validate, BeginMarker, CreateMarker, OpenIndex, Lock,
             PushExisting, PushStart, PushObstructed, SourceFails, PushFinish, PushFail,
             RemoveBlob, RemoveFails, CopyFailed, CopyDone, ReadIndex, Collect, DeleteDone,
             LayerDirs, Mount, Unmount, Break, GiveUp, Kill, disk
    <2> QED BY <2>1
  <1> QED BY <1>1, <1>2, <1>3, <1>4

LEMMA OtherSnapshots ==
  ASSUME OneMode, Ground, Contents, NEW p \in Procs, Step(p) \/ Break(p), NEW q \in Procs, q # p
  PROVE  SnapshotOf(q)'
  <1>1. /\ pc'[q] = pc[q] /\ snapshot'[q] = snapshot[q] /\ garbage'[q] = garbage[q]
    BY OthersStay DEF Ground
  <1>2. SnapshotOf(q)
    BY DEF SnapshotOf, Contents, SnapshotIsWhole
  <1>3. ASSUME pc[q] \in {"tag", "collect", "trim", "remove"}
        PROVE  blobs' = blobs /\ (index' = index \/ index'.entries = << >>)
    <2>1. pc[p] \notin Holding
      BY <1>3 DEF Ground, LockIsHeld, Holding
    <2>2. blobs' = blobs
      BY <2>1, WhoTouchesBlobs
         DEF Ground, PushStart, PushObstructed, PushFinish, PushFail, RemoveBlob, Ready,
             Holding
    <2> QED BY <2>1, <2>2, WrittenIndex
  <1>4. Reachable(<< >>) = {}
    BY DEF Reachable
  <1>5. CASE pc[q] \in {"tag", "collect", "trim"}
    BY <1>1, <1>2, <1>3, <1>5 DEF SnapshotOf, Whole, StoredAs, LayoutMode, Op, Tag
  <1>6. CASE pc[q] = "remove"
    BY <1>1, <1>2, <1>3, <1>4, <1>6 DEF SnapshotOf
  <1>7. CASE pc[q] \notin {"tag", "collect", "trim", "remove"}
    BY <1>1, <1>7 DEF SnapshotOf
  <1> QED BY <1>5, <1>6, <1>7

LEMMA OwnSnapshot ==
  ASSUME OneMode, Ground, Contents, NEW p \in Procs, Step(p) \/ Break(p)
  PROVE  SnapshotOf(p)'
  <1> USE DEF Goto, Exit, disk, locals
  <1>1. TypeOK /\ ModesAgree /\ SnapshotOf(p)
    BY DEF Ground, TypesHold, Contents, SnapshotIsWhole, SnapshotOf
  <1>2. CASE ReadIndex(p)
    <2>1. /\ snapshot'[p] = index /\ blobs' = blobs
          /\ index # NoIndex \/ pc'[p] = "failed"
      BY <1>1, <1>2 DEF ReadIndex, TypeOK
    <2>2. pc'[p] \notin {"trim", "remove"}
      BY <1>1, <1>2 DEF ReadIndex, TypeOK
    <2>3. index # NoIndex => index.mode = LayoutMode
      BY <1>1 DEF ModesAgree
    <2> QED
      BY <2>1, <2>2, <2>3
         DEF SnapshotOf, Contents, TaggedIsWhole, Whole, StoredAs, LayoutMode, Op
  <1>3. CASE Collect(p)
    <2>1. pc'[p] \in {"trim", "failed"} /\ snapshot'[p] = snapshot[p] /\ blobs' = blobs
          /\ pc[p] = "collect"
      BY <1>1, <1>3 DEF Collect, TypeOK
    <2>2. pc'[p] = "trim" => garbage'[p] = Orphans(snapshot[p], Tag(p))
      BY <1>1, <1>3 DEF Collect, TypeOK
    <2> QED
      BY <1>1, <2>1, <2>2 DEF SnapshotOf, Orphans, Whole, StoredAs, LayoutMode, Op, Tag
  <1>4. CASE TrimIndex(p)
    <2>1. /\ pc[p] = "trim" /\ pc'[p] = "remove" /\ garbage'[p] = garbage[p]
          /\ index' = WithoutEntry(snapshot[p], Tag(p))
      BY <1>1, <1>4 DEF TrimIndex, TypeOK
    <2> QED BY <1>1, <2>1 DEF SnapshotOf
  <1>5. ASSUME NEW d \in Digests, RemoveBlob(p, d) \/ RemoveFails(p, d) PROVE SnapshotOf(p)'
    <2>1. /\ pc[p] = "remove" /\ pc'[p] = "remove" /\ garbage'[p] \subseteq garbage[p]
          /\ index' = index
      BY <1>1, <1>5 DEF RemoveBlob, RemoveFails, TypeOK
    <2> QED BY <1>1, <2>1 DEF SnapshotOf
  <1>6. CASE ~(\/ ReadIndex(p) \/ Collect(p) \/ TrimIndex(p)
               \/ \E d \in Digests : RemoveBlob(p, d) \/ RemoveFails(p, d))
    <2>1. pc'[p] \notin {"tag", "collect", "trim", "remove"}
      BY <1>1, <1>6
         DEF Step, StatMarker, Validate, BeginMarker, CreateMarker, CreateIndex, OpenIndex,
             Lock, MayStart, PushExisting, PushStart, PushObstructed, SourceFails,
             PushFinish, PushFail, Ready, CopyFailed, CopyDone, WriteTag, DeleteDone,
             LayerDirs, Mount, Unmount, Break, GiveUp, Kill, TypeOK
    <2> QED BY <2>1 DEF SnapshotOf
  <1> QED BY <1>2, <1>3, <1>4, <1>5, <1>6

LEMMA StepSnapshots ==
  ASSUME OneMode, Ground, Contents, NEW p \in Procs, Step(p) \/ Break(p)
  PROVE  SnapshotIsWhole'
  <1>1. \A q \in Procs : SnapshotOf(q)'
    BY OtherSnapshots, OwnSnapshot
  <1> QED BY <1>1 DEF SnapshotOf, SnapshotIsWhole

(* What the index reaches stays whole.                                     *)
LEMMA StepTagged ==
  ASSUME OneMode, Ground, Contents, Undisturbed => PartialIsWorkedOn,
         Undisturbed \/ LayoutMode = "tar", Ground', ModesAgree',
         NEW p \in Procs, Step(p) \/ Break(p)
  PROVE  TaggedIsWhole'
  <1>1. index'.mode = LayoutMode \/ Reachable(index'.entries) = {}
    BY DEF ModesAgree, NoIndex, Reachable
  <1>2. ASSUME NEW d \in Reachable(index'.entries), index'.mode = LayoutMode
        PROVE  blobs'[d] = StoredAs(d, LayoutMode)
    <2>1. CASE index' # index
      BY <1>2, <2>1, WrittenIndex DEF Whole
    <2>2. CASE index' = index
      <3>1. d \in Digests /\ Whole(d, LayoutMode)
        BY <1>2, <2>2, ReachableAreDigests
           DEF Contents, TaggedIsWhole, Ground, TypesHold, TypeOK
      <3>2. pc[p] = "remove" => d \notin garbage[p]
        BY <1>2, <2>2 DEF Contents, SnapshotIsWhole
      <3>3. Whole(d, LayoutMode)'
        BY <3>1, <3>2, WholeStays
      <3> QED BY <3>3 DEF Whole, StoredAs, LayoutMode, Op
    <2> QED BY <2>1, <2>2
  <1> QED BY <1>1, <1>2 DEF TaggedIsWhole, Whole, StoredAs

-----------------------------------------------------------------------------
(* The invariant.                                                          *)

LEMMA InitInvariant == Init => LayoutInvariant
  <1>1. Init => TypesHold /\ OpsMatch /\ LockIsHeld
    BY InitTypes DEF Init, OpsMatch, LockIsHeld, Holding, Making
  <1> QED
    BY <1>1, InitModes, InitPartial, InitContents DEF LayoutInvariant, TypesHold, Contents

LEMMA StepInvariant ==
  ASSUME LayoutInvariant, NEW p \in Procs, Step(p) \/ Break(p)
  PROVE  LayoutInvariant'
  <1>1. TypesHold /\ OpsMatch /\ LockIsHeld
    BY DEF LayoutInvariant, TypesHold
  <1>2. TypesHold' /\ OpsMatch' /\ LockIsHeld'
    BY <1>1, StepTypes, StepOps, StepLock DEF Next
  <1>3. ASSUME OneMode PROVE ModesAgree' /\ BlobsFit'
    BY <1>1, <1>3, StepModes, StepBlobs DEF LayoutInvariant
  <1>4. ASSUME OneMode PROVE Ground /\ Ground'
    BY <1>1, <1>2, <1>3, <1>4 DEF LayoutInvariant, Ground
  <1>5. ASSUME OneMode, Undisturbed PROVE PartialIsWorkedOn'
    BY <1>4, <1>5, StepPartial DEF LayoutInvariant
  <1>6. ASSUME OneMode, Undisturbed \/ LayoutMode = "tar" PROVE Contents'
    <2>1. Ground /\ Ground' /\ ModesAgree' /\ Contents /\ (Undisturbed => PartialIsWorkedOn)
      BY <1>3, <1>4, <1>6 DEF LayoutInvariant, Contents
    <2>2. CopyIsWhole'
      BY <1>6, <2>1, StepCopies
    <2>3. SnapshotIsWhole'
      BY <1>6, <2>1, StepSnapshots
    <2>4. TaggedIsWhole'
      BY <1>6, <2>1, StepTagged
    <2> QED BY <2>2, <2>3, <2>4 DEF Contents
  <1>7. OneMode' <=> OneMode
    BY DEF OneMode, Op
  <1>8. LayoutMode' = LayoutMode /\ (Undisturbed' <=> Undisturbed)
    BY DEF LayoutMode, Undisturbed, Op
  <1> QED
    BY <1>2, <1>3, <1>5, <1>6, <1>7, <1>8 DEF LayoutInvariant, TypesHold, Contents

(* The inductive invariant: the lock's holder alone acts on blobs and on   *)
(* the index, what it has landed is whole and closed under references, and *)
(* what it removes is reached by nothing.                                  *)
THEOREM LayoutHolds == Spec => []LayoutInvariant
  <1>1. LayoutInvariant /\ [Next]_vars => LayoutInvariant'
    <2> SUFFICES ASSUME LayoutInvariant, [Next]_vars PROVE LayoutInvariant'
      OBVIOUS
    <2>1. CASE UNCHANGED vars
      BY <2>1
         DEF vars, locals, LayoutInvariant, TypeOK, IndexesAreRead, OpsMatch, LockIsHeld,
             OneMode, ModesAgree, BlobsFit, PartialIsWorkedOn, CopyIsWhole, SnapshotIsWhole,
             TaggedIsWhole, Whole, Undisturbed, LayoutMode, Op, Tag, Root, Unfinished,
             StoredAs, Walked
    <2> QED BY <2>1, StepInvariant DEF Next, AllEnded
  <1> QED BY <1>1, InitInvariant, PTL DEF Spec

(* A tag never points at content that is missing or incomplete, whoever    *)
(* copies, deletes and mounts, if the layout is of one mode and either it  *)
(* is a tar layout, killed and failing commands included, or no command is *)
(* killed and no delete fails half-way.                                    *)
THEOREM TaggedStaysWhole ==
  OneMode /\ (Undisturbed \/ LayoutMode = "tar") => (Spec => []TaggedIsWhole)
  <1> SUFFICES ASSUME OneMode, Undisturbed \/ LayoutMode = "tar"
               PROVE  Spec => []TaggedIsWhole
    OBVIOUS
  <1>1. LayoutInvariant => TaggedIsWhole
    BY DEF LayoutInvariant
  <1> QED BY <1>1, LayoutHolds, PTL

(* What is incomplete has a process at work on it, copies that fail        *)
(* included, if none is killed and no delete fails half-way.               *)
THEOREM UnfinishedStaysInHand ==
  OneMode /\ Undisturbed => (Spec => []UnfinishedIsInHand)
  <1> SUFFICES ASSUME OneMode, Undisturbed
               PROVE  Spec => []UnfinishedIsInHand
    OBVIOUS
  <1>1. LayoutInvariant => UnfinishedIsInHand
    <2> SUFFICES ASSUME LayoutInvariant, NEW d \in Digests, blobs[d] \in {"partFile", "partDir"}
                 PROVE  \E p \in Procs : Live(p) /\ d \in writing[p] \cup garbage[p]
      BY DEF UnfinishedIsInHand
    <2>1. blobs[d] = Unfinished(d, LayoutMode)
      BY DEF LayoutInvariant, BlobsFit, StoredAs, Unfinished
    <2> QED BY <2>1 DEF LayoutInvariant, PartialIsWorkedOn, Live, Ended
  <1> QED BY <1>1, LayoutHolds, PTL

-----------------------------------------------------------------------------
(* What is left when all is done.                                          *)

(* The layout is there, nothing fails, and no manifest has a subject,      *)
(* which delete would not follow.                                          *)
AllGoesWell ==
  Seeded /\ MayCrash = {} /\ MayFault = {} /\ \A d \in Digests : Subject[d] = {}

(* A command at work on a digest: it is landing it or about to remove it.  *)
AtWorkOn(p, d) ==
  \/ pc[p] = "copying" /\ d \in writing[p]
  \/ pc[p] \in {"copying", "readIndex", "tag"} /\ Op(p) = "copy" /\ d \in landed[p]
  \/ pc[p] = "remove" /\ d \in garbage[p]

NeededOrInHand ==
  /\ \A p \in Procs :
       /\ failed[p] = {}
       /\ pc[p] \in {"tag", "collect", "trim"} => snapshot[p] = index
       /\ pc[p] = "trim" =>
            Tagged(snapshot[p], Tag(p)) /\ garbage[p] = Orphans(snapshot[p], Tag(p))
  /\ \A d \in Digests : blobs[d] # "absent" =>
       d \in Reachable(index.entries) \/ \E p \in Procs : AtWorkOn(p, d)

(* Where all goes well only what a tag reaches is landed.                  *)
LEMMA LandedIsNeeded ==
  ASSUME AllGoesWell, NEW d \in Digests
  PROVE  CopySet[d] = Collected[d]
  <1>1. [k \in Digests |-> Walked(k)] = References
    BY StoreAssumption DEF AllGoesWell, Walked
  <1> QED BY <1>1 DEF CopySet, Collected

LEMMA WellMeansSound ==
  ASSUME AllGoesWell, LayoutInvariant
  PROVE  /\ OneMode /\ Undisturbed /\ Ground /\ Contents
         /\ index # NoIndex
  <1>1. OneMode /\ Undisturbed
    BY DEF AllGoesWell, OneMode, Undisturbed
  <1>2. LayoutMode # "none"
    BY <1>1, ModeOfLayout DEF Modes
  <1> QED
    BY <1>1, <1>2
       DEF LayoutInvariant, Ground, TypesHold, Contents, ModesAgree, AllGoesWell, NoIndex

LEMMA InitLeftovers == AllGoesWell /\ Init => NeededOrInHand
  <1> SUFFICES ASSUME AllGoesWell, Init PROVE NeededOrInHand
    OBVIOUS
  <1>1. \A d \in Digests : blobs[d] # "absent" => d \in Reachable(index.entries)
    BY DEF AllGoesWell, Init, Seed
  <1> QED BY <1>1 DEF Init, NeededOrInHand

(* The index is written by the one that read it, and what a removed entry  *)
(* alone reached is its writer's garbage.                                  *)
LEMMA StepIndexLeftovers ==
  ASSUME AllGoesWell, LayoutInvariant, NeededOrInHand, NEW p \in Procs, Step(p) \/ Break(p)
  PROVE  /\ index' # index => pc[p] \in {"tag", "trim"}
         /\ \A d \in Reachable(index.entries) :
              \/ d \in Reachable(index'.entries)
              \/ pc'[p] = "remove" /\ d \in garbage'[p]
         /\ pc[p] = "tag" => \A d \in landed[p] : d \in Reachable(index'.entries)
  <1> USE WellMeansSound DEF Ground, TypesHold, Goto, Exit, disk, locals
  <1>1. CASE CreateIndex(p)
    BY <1>1 DEF CreateIndex, ModesAgree, AllGoesWell, Making
  <1>2. CASE WriteTag(p)
    <2>1. pc[p] = "tag" /\ index' = WithTag(index, Tag(p), Root(p)) /\ Op(p) = "copy"
      BY <1>2 DEF WriteTag, NeededOrInHand, OpsMatch
    <2>2. Reachable(index'.entries) = Reachable(index.entries) \cup Collected[Root(p)]
      BY <2>1, WithTagReaches, CommandTypes DEF TypeOK
    <2>3. landed[p] \subseteq Collected[Root(p)]
      BY LandedIsNeeded, CommandTypes DEF TypeOK
    <2> QED BY <2>1, <2>2, <2>3
  <1>3. CASE TrimIndex(p)
    <2>1. /\ pc[p] = "trim" /\ pc'[p] = "remove" /\ garbage'[p] = garbage[p]
          /\ index' = WithoutEntry(index, Tag(p))
          /\ Tagged(index, Tag(p)) /\ garbage[p] = Orphans(index, Tag(p))
      BY <1>3 DEF TrimIndex, NeededOrInHand, TypeOK
    <2>2. Reachable(index.entries) \subseteq
            Collected[Target(index, Tag(p))] \cup Reachable(index'.entries)
      BY <2>1, WithoutEntryReaches DEF TypeOK
    <2> QED BY <2>1, <2>2 DEF Orphans
  <1>4. CASE ~(CreateIndex(p) \/ WriteTag(p) \/ TrimIndex(p))
    <2>1. index' = index /\ pc[p] # "tag"
      BY <1>4, CommandAssumption
         DEF Step, StatMarker, Validate, BeginMarker, CreateMarker, OpenIndex, Lock,
             MayStart, PushExisting, PushStart, PushObstructed, SourceFails, PushFinish,
             PushFail, RemoveBlob, RemoveFails, Ready, CopyFailed, CopyDone, ReadIndex,
             Collect, DeleteDone, LayerDirs, Mount, Unmount, Break, GiveUp, Kill,
             AllGoesWell
    <2> QED BY <2>1
  <1> QED BY <1>1, <1>2, <1>3, <1>4

LEMMA StepKnowledge ==
  ASSUME AllGoesWell, LayoutInvariant, NeededOrInHand, NEW p \in Procs, Step(p) \/ Break(p),
         NEW q \in Procs
  PROVE  /\ failed'[q] = {}
         /\ pc'[q] \in {"tag", "collect", "trim"} => snapshot'[q] = index'
         /\ pc'[q] = "trim" =>
              Tagged(snapshot'[q], Tag(q)) /\ garbage'[q] = Orphans(snapshot'[q], Tag(q))
  <1> USE WellMeansSound DEF Ground, TypesHold, TypeOK, Goto, Exit, disk, locals
  <1>1. CASE q # p
    <2>1. /\ pc'[q] = pc[q] /\ snapshot'[q] = snapshot[q] /\ garbage'[q] = garbage[q]
          /\ failed'[q] = failed[q]
      BY <1>1, OthersStay
    <2>2. pc[q] \in {"tag", "collect", "trim"} => index' = index
      BY <1>1, StepIndexLeftovers DEF LockIsHeld, Holding
    <2> QED BY <2>1, <2>2 DEF NeededOrInHand
  <1>2. CASE q = p
    <2>1. failed'[p] = failed[p]
      <3>1. ASSUME NEW d \in Digests, PushObstructed(p, d) PROVE FALSE
        BY <3>1, NothingObstructs DEF PushObstructed
      <3>2. ASSUME NEW d \in Digests, SourceFails(p, d) \/ PushFail(p, d) PROVE FALSE
        BY <3>2 DEF SourceFails, PushFail, AllGoesWell, NeededOrInHand
      <3> QED
        BY <3>1, <3>2
           DEF Step, StatMarker, Validate, BeginMarker, CreateMarker, CreateIndex,
               OpenIndex, Lock, PushExisting, PushStart, PushFinish, RemoveBlob,
               RemoveFails, CopyFailed, CopyDone, ReadIndex, WriteTag, Collect, TrimIndex,
               DeleteDone, LayerDirs, Mount, Unmount, Break, GiveUp, Kill
    <2>2. CASE ReadIndex(p)
      BY <1>2, <2>1, <2>2 DEF ReadIndex, NeededOrInHand
    <2>3. CASE Collect(p)
      BY <1>2, <2>1, <2>3 DEF Collect, Deletable, NeededOrInHand
    <2>4. CASE ~(ReadIndex(p) \/ Collect(p))
      <3>1. pc'[p] \notin {"tag", "collect", "trim"}
        BY <2>4
           DEF Step, StatMarker, Validate, BeginMarker, CreateMarker, CreateIndex,
               OpenIndex, Lock, MayStart, PushExisting, PushStart, PushObstructed,
               SourceFails, PushFinish, PushFail, Ready, RemoveBlob, RemoveFails,
               CopyFailed, CopyDone, WriteTag, TrimIndex, DeleteDone, LayerDirs, Mount,
               Unmount, Break, GiveUp, Kill
      <3> QED BY <1>2, <2>1, <3>1 DEF NeededOrInHand
    <2> QED BY <2>2, <2>3, <2>4
  <1> QED BY <1>1, <1>2

(* What a command is at work on it stays at work on, until a tag reaches   *)
(* it or it is gone.                                                       *)
LEMMA StepAtWork ==
  ASSUME AllGoesWell, LayoutInvariant, NeededOrInHand, NEW p \in Procs, Step(p) \/ Break(p),
         NEW x \in Digests, AtWorkOn(p, x), blobs'[x] # "absent"
  PROVE  x \in Reachable(index'.entries) \/ AtWorkOn(p, x)'
  <1> USE WellMeansSound DEF Ground, TypesHold, TypeOK, Goto, Exit, disk, locals
  <1>1. CASE pc[p] = "copying" /\ x \in landed[p] \cup writing[p]
    <2>1. ASSUME NEW d \in Digests,
                 PushExisting(p, d) \/ PushStart(p, d) \/ PushFinish(p, d)
          PROVE  AtWorkOn(p, x)'
      <3>1. /\ pc'[p] = "copying" /\ Op(p) = "copy"
            /\ x \in landed'[p] \cup writing'[p]
        BY <1>1, <2>1 DEF PushExisting, PushStart, PushFinish, OpsMatch
      <3> QED BY <3>1 DEF AtWorkOn, Op
    <2>2. ASSUME NEW d \in Digests, PushObstructed(p, d) PROVE FALSE
      BY <2>2, NothingObstructs DEF PushObstructed
    <2>3. ASSUME NEW d \in Digests, SourceFails(p, d) \/ PushFail(p, d) PROVE FALSE
      BY <2>3 DEF SourceFails, PushFail, AllGoesWell, NeededOrInHand
    <2>4. CASE CopyDone(p)
      <3>1. /\ pc'[p] = "readIndex" /\ Op(p) = "copy" /\ landed'[p] = landed[p]
            /\ Root(p) \in landed[p]
        BY <1>1, <2>4 DEF CopyDone, OpsMatch
      <3>2. x \in landed[p]
        BY <1>1, <3>1, LandedIsAll DEF Contents
      <3> QED BY <3>1, <3>2 DEF AtWorkOn, Op
    <2>5. ~CopyFailed(p) /\ ~Break(p)
      BY DEF CopyFailed, Break, GiveUp, Kill, AllGoesWell, NeededOrInHand
    <2> QED
      BY <1>1, <2>1, <2>2, <2>3, <2>4, <2>5
         DEF Step, StatMarker, Validate, BeginMarker, CreateMarker, CreateIndex, OpenIndex,
             Lock, MayStart, RemoveBlob, RemoveFails, ReadIndex, WriteTag, Collect,
             TrimIndex, DeleteDone, LayerDirs, Mount, Unmount
  <1>2. CASE pc[p] \in {"readIndex", "tag"} /\ Op(p) = "copy" /\ x \in landed[p]
    <2>1. CASE ReadIndex(p)
      <3>1. pc'[p] = "tag" /\ landed'[p] = landed[p]
        BY <1>2, <2>1 DEF ReadIndex
      <3> QED BY <1>2, <3>1 DEF AtWorkOn, Op
    <2>2. CASE WriteTag(p)
      <3>1. pc[p] = "tag"
        BY <2>2 DEF WriteTag
      <3> QED BY <1>2, <3>1, StepIndexLeftovers
    <2>3. ~Break(p)
      BY DEF Break, GiveUp, Kill, AllGoesWell
    <2> QED
      BY <1>2, <2>1, <2>2, <2>3
         DEF Step, StatMarker, Validate, BeginMarker, CreateMarker, CreateIndex, OpenIndex,
             Lock, MayStart, PushExisting, PushStart, PushObstructed, SourceFails,
             PushFinish, PushFail, Ready, RemoveBlob, RemoveFails, CopyFailed, CopyDone,
             Collect, TrimIndex, DeleteDone, LayerDirs, Mount, Unmount
  <1>3. CASE pc[p] = "remove" /\ x \in garbage[p]
    <2>1. ASSUME NEW d \in Digests, RemoveBlob(p, d) PROVE AtWorkOn(p, x)'
      <3>1. pc'[p] = "remove" /\ x \in garbage'[p]
        BY <1>3, <2>1 DEF RemoveBlob
      <3> QED BY <3>1 DEF AtWorkOn
    <2>2. ASSUME NEW d \in Digests, RemoveFails(p, d) PROVE FALSE
      BY <2>2 DEF RemoveFails, AllGoesWell
    <2>3. ~Break(p) /\ ~DeleteDone(p)
      BY <1>3 DEF Break, GiveUp, Kill, DeleteDone, AllGoesWell
    <2> QED
      BY <1>3, <2>1, <2>2, <2>3
         DEF Step, StatMarker, Validate, BeginMarker, CreateMarker, CreateIndex, OpenIndex,
             Lock, MayStart, PushExisting, PushStart, PushObstructed, SourceFails,
             PushFinish, PushFail, Ready, CopyFailed, CopyDone, ReadIndex, WriteTag,
             Collect, TrimIndex, LayerDirs, Mount, Unmount
  <1> QED BY <1>1, <1>2, <1>3 DEF AtWorkOn

LEMMA StepLeftovers ==
  ASSUME AllGoesWell, LayoutInvariant, NeededOrInHand, NEW p \in Procs, Step(p) \/ Break(p)
  PROVE  NeededOrInHand'
  <1>1. ASSUME NEW x \in Digests, blobs'[x] # "absent"
        PROVE  x \in Reachable(index'.entries) \/ \E q \in Procs : AtWorkOn(q, x)'
    <2>1. CASE blobs[x] = "absent"
      <3> USE WellMeansSound DEF Ground, TypesHold, TypeOK
      <3>1. PICK d \in Digests : \/ PushStart(p, d) \/ PushObstructed(p, d)
                                 \/ PushFinish(p, d) \/ PushFail(p, d) \/ RemoveBlob(p, d)
        BY <1>1, <2>1, WhoTouchesBlobs
      <3>2. d = x
        BY <1>1, <2>1, <3>1
           DEF PushStart, PushObstructed, PushFinish, PushFail, RemoveBlob
      <3>3. CASE PushStart(p, d)
        <4>1. pc'[p] = "copying" /\ x \in writing'[p]
          BY <3>2, <3>3 DEF PushStart, Ready
        <4> QED BY <4>1 DEF AtWorkOn
      <3>4. CASE PushObstructed(p, d)
        BY <3>4, NothingObstructs DEF PushObstructed
      <3>5. CASE PushFinish(p, d) \/ PushFail(p, d)
        BY <2>1, <3>2, <3>5 DEF PushFinish, PushFail, Contents, CopyIsWhole, Unfinished,
                                StoredAs
      <3>6. CASE RemoveBlob(p, d)
        BY <1>1, <2>1, <3>2, <3>6 DEF RemoveBlob
      <3> QED BY <3>1, <3>3, <3>4, <3>5, <3>6
    <2>2. CASE x \in Reachable(index.entries)
      BY <2>2, StepIndexLeftovers DEF AtWorkOn
    <2>3. ASSUME NEW q \in Procs, AtWorkOn(q, x)
          PROVE  x \in Reachable(index'.entries) \/ \E r \in Procs : AtWorkOn(r, x)'
      <3>1. CASE q = p
        BY <1>1, <2>3, <3>1, StepAtWork
      <3>2. CASE q # p
        <4>1. /\ pc'[q] = pc[q] /\ writing'[q] = writing[q] /\ landed'[q] = landed[q]
              /\ garbage'[q] = garbage[q]
          BY <3>2, OthersStay, WellMeansSound DEF Ground
        <4> QED BY <2>3, <4>1 DEF AtWorkOn, Op
      <3> QED BY <3>1, <3>2
    <2> QED BY <2>1, <2>2, <2>3 DEF NeededOrInHand
  <1> QED BY <1>1, StepKnowledge DEF NeededOrInHand, Tag

(* When all commands have ended the layout holds what its tags reach and   *)
(* no more, whatever copies, deletes and mounts met on it, if it was whole *)
(* at first and nothing failed.                                            *)
THEOREM NothingIsLeft == AllGoesWell => (Spec => []NothingLeaks)
  <1> SUFFICES ASSUME AllGoesWell PROVE Spec => []NothingLeaks
    OBVIOUS
  <1>1. LayoutInvariant /\ NeededOrInHand /\ [Next]_vars => NeededOrInHand'
    <2> SUFFICES ASSUME LayoutInvariant, NeededOrInHand, [Next]_vars PROVE NeededOrInHand'
      OBVIOUS
    <2>1. CASE UNCHANGED vars
      BY <2>1 DEF vars, locals, NeededOrInHand, AtWorkOn, Op, Tag
    <2> QED BY <2>1, StepLeftovers DEF Next, AllEnded
  <1>2. NeededOrInHand => NothingLeaks
    BY DEF NeededOrInHand, NothingLeaks, AtWorkOn, Live, Ended
  <1> QED BY <1>1, <1>2, InitLeftovers, LayoutHolds, PTL DEF Spec

-----------------------------------------------------------------------------
(* Mounts.                                                                 *)

(* A delete begins when the mounts are up or over (docs/mount.md:247-249). *)
DeletesWaitForMounts ==
  \A p, q \in Procs : Op(p) = "delete" /\ Op(q) = "mount" => q \in After[p]

MountsHold ==
  /\ \A p, q \in Procs : Op(p) = "delete" /\ Op(q) = "mount" /\ pc[p] # "start" =>
       pc[q] \in {"mounted"} \cup Ended
  /\ \A q \in Procs : pc[q] \in {"mount", "mounted"} =>
       Op(q) = "mount" /\ \A d \in lowers[q] : Whole(d, LayoutMode) /\ blobs[d] = "dir"
  /\ \A p \in Procs : pc[p] \in {"trim", "remove"} => garbage[p] \cap MountedLayers = {}
  /\ \A q \in Procs : pc[q] = "resolve" => Op(q) = "mount"

(* What the lemmas on mounts take for granted.                             *)
Mounting ==
  /\ OneMode /\ Undisturbed /\ DeletesWaitForMounts
  /\ LayoutInvariant /\ MountsHold

LEMMA MountingMeansSound ==
  ASSUME Mounting
  PROVE  Ground /\ Contents /\ TypeOK /\ (Undisturbed => PartialIsWorkedOn)
  BY DEF Mounting, LayoutInvariant, Ground, TypesHold, Contents

(* Only LayerDirs sets lower directories, and they are whole then.         *)
LEMMA ResolvedIsWhole ==
  ASSUME Mounting, NEW p \in Procs, LayerDirs(p), pc'[p] = "mount", NEW d \in lowers'[p]
  PROVE  Whole(d, LayoutMode) /\ blobs[d] = "dir" /\ blobs' = blobs
  <1> USE MountingMeansSound DEF TypeOK, Goto, disk
  <1>1. PICK m \in Selected(Target(index, Tag(p))) :
          Tagged(index, Tag(p)) /\ Mountable(p, m) /\ lowers'[p] = LayersOf(m) /\ blobs' = blobs
    BY DEF LayerDirs
  <1>2. blobs[d] \in Directories /\ d \in References[m] /\ d \in Digests
    BY <1>1, StoreAssumption DEF Mountable, LayersOf
  <1>3. d \in Reachable(index.entries)
    <2>1. EntryOf(index, Tag(p)) \in 1 .. Len(index.entries)
      <3>1. Len(index.entries) \in Nat
        BY DEF IndexStates, Entries
      <3> QED BY <1>1, <3>1, PositionInIndex DEF Tagged
    <2>2. /\ Target(index, Tag(p)) \in Digests
          /\ Collected[Target(index, Tag(p))] \subseteq Reachable(index.entries)
      BY <2>1, ReachableAreDigests DEF Target
    <2>3. m \in Collected[Target(index, Tag(p))] /\ m \in Digests
      BY <1>1, <2>2, StoreAssumption, CollectedAreDigests
         DEF Selected, Collected, Visited, Closed
    <2>4. d \in Collected[Target(index, Tag(p))]
      BY <1>2, <2>2, <2>3 DEF Collected, Visited, Closed
    <2> QED BY <2>2, <2>4
  <1>4. index.mode = LayoutMode
    BY <1>3 DEF Ground, ModesAgree, NoIndex, Reachable
  <1>5. Whole(d, LayoutMode)
    BY <1>3, <1>4 DEF Contents, TaggedIsWhole
  <1> QED BY <1>1, <1>2, <1>5 DEF Whole, StoredAs, Directories

LEMMA StepMounts ==
  ASSUME Mounting, NEW p \in Procs, Step(p) \/ Break(p)
  PROVE  MountsHold'
  <1> USE MountingMeansSound DEF TypeOK, Goto, Exit, disk, locals
  <1>1. \A q \in Procs : q # p => /\ pc'[q] = pc[q] /\ garbage'[q] = garbage[q]
                                  /\ lowers'[q] = lowers[q]
    <2>1. \A q \in Procs : q # p => lowers'[q] = lowers[q]
      BY DEF Step, StatMarker, Validate, BeginMarker, CreateMarker, CreateIndex, OpenIndex,
             Lock, PushExisting, PushStart, PushObstructed, SourceFails, PushFinish,
             PushFail, RemoveBlob, RemoveFails, CopyFailed, CopyDone, ReadIndex, WriteTag,
             Collect, TrimIndex, DeleteDone, LayerDirs, Mount, Unmount, Break, GiveUp, Kill
    <2> QED BY <2>1, OthersStay DEF Ground
  <1>2. /\ pc'[p] # "start" /\ pc[p] = "start" =>
             \A q \in After[p] : pc[q] \in {"mounted"} \cup Ended
        /\ pc[p] \in {"mounted"} \cup Ended => pc'[p] \in {"mounted"} \cup Ended
        /\ pc'[p] = "start" => pc[p] = "start"
        /\ pc'[p] = "resolve" => Op(p) = "mount"
    <2>1. CASE \/ StatMarker(p) \/ Validate(p) \/ BeginMarker(p) \/ CreateMarker(p)
               \/ CreateIndex(p) \/ OpenIndex(p) \/ Lock(p)
      BY <2>1, CommandTypes
         DEF StatMarker, Validate, BeginMarker, CreateMarker, CreateIndex, OpenIndex, Lock,
             MayStart, Live, Ended
    <2>2. CASE ~(\/ StatMarker(p) \/ Validate(p) \/ BeginMarker(p) \/ CreateMarker(p)
                 \/ CreateIndex(p) \/ OpenIndex(p) \/ Lock(p))
      BY <2>2
         DEF Step, PushExisting, PushStart, PushObstructed, SourceFails, PushFinish,
             PushFail, Ready, RemoveBlob, RemoveFails, CopyFailed, CopyDone, ReadIndex,
             WriteTag, Collect, TrimIndex, DeleteDone, LayerDirs, Mount, Unmount, Break,
             GiveUp, Kill, Live, Ended, Fallible, Making
    <2> QED BY <2>1, <2>2
  <1>3. ASSUME NEW r \in Procs, NEW q \in Procs, Op(r) = "delete", Op(q) = "mount",
               pc'[r] # "start"
        PROVE  pc'[q] \in {"mounted"} \cup Ended
    <2>1. r # q
      BY <1>3
    <2>2. pc[q] \in {"mounted"} \cup Ended
      BY <1>1, <1>2, <1>3 DEF Mounting, MountsHold, DeletesWaitForMounts
    <2> QED BY <1>1, <1>2, <2>2
  <1>4. ASSUME NEW q \in Procs, pc'[q] \in {"mount", "mounted"}
        PROVE  /\ Op(q) = "mount"
               /\ \A d \in lowers'[q] : (Whole(d, LayoutMode)') /\ blobs'[d] = "dir"
    <2>1. CASE q = p /\ LayerDirs(p)
      <3>1. pc'[p] = "mount" /\ Op(p) = "mount"
        BY <1>4, <2>1 DEF LayerDirs, Mounting, MountsHold
      <3> QED
        BY <2>1, <3>1, ResolvedIsWhole DEF Whole, StoredAs, LayoutMode, Op
    <2>2. CASE ~(q = p /\ LayerDirs(p))
      <3>1. pc[q] \in {"mount", "mounted"} /\ lowers'[q] = lowers[q]
        <4>1. CASE q # p
          BY <1>1, <1>4, <4>1
        <4>2. CASE q = p
          BY <1>4, <2>2, <4>2
             DEF Step, StatMarker, Validate, BeginMarker, CreateMarker, CreateIndex,
                 OpenIndex, Lock, MayStart, PushExisting, PushStart, PushObstructed,
                 SourceFails, PushFinish, PushFail, Ready, RemoveBlob, RemoveFails,
                 CopyFailed, CopyDone, ReadIndex, WriteTag, Collect, TrimIndex, DeleteDone,
                 Mount, Unmount, Break, GiveUp, Kill
        <4> QED BY <4>1, <4>2
      <3>2. Op(q) = "mount" /\ \A d \in lowers[q] : Whole(d, LayoutMode) /\ blobs[d] = "dir"
        BY <3>1 DEF Mounting, MountsHold
      <3>3. ASSUME NEW d \in lowers[q] PROVE Whole(d, LayoutMode)'
        <4>1. d \in Digests
          BY <3>3
        <4>2. ASSUME pc[p] = "remove", d \in garbage[p] PROVE FALSE
          <5>1. Op(p) = "delete"
            BY <4>2 DEF Ground, OpsMatch
          <5>2. pc[q] = "mounted"
            BY <3>1, <3>2, <4>2, <5>1 DEF Mounting, MountsHold, Ended
          <5>3. d \in MountedLayers
            BY <5>2 DEF MountedLayers, Mounted
          <5> QED BY <4>2, <5>3 DEF Mounting, MountsHold
        <4> QED BY <3>2, <4>1, <4>2, WholeStays DEF Mounting
      <3>4. \A d \in lowers[q] : blobs'[d] = blobs[d]
        BY <3>2, <3>3 DEF Whole, StoredAs, LayoutMode, Op
      <3> QED BY <3>1, <3>2, <3>3, <3>4
    <2> QED BY <2>1, <2>2
  <1>5. ASSUME NEW r \in Procs, pc'[r] \in {"trim", "remove"}, NEW q \in Procs,
               pc'[q] = "mounted", NEW d \in garbage'[r], d \in lowers'[q]
        PROVE  FALSE
    <2>1. Op(r) = "delete" /\ Op(q) = "mount" /\ r # q
      <3>1. OpsMatch'
        BY StepOps DEF Ground
      <3>2. Op(r) = "delete"
        BY <1>5, <3>1 DEF OpsMatch, Op
      <3> QED BY <1>4, <1>5, <3>2
    <2>2. pc[q] = "mounted" /\ lowers'[q] = lowers[q]
      <3>1. CASE q # p
        BY <1>1, <1>5, <3>1
      <3>2. CASE q = p
        <4>1. pc[r] \in {"trim", "remove"}
          BY <1>1, <1>5, <2>1, <3>2
        <4>2. pc[q] \in {"mounted"} \cup Ended
          BY <2>1, <4>1 DEF Mounting, MountsHold
        <4> QED
          BY <1>5, <3>2, <4>2
             DEF Step, StatMarker, Validate, BeginMarker, CreateMarker, CreateIndex,
                 OpenIndex, Lock, MayStart, PushExisting, PushStart, PushObstructed,
                 SourceFails, PushFinish, PushFail, Ready, RemoveBlob, RemoveFails,
                 CopyFailed, CopyDone, ReadIndex, WriteTag, Collect, TrimIndex, DeleteDone,
                 LayerDirs, Mount, Unmount, Break, GiveUp, Kill, Ended, Live
      <3> QED BY <3>1, <3>2
    <2>3. d \in MountedLayers /\ blobs[d] = "dir" /\ d \in Digests
      BY <1>5, <2>2 DEF MountedLayers, Mounted, Mounting, MountsHold
    <2>4. CASE pc[r] \in {"trim", "remove"} /\ garbage'[r] \subseteq garbage[r]
      BY <1>5, <2>3, <2>4 DEF Mounting, MountsHold
    <2>5. CASE r = p /\ Collect(p)
      <3>1. /\ mode[p] = "unpack" => Orphans(snapshot[p], Tag(p)) \cap MountedLayers = {}
            /\ garbage'[p] = Orphans(snapshot[p], Tag(p)) /\ pc[p] = "collect"
        BY <1>5, <2>5 DEF Collect, Deletable
      <3>2. mode[p] = LayoutMode
        BY <3>1 DEF Ground, ModesAgree, Holding
      <3>3. LayoutMode = "unpack"
        BY <2>3 DEF Ground, BlobsFit, StoredAs, Unfinished
      <3> QED BY <1>5, <2>3, <2>5, <3>1, <3>2, <3>3
    <2>6. \/ pc[r] \in {"trim", "remove"} /\ garbage'[r] \subseteq garbage[r]
          \/ r = p /\ Collect(p)
      <3>1. CASE r # p
        BY <1>1, <1>5, <3>1
      <3>2. CASE r = p
        BY <1>5, <3>2
           DEF Step, StatMarker, Validate, BeginMarker, CreateMarker, CreateIndex,
               OpenIndex, Lock, MayStart, PushExisting, PushStart, PushObstructed,
               SourceFails, PushFinish, PushFail, Ready, RemoveBlob, RemoveFails,
               CopyFailed, CopyDone, ReadIndex, WriteTag, TrimIndex, DeleteDone, LayerDirs,
               Mount, Unmount, Break, GiveUp, Kill
      <3> QED BY <3>1, <3>2
    <2> QED BY <2>4, <2>5, <2>6
  <1>6. \A q \in Procs : pc'[q] = "resolve" => Op(q) = "mount"
    BY <1>1, <1>2 DEF Mounting, MountsHold
  <1>7. (\A r \in Procs : pc[r] \in {"trim", "remove"} => garbage[r] \cap MountedLayers = {})'
    BY <1>5 DEF MountedLayers, Mounted
  <1> QED BY <1>3, <1>4, <1>6, <1>7 DEF MountsHold, Op, LayoutMode, Ended

(* A mounted layer is there, all of it, as long as it is mounted, in a     *)
(* layout of one mode whose deletes begin once the mounts are up or over,  *)
(* if no command is killed and no delete fails half-way.                   *)
THEOREM MountedStaysWhole ==
  OneMode /\ Undisturbed /\ DeletesWaitForMounts => (Spec => []MountedIsWhole)
  <1> SUFFICES ASSUME OneMode, Undisturbed, DeletesWaitForMounts
               PROVE  Spec => []MountedIsWhole
    OBVIOUS
  <1>1. Init => MountsHold
    BY DEF Init, MountsHold
  <1>2. LayoutInvariant /\ MountsHold /\ [Next]_vars => MountsHold'
    <2> SUFFICES ASSUME LayoutInvariant, MountsHold, [Next]_vars PROVE MountsHold'
      OBVIOUS
    <2>1. CASE UNCHANGED vars
      BY <2>1
         DEF vars, locals, MountsHold, MountedLayers, Mounted, Whole, StoredAs, LayoutMode,
             Op
    <2> QED BY <2>1, StepMounts DEF Next, AllEnded, Mounting
  <1>3. MountsHold => MountedIsWhole
    BY DEF MountsHold, MountedIsWhole, Mounted
  <1> QED BY <1>1, <1>2, <1>3, LayoutHolds, PTL DEF Spec

-----------------------------------------------------------------------------
(* Tags.                                                                   *)

(* The entries that the layout came with, and those that copies add.       *)
Written ==
  {SeedIndex.entries[i] : i \in IF Seeded THEN 1 .. Len(SeedIndex.entries) ELSE {}}
    \cup {[tag |-> Tag(p), digest |-> Root(p)] : p \in {q \in Procs : Op(q) = "copy"}}

(* Nobody gives a digest a second tag, or a tag a second digest.           *)
OneTagEach    == \A e, f \in Written : e.digest = f.digest => e.tag = f.tag
OneDigestEach == \A e, f \in Written : e.tag = f.tag => e.digest = f.digest

AreWritten(ix) == \A i \in 1 .. Len(ix.entries) : ix.entries[i] \in Written

EntriesAreWritten == AreWritten(index) /\ \A p \in Procs : AreWritten(snapshot[p])

(* Nobody writes the index between a command's reading and writing it.     *)
SnapshotIsCurrent ==
  \A p \in Procs :
    /\ pc[p] \in {"tag", "collect", "trim"} => snapshot[p] = index
    /\ pc[p] = "trim" => Tagged(snapshot[p], Tag(p))

(* The entry at i is the first that carries the tag.                       *)
First(s, tag, i) ==
  i \in 1 .. Len(s) /\ s[i].tag = tag /\ \A j \in 1 .. i - 1 : s[j].tag # tag

LEMMA FirstIsTarget ==
  ASSUME NEW ix \in IndexStates, NEW tag, NEW i, First(ix.entries, tag, i)
  PROVE  Tagged(ix, tag) /\ Target(ix, tag) = ix.entries[i].digest
  <1> DEFINE s == ix.entries
             I == {j \in 1 .. Len(s) : s[j].tag = tag}
  <1>1. Len(s) \in Nat
    BY DEF IndexStates, Entries
  <1>2. EntryOf(ix, tag) = IF I # {} THEN Min(I) ELSE 0
    BY DEF EntryOf, SelectInSeq
  <1>3. i \in I /\ \A j \in I : i <= j
    BY <1>1 DEF First
  <1>4. Min(I) \in I /\ Min(I) <= i
    <2>1. I \in SUBSET Nat /\ I # {}
      BY <1>3
    <2>2. PICK x \in I : \A y \in I : x <= y
      BY <2>1, LeastExists
    <2> HIDE DEF I
    <2> QED BY <1>3, <2>2 DEF Min
  <1>5. Min(I) = i
    <2>0. I \in SUBSET Nat
      OBVIOUS
    <2> HIDE DEF I
    <2>1. Min(I) \in Nat /\ i \in Nat /\ i <= Min(I)
      BY <1>3, <1>4, <2>0
    <2> QED BY <1>4, <2>1
  <1>6. EntryOf(ix, tag) = i /\ i # 0
    <2>1. I # {} /\ i # 0
      BY <1>1, <1>3
    <2> HIDE DEF I
    <2> QED BY <1>2, <1>5, <2>1
  <1> QED BY <1>6 DEF Tagged, Target

LEMMA TargetIsFirst ==
  ASSUME NEW ix \in IndexStates, NEW tag \in TagsOf(ix)
  PROVE  First(ix.entries, tag, EntryOf(ix, tag))
  <1> DEFINE s == ix.entries
             I == {j \in 1 .. Len(s) : s[j].tag = tag}
  <1>1. Len(s) \in Nat
    BY DEF IndexStates, Entries
  <1>2. EntryOf(ix, tag) = IF I # {} THEN Min(I) ELSE 0
    BY DEF EntryOf, SelectInSeq
  <1>3. I # {} /\ I \in SUBSET Nat
    BY DEF TagsOf
  <1>4. PICK x \in I : \A y \in I : x <= y
    BY <1>3, LeastExists
  <1>5. Min(I) \in I /\ \A y \in I : Min(I) <= y
    <2> HIDE DEF I
    <2> QED BY <1>4 DEF Min
  <1>6. EntryOf(ix, tag) = Min(I)
    BY <1>2, <1>3
  <1>7. PICK k \in Nat : k = Min(I)
    <2> HIDE DEF I
    <2> QED BY <1>3, <1>5
  <1>8. \A j \in 1 .. k - 1 : j \notin I /\ j \in 1 .. Len(s)
    BY <1>1, <1>5, <1>7
  <1> QED BY <1>5, <1>6, <1>7, <1>8 DEF First

(* The entries of an index are among those of W, no digest of W has two    *)
(* tags, and tags other than this one are as they were.                    *)
EntriesIn(ix, W)        == \A i \in 1 .. Len(ix.entries) : ix.entries[i] \in W
OneTagIn(W)             == \A e, f \in W : e.digest = f.digest => e.tag = f.tag
TagStays(ix, new, t)    == Tagged(new, t) /\ Target(new, t) = Target(ix, t)
OthersKept(ix, new, tag) == \A t \in TagsOf(ix) : t # tag => TagStays(ix, new, t)

(* A tag that is written is in the index, and other tags stay, unless one  *)
(* of them had the digest.                                                 *)
LEMMA WithTagKeeps ==
  ASSUME NEW ix \in IndexStates, NEW tag \in Tags, NEW d \in Digests,
         NEW new \in IndexStates, new = WithTag(ix, tag, d),
         NEW W, [tag |-> tag, digest |-> d] \in W, EntriesIn(ix, W)
  PROVE  /\ EntriesIn(new, W) /\ tag \in TagsOf(new)
         /\ OneTagIn(W) => OthersKept(ix, new, tag)
  <1> DEFINE E  == [tag : Tags, digest : Digests]
             s  == ix.entries
             e  == [tag |-> tag, digest |-> d]
             I  == {i \in 1 .. Len(s) : s[i].digest = d}
             at == IF I # {} THEN Min(I) ELSE 0
             n  == IF at = 0 THEN Append(s, e) ELSE [s EXCEPT ![at] = e]
  <1>1. s \in Seq(E) /\ e \in E /\ Len(s) \in Nat /\ e.tag = tag /\ e.digest = d
    BY DEF IndexStates, Entries
  <1>2. I # {} => Min(I) \in I
    <2>1. I \in SUBSET Nat
      OBVIOUS
    <2> QED BY <2>1, MinIsIn
  <1>3. at = 0 \/ (at \in 1 .. Len(s) /\ s[at].digest = d)
    BY <1>2
  <1>4. new.entries = n
    <2>1. new = [ix EXCEPT !.entries = n]
      BY DEF WithTag, SelectInSeq, ReplaceAt
    <2> HIDE DEF n
    <2> QED BY <2>1 DEF IndexStates
  <1> HIDE DEF s, at, e
  <1>5. CASE at = 0
    <2>1. n = Append(s, e)
      BY <1>5
    <2>2. Len(n) = Len(s) + 1 /\ n[Len(s) + 1] = e /\ \A i \in 1 .. Len(s) : n[i] = s[i]
      BY <1>1, <2>1, AppendProperties
    <2> HIDE DEF n
    <2>3. \A i \in 1 .. Len(n) : n[i] \in W
      <3>1. ASSUME NEW i \in 1 .. Len(n) PROVE n[i] \in W
        <4>1. i \in 1 .. Len(s) \/ i = Len(s) + 1
          BY <1>1, <2>2
        <4> QED BY <2>2, <4>1 DEF s, e, EntriesIn
      <3> QED BY <3>1
    <2>4. tag \in TagsOf(new)
      <3>1. Len(s) + 1 \in 1 .. Len(new.entries) /\ new.entries[Len(s) + 1].tag = tag
        BY <1>1, <1>4, <2>2
      <3> QED BY <3>1 DEF TagsOf
    <2>5. ASSUME NEW t \in TagsOf(ix) PROVE TagStays(ix, new, t)
      <3>1. PICK i : i = EntryOf(ix, t)
        OBVIOUS
      <3>2. First(s, t, i)
        BY <3>1, TargetIsFirst DEF s
      <3>3. i \in 1 .. Len(n) /\ n[i] = s[i] /\ \A j \in 1 .. i - 1 : n[j] = s[j]
        BY <1>1, <2>2, <3>2 DEF First
      <3>4. First(new.entries, t, i)
        BY <1>4, <3>2, <3>3 DEF First
      <3>5. Tagged(new, t) /\ Target(new, t) = new.entries[i].digest
        BY <3>4, FirstIsTarget
      <3> QED BY <1>4, <3>1, <3>3, <3>5 DEF Target, s, TagStays
    <2> QED BY <1>4, <2>3, <2>4, <2>5 DEF EntriesIn, OthersKept
  <1>6. CASE at # 0
    <2>0. at \in 1 .. Len(s) /\ s[at].digest = d
      BY <1>3, <1>6
    <2>1. n = [s EXCEPT ![at] = e]
      BY <1>6
    <2>2. Len(n) = Len(s) /\ n[at] = e /\ \A i \in 1 .. Len(s) : i # at => n[i] = s[i]
      BY <1>1, <2>0, <2>1
    <2> HIDE DEF n
    <2>3. \A i \in 1 .. Len(n) : n[i] \in W
      BY <2>2 DEF s, e, EntriesIn
    <2>4. tag \in TagsOf(new)
      <3>1. at \in 1 .. Len(new.entries) /\ new.entries[at].tag = tag
        BY <1>1, <1>4, <2>0, <2>2
      <3> QED BY <3>1 DEF TagsOf
    <2>5. ASSUME OneTagIn(W), NEW t \in TagsOf(ix), t # tag
          PROVE  TagStays(ix, new, t)
      <3>1. PICK i : i = EntryOf(ix, t)
        OBVIOUS
      <3>2. First(s, t, i)
        BY <3>1, TargetIsFirst DEF s
      <3>3. s[at].tag = tag
        <4>1. s[at] \in W /\ e \in W
          BY <2>0 DEF s, e, EntriesIn
        <4> QED BY <1>1, <2>0, <2>5, <4>1 DEF OneTagIn
      <3>4. i \in 1 .. Len(n) /\ n[i] = s[i]
        BY <2>2, <2>5, <3>2, <3>3 DEF First
      <3>5. ASSUME NEW j \in 1 .. i - 1 PROVE n[j].tag # t
        <4>1. j \in 1 .. Len(s) /\ s[j].tag # t
          BY <1>1, <3>2 DEF First
        <4> QED BY <1>1, <2>2, <2>5, <4>1
      <3>6. First(new.entries, t, i)
        BY <1>4, <3>2, <3>4, <3>5 DEF First
      <3>7. Tagged(new, t) /\ Target(new, t) = new.entries[i].digest
        BY <3>6, FirstIsTarget
      <3> QED BY <1>4, <3>1, <3>4, <3>7 DEF Target, s, TagStays
    <2> QED BY <1>4, <2>3, <2>4, <2>5 DEF EntriesIn, OthersKept
  <1> QED BY <1>5, <1>6

(* An entry that is removed leaves other tags where they are.              *)
LEMMA WithoutEntryKeeps ==
  ASSUME NEW ix \in IndexStates, NEW tag, NEW new \in IndexStates, new = WithoutEntry(ix, tag),
         NEW W, EntriesIn(ix, W)
  PROVE  EntriesIn(new, W) /\ (Tagged(ix, tag) => OthersKept(ix, new, tag))
  <1> DEFINE E  == [tag : Tags, digest : Digests]
             s  == ix.entries
             at == EntryOf(ix, tag)
             n  == RemoveAt(s, at)
  <1>1. s \in Seq(E) /\ Len(s) \in Nat /\ at \in 0 .. Len(s) /\ (at # 0 => s[at].tag = tag)
    <2>1. s \in Seq(E) /\ Len(s) \in Nat
      BY DEF IndexStates, Entries
    <2>2. at \in 0 .. Len(s) /\ (Tagged(ix, tag) => s[at].tag = tag)
      BY PositionInIndex
    <2> HIDE DEF s
    <2> QED BY <2>1, <2>2 DEF Tagged
  <1>2. new.entries = n
    <2>1. new = [ix EXCEPT !.entries = n]
      BY DEF WithoutEntry
    <2> HIDE DEF n
    <2> QED BY <2>1 DEF IndexStates
  <1>3. at # 0 <=> Tagged(ix, tag)
    BY DEF Tagged
  <1> HIDE DEF s, at
  <1>4. \A i \in 1 .. Len(n) : n[i] \in W
    <2>1. \A i \in 1 .. Len(n) : \E j \in 1 .. Len(s) : n[i] = s[j]
      BY <1>1, RemoveAtKeeps
    <2> HIDE DEF n
    <2> QED BY <2>1 DEF s, EntriesIn
  <1>5. ASSUME NEW t \in TagsOf(ix), at # 0, t # tag
        PROVE  TagStays(ix, new, t)
    <2>1. /\ Len(n) = Len(s) - 1
          /\ \A i \in 1 .. Len(s) - 1 : n[i] = IF i < at THEN s[i] ELSE s[i + 1]
      <3>1. at \in 1 .. Len(s)
        BY <1>1, <1>5
      <3> QED BY <1>1, <3>1, RemovedAt
    <2> HIDE DEF n
    <2>2. PICK i : i = EntryOf(ix, t)
      OBVIOUS
    <2>3. First(s, t, i)
      BY <2>2, TargetIsFirst DEF s
    <2>4. i \in 1 .. Len(s) /\ i # at /\ at \in 1 .. Len(s)
      BY <1>1, <1>5, <2>3 DEF First
    <2>5. PICK k : k = IF i < at THEN i ELSE i - 1
      OBVIOUS
    <2>6. k \in 1 .. Len(s) - 1 /\ n[k] = s[i]
      <3>1. CASE i < at
        BY <1>1, <2>1, <2>4, <2>5, <3>1
      <3>2. CASE ~(i < at)
        <4>1. k = i - 1 /\ k \in 1 .. Len(s) - 1 /\ ~(k < at) /\ k + 1 = i
          BY <1>1, <2>4, <2>5, <3>2
        <4> QED BY <2>1, <4>1
      <3> QED BY <3>1, <3>2
    <2>7. ASSUME NEW j \in 1 .. k - 1 PROVE n[j].tag # t
      <3>1. j \in 1 .. Len(s) - 1 /\ j \in 1 .. i - 1 /\ (~(j < at) => j + 1 \in 1 .. i - 1)
        BY <1>1, <2>4, <2>5
      <3>2. n[j] = s[j] \/ (n[j] = s[j + 1] /\ j + 1 \in 1 .. i - 1)
        BY <2>1, <3>1
      <3> QED BY <2>3, <3>1, <3>2 DEF First
    <2>8. First(new.entries, t, k)
      BY <1>2, <2>1, <2>3, <2>6, <2>7 DEF First
    <2>9. Tagged(new, t) /\ Target(new, t) = new.entries[k].digest
      BY <2>8, FirstIsTarget
    <2> QED BY <1>2, <2>2, <2>6, <2>9 DEF Target, s, TagStays
  <1> QED BY <1>2, <1>3, <1>4, <1>5 DEF EntriesIn, OthersKept

LEMMA WhoWritesIndex ==
  ASSUME NEW p \in Procs, Step(p) \/ Break(p), index' # index
  PROVE  CreateIndex(p) \/ WriteTag(p) \/ TrimIndex(p)
  BY DEF Step, StatMarker, Validate, BeginMarker, CreateMarker, OpenIndex, Lock,
         PushExisting, PushStart, PushObstructed, SourceFails, PushFinish, PushFail,
         RemoveBlob, RemoveFails, CopyFailed, CopyDone, ReadIndex, Collect, DeleteDone,
         LayerDirs, Mount, Unmount, Break, GiveUp, Kill, disk

LEMMA WrittenStays == Written' = Written
  BY DEF Written, Tag, Root, Op

(* What a copy's SetTag writes, and a delete's removal of its entry.       *)
LEMMA TagKeeps ==
  ASSUME TypesHold, OpsMatch, EntriesAreWritten, NEW p \in Procs, WriteTag(p)
  PROVE  /\ EntriesIn(index', Written) /\ Tag(p) \in TagsOf(index')
         /\ OneTagEach => OthersKept(snapshot[p], index', Tag(p))
  <1>1. pc[p] = "tag" /\ index' = WithTag(snapshot[p], Tag(p), Root(p)) /\ Op(p) = "copy"
    BY DEF WriteTag, OpsMatch
  <1>2. snapshot[p] \in IndexStates /\ index' \in IndexStates
    BY TagWritten DEF TypesHold, TypeOK
  <1>3. [tag |-> Tag(p), digest |-> Root(p)] \in Written
    BY <1>1 DEF Written
  <1>4. EntriesIn(snapshot[p], Written)
    BY DEF EntriesAreWritten, AreWritten, EntriesIn
  <1>5. Tag(p) \in Tags /\ Root(p) \in Digests
    BY CommandTypes
  <1>6. OneTagEach => OneTagIn(Written)
    BY DEF OneTagEach, OneTagIn
  <1> QED BY <1>1, <1>2, <1>3, <1>4, <1>5, <1>6, WithTagKeeps

LEMMA TrimKeeps ==
  ASSUME TypesHold, EntriesAreWritten, NEW p \in Procs, TrimIndex(p)
  PROVE  /\ EntriesIn(index', Written)
         /\ Tagged(snapshot[p], Tag(p)) => OthersKept(snapshot[p], index', Tag(p))
  <1>1. index' = WithoutEntry(snapshot[p], Tag(p))
    BY DEF TrimIndex
  <1>2. snapshot[p] \in IndexStates /\ index' \in IndexStates
    BY IndexTrimmed DEF TypesHold, TypeOK
  <1>3. EntriesIn(snapshot[p], Written)
    BY DEF EntriesAreWritten, AreWritten, EntriesIn
  <1> QED BY <1>1, <1>2, <1>3, WithoutEntryKeeps

LEMMA InitEntries == Init => EntriesAreWritten /\ SnapshotIsCurrent
  <1> SUFFICES ASSUME Init PROVE EntriesAreWritten /\ SnapshotIsCurrent
    OBVIOUS
  <1>1. AreWritten(NoIndex)
    BY DEF AreWritten, NoIndex
  <1>2. AreWritten(index)
    BY <1>1 DEF Init, AreWritten, Written
  <1> QED BY <1>1, <1>2 DEF Init, EntriesAreWritten, SnapshotIsCurrent

LEMMA StepEntries ==
  ASSUME TypesHold, OpsMatch, EntriesAreWritten, NEW p \in Procs, Step(p) \/ Break(p)
  PROVE  EntriesAreWritten'
  <1>1. \A i \in 1 .. Len(index'.entries) : index'.entries[i] \in Written
    <2>1. CASE index' = index
      BY <2>1 DEF EntriesAreWritten, AreWritten
    <2>2. CASE CreateIndex(p)
      BY <2>2 DEF CreateIndex
    <2> QED BY <2>1, <2>2, WhoWritesIndex, TagKeeps, TrimKeeps DEF EntriesIn
  <1>2. ASSUME NEW q \in Procs
        PROVE  snapshot'[q] = snapshot[q] \/ snapshot'[q] = index
    <2>1. CASE ReadIndex(p)
      BY <2>1 DEF ReadIndex, TypesHold, TypeOK
    <2>2. CASE ~ReadIndex(p)
      BY <2>2
         DEF Step, StatMarker, Validate, BeginMarker, CreateMarker, CreateIndex, OpenIndex,
             Lock, PushExisting, PushStart, PushObstructed, SourceFails, PushFinish,
             PushFail, RemoveBlob, RemoveFails, CopyFailed, CopyDone, WriteTag, Collect,
             TrimIndex, DeleteDone, LayerDirs, Mount, Unmount, Break, GiveUp, Kill, locals
    <2> QED BY <2>1, <2>2
  <1>3. AreWritten(index)'
    BY <1>1, WrittenStays DEF AreWritten
  <1>4. ASSUME NEW q \in Procs PROVE AreWritten(snapshot[q])'
    BY <1>2, WrittenStays DEF AreWritten, EntriesAreWritten
  <1> QED BY <1>3, <1>4 DEF EntriesAreWritten

LEMMA StepCurrent ==
  ASSUME Seeded, Ground, SnapshotIsCurrent, NEW p \in Procs, Step(p) \/ Break(p)
  PROVE  SnapshotIsCurrent'
  <1> USE DEF Goto, Exit, disk, locals
  <1>1. TypesHold /\ TypeOK /\ LockIsHeld
    BY DEF Ground, TypesHold
  <1>2. index' # index => pc[p] \in {"tag", "trim"}
    <2>1. ~CreateIndex(p)
      BY DEF CreateIndex, Ground, ModesAgree, Making
    <2> QED BY <2>1, WhoWritesIndex DEF WriteTag, TrimIndex
  <1>3. ASSUME NEW q \in Procs, q # p, pc'[q] \in {"tag", "collect", "trim"}
        PROVE  /\ snapshot'[q] = index'
               /\ pc'[q] = "trim" => Tagged(snapshot'[q], Tag(q))
    <2>1. pc[q] = pc'[q] /\ snapshot'[q] = snapshot[q]
      BY <1>1, <1>3, OthersStay
    <2>2. index' = index
      <3>1. lock = q
        BY <1>1, <1>3, <2>1 DEF LockIsHeld, Holding
      <3>2. pc[p] \notin Holding
        BY <1>1, <1>3, <3>1 DEF LockIsHeld
      <3> QED BY <1>2, <3>2 DEF Holding
    <2> QED BY <1>3, <2>1, <2>2 DEF SnapshotIsCurrent
  <1>4. ASSUME pc'[p] \in {"tag", "collect", "trim"}
        PROVE  /\ snapshot'[p] = index'
               /\ pc'[p] = "trim" => Tagged(snapshot'[p], Tag(p))
    <2>1. CASE ReadIndex(p)
      BY <1>1, <1>4, <2>1 DEF ReadIndex, TypeOK
    <2>2. CASE Collect(p)
      BY <1>1, <1>4, <2>2 DEF Collect, Deletable, TypeOK, SnapshotIsCurrent
    <2>3. CASE ~(ReadIndex(p) \/ Collect(p))
      BY <1>1, <1>4, <2>3
         DEF Step, StatMarker, Validate, BeginMarker, CreateMarker, CreateIndex, OpenIndex,
             Lock, MayStart, PushExisting, PushStart, PushObstructed, SourceFails,
             PushFinish, PushFail, Ready, RemoveBlob, RemoveFails, CopyFailed, CopyDone,
             WriteTag, TrimIndex, DeleteDone, LayerDirs, Mount, Unmount, Break, GiveUp,
             Kill, TypeOK
    <2> QED BY <2>1, <2>2, <2>3
  <1> QED BY <1>3, <1>4 DEF SnapshotIsCurrent, Tag

(* "The two index writers cannot clobber each other" (lock.go:24-28): in a *)
(* layout that is there, where no digest is given two tags, a tag is lost  *)
(* or moved only by a command that names it, whoever else copies, deletes, *)
(* fails or is killed at any point.                                        *)
THEOREM TagsAreKept == Seeded /\ OneTagEach => (Spec => OnlyNamedTagsMove)
  <1> SUFFICES ASSUME Seeded, OneTagEach PROVE Spec => OnlyNamedTagsMove
    OBVIOUS
  <1>0. LayoutInvariant => Ground
    BY DEF LayoutInvariant, Ground, TypesHold, OneMode
  <1>1. LayoutInvariant /\ EntriesAreWritten /\ [Next]_vars => EntriesAreWritten'
    <2> SUFFICES ASSUME LayoutInvariant, EntriesAreWritten, [Next]_vars
                 PROVE  EntriesAreWritten'
      OBVIOUS
    <2>1. CASE UNCHANGED vars
      BY <2>1, WrittenStays DEF vars, locals, EntriesAreWritten, AreWritten
    <2> QED BY <1>0, <2>1, StepEntries DEF Next, AllEnded, Ground
  <1>2. LayoutInvariant /\ SnapshotIsCurrent /\ [Next]_vars => SnapshotIsCurrent'
    <2> SUFFICES ASSUME LayoutInvariant, SnapshotIsCurrent, [Next]_vars
                 PROVE  SnapshotIsCurrent'
      OBVIOUS
    <2>1. CASE UNCHANGED vars
      BY <2>1 DEF vars, locals, SnapshotIsCurrent, Tag
    <2> QED BY <1>0, <2>1, StepCurrent DEF Next, AllEnded
  <1>3. LayoutInvariant /\ EntriesAreWritten /\ SnapshotIsCurrent /\ [Next]_vars =>
          [\A t \in TagsOf(index) : Moves(t) =>
             \E p \in Procs : Tag(p) = t /\ pc[p] \in {"tag", "trim"} /\ pc'[p] # pc[p]]_vars
    <2> SUFFICES ASSUME LayoutInvariant, EntriesAreWritten, SnapshotIsCurrent, Next,
                        NEW t \in TagsOf(index), Moves(t)
                 PROVE  \E p \in Procs : Tag(p) = t /\ pc[p] \in {"tag", "trim"} /\ pc'[p] # pc[p]
      OBVIOUS
    <2>0. Ground /\ TypesHold /\ TypeOK /\ OpsMatch
      BY <1>0 DEF Ground, TypesHold
    <2>1. index' # index
      <3>1. First(index.entries, t, EntryOf(index, t))
        BY <2>0, TargetIsFirst DEF TypeOK
      <3>2. Tagged(index, t)
        BY <2>0, <3>1, FirstIsTarget DEF TypeOK
      <3> QED BY <3>2 DEF Moves
    <2>2. PICK p \in Procs : Step(p) \/ Break(p)
      BY <2>1 DEF Next, AllEnded, vars
    <2>3. CASE WriteTag(p)
      <3>1. pc[p] = "tag" /\ pc'[p] = "done" /\ snapshot[p] = index
        BY <2>0, <2>3 DEF WriteTag, Exit, Goto, TypeOK, SnapshotIsCurrent
      <3>2. t = Tag(p)
        BY <2>0, <2>3, <3>1, TagKeeps DEF Moves, OthersKept, TagStays
      <3> QED BY <3>1, <3>2
    <2>4. CASE TrimIndex(p)
      <3>1. pc[p] = "trim" /\ pc'[p] = "remove" /\ snapshot[p] = index
            /\ Tagged(snapshot[p], Tag(p))
        BY <2>0, <2>4 DEF TrimIndex, Goto, TypeOK, SnapshotIsCurrent
      <3>2. t = Tag(p)
        BY <2>0, <2>4, <3>1, TrimKeeps DEF Moves, OthersKept, TagStays
      <3> QED BY <3>1, <3>2
    <2>5. ~CreateIndex(p)
      BY <2>0 DEF CreateIndex, Ground, ModesAgree, Making
    <2> QED BY <2>1, <2>2, <2>3, <2>4, <2>5, WhoWritesIndex
  <1> QED BY <1>1, <1>2, <1>3, InitEntries, LayoutHolds, PTL DEF Spec, OnlyNamedTagsMove

(* After a copy its destination's tag resolves to what was copied          *)
(* (docs/delete.md:33-35), whatever it met, if no tag is used for two      *)
(* digests: what shadows a tag is an entry with the tag and another one.   *)
THEOREM CopiesResolve == OneDigestEach => (Spec => CopiedTagResolves)
  <1> SUFFICES ASSUME OneDigestEach PROVE Spec => CopiedTagResolves
    OBVIOUS
  <1>1. LayoutInvariant /\ EntriesAreWritten /\ [Next]_vars => EntriesAreWritten'
    <2> SUFFICES ASSUME LayoutInvariant, EntriesAreWritten, [Next]_vars
                 PROVE  EntriesAreWritten'
      OBVIOUS
    <2>1. CASE UNCHANGED vars
      BY <2>1, WrittenStays DEF vars, locals, EntriesAreWritten, AreWritten
    <2> QED BY <2>1, StepEntries DEF Next, AllEnded, LayoutInvariant, TypesHold
  <1>2. LayoutInvariant /\ EntriesAreWritten /\ [Next]_vars =>
          [\A p \in Procs : pc[p] = "tag" /\ pc'[p] = "done" =>
             Tagged(index', Tag(p)) /\ Target(index', Tag(p)) = Root(p)]_vars
    <2> SUFFICES ASSUME LayoutInvariant, EntriesAreWritten, Next,
                        NEW p \in Procs, pc[p] = "tag", pc'[p] = "done"
                 PROVE  Tagged(index', Tag(p)) /\ Target(index', Tag(p)) = Root(p)
      OBVIOUS
    <2>1. TypesHold /\ TypeOK /\ OpsMatch
      BY DEF LayoutInvariant, TypesHold
    <2>2. Step(p) \/ Break(p)
      <3>1. PICK q \in Procs : Step(q) \/ Break(q)
        BY DEF Next, AllEnded, vars
      <3>2. q = p
        BY <2>1, <3>1, OthersStay
      <3> QED BY <3>1, <3>2
    <2>3. WriteTag(p)
      BY <2>1, <2>2
         DEF Step, StatMarker, Validate, BeginMarker, CreateMarker, CreateIndex, OpenIndex,
             Lock, MayStart, PushExisting, PushStart, PushObstructed, SourceFails,
             PushFinish, PushFail, Ready, RemoveBlob, RemoveFails, CopyFailed, CopyDone,
             ReadIndex, Collect, TrimIndex, DeleteDone, LayerDirs, Mount, Unmount, Break,
             GiveUp, Kill, TypeOK, Goto, Exit
    <2>4. index' \in IndexStates
      BY <2>1, <2>3, TagWritten
    <2>5. PICK i : First(index'.entries, Tag(p), i)
      <3>1. Tag(p) \in TagsOf(index')
        BY <2>1, <2>3, TagKeeps
      <3> QED BY <2>4, <3>1, TargetIsFirst
    <2>6. index'.entries[i].digest = Root(p)
      <3>1. index'.entries[i] \in Written /\ index'.entries[i].tag = Tag(p)
        BY <2>1, <2>3, <2>5, TagKeeps DEF First, EntriesIn
      <3>2. [tag |-> Tag(p), digest |-> Root(p)] \in Written
        BY <2>1 DEF Written, OpsMatch
      <3>3. \A e, f \in Written : e.tag = f.tag => e.digest = f.digest
        BY DEF OneDigestEach
      <3> QED BY <3>1, <3>2, <3>3
    <2> QED BY <2>4, <2>5, <2>6, FirstIsTarget
  <1> QED BY <1>1, <1>2, InitEntries, LayoutHolds, PTL DEF Spec, CopiedTagResolves
=============================================================================

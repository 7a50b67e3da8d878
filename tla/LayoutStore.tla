----------------------------- MODULE LayoutStore -----------------------------
(***************************************************************************)
(* What an OCI layout keeps on disk and what one call of pkg/registry/     *)
(* oci-layout does to it (layout.go, delete.go).  A blob's path holds      *)
(* nothing, a file or, in unpack mode, a directory; both may be            *)
(* incomplete.  The index is written atomically, the marker and the blobs  *)
(* are not.                                                                *)
(* A definition marked as a slip stands for a bug in the code of the one   *)
(* below it; no specification uses it, it is what the properties catch.    *)
(***************************************************************************)
EXTENDS Naturals, Sequences, SequencesExt

CONSTANTS
  Digests,
  Layers,       \* digests with a filesystem layer media type
  Manifests,    \* image manifests
  Indexes,      \* image indexes; what is in none of the three is a config
  References    \* what a document refers to, a manifest's subject aside

VARIABLES
  marker,       \* the file oci-layout: none, a part of it, or the whole
  index,        \* index.json: NoIndex, or its mode and its entries in order
  blobs         \* what is found at the path of each digest

ASSUME StoreAssumption ==
  /\ Layers \cup Manifests \cup Indexes \subseteq Digests
  /\ References \in [Digests -> SUBSET Digests]
  /\ \A d \in Digests \ (Manifests \cup Indexes) : References[d] = {}

disk == <<marker, index, blobs>>

Modes   == {"tar", "unpack"}
Markers == {"none", "part", "whole"}
NoIndex == [mode |-> "none", entries |-> << >>]

(* Open reads both files: a marker cut short is no JSON.                   *)
Openable == marker = "whole" /\ index # NoIndex

(* File states: a file whose size is right, or one cut short; a directory  *)
(* holding all of the layer, or some of it.                                *)
BlobStates == {"absent", "file", "partFile", "dir", "partDir"}
Files       == {"file", "partFile"}
Directories == {"dir", "partDir"}

-----------------------------------------------------------------------------
(* Layout.Resolve: the first entry that carries the tag.                   *)
EntryOf(ix, tag) == SelectInSeq(ix.entries, LAMBDA e : e.tag = tag)
Tagged(ix, tag)  == EntryOf(ix, tag) # 0
Target(ix, tag)  == ix.entries[EntryOf(ix, tag)].digest
TagsOf(ix)       == {ix.entries[i].tag : i \in 1 .. Len(ix.entries)}

(* Layout.exists: in unpack mode any directory counts, else the size does. *)
ExistsAtAll(d, mode) == blobs[d] # "absent"     \* slip: the size is not compared
Exists(d, mode) == \/ mode = "unpack" /\ blobs[d] \in Directories
                   \/ blobs[d] = "file"

(* Push makes a directory of a layer in unpack mode, and a file otherwise. *)
StoredAs(d, mode) == IF mode = "unpack" /\ d \in Layers THEN "dir" ELSE "file"
Unfinished(d, mode) == IF StoredAs(d, mode) = "dir" THEN "partDir" ELSE "partFile"

(* mkdir over a file and open over a directory fail; the first is followed *)
(* by unpackLayer's RemoveAll, the second comes before writeBlob's defers. *)
Obstructed(d, mode) == \/ StoredAs(d, mode) = "dir" /\ blobs[d] \in Files
                       \/ StoredAs(d, mode) = "file" /\ blobs[d] \in Directories
AfterObstruction(d, mode) == IF StoredAs(d, mode) = "dir" THEN "absent" ELSE blobs[d]

(* SetTag: an entry with the digest is overwritten, or one is appended.    *)
WithOnlyTag(ix, tag, d) ==                      \* slip: the index is begun anew
  [ix EXCEPT !.entries = << [tag |-> tag, digest |-> d] >>]
WithTag(ix, tag, d) ==
  LET e == [tag |-> tag, digest |-> d]
      i == SelectInSeq(ix.entries, LAMBDA m : m.digest = d)
  IN  [ix EXCEPT !.entries = IF i = 0 THEN Append(@, e) ELSE ReplaceAt(@, i, e)]

WithoutEntry(ix, tag) == [ix EXCEPT !.entries = RemoveAt(@, EntryOf(ix, tag))]

(* What a walk along refs from each digest visits, which stops where it    *)
(* has been.                                                               *)
Closed(S, refs) == \A k \in S : refs[k] \subseteq S
Visited(refs) ==
  [d \in Digests |-> {k \in Digests :
     \A S \in SUBSET Digests : d \in S /\ Closed(S, refs) => k \in S}]

(* collectBlobs: a digest, and what the documents below it name.  Only the *)
(* documents on the way are read.                                          *)
Collected == Visited(References)
Documents(d) == Collected[d] \cap (Manifests \cup Indexes)
Readable(d)  == \A k \in Documents(d) : blobs[k] = "file"

Reachable(entries) ==
  UNION {Collected[entries[i].digest] : i \in 1 .. Len(entries)}

(* Delete: what only the entry being removed can reach.                    *)
OrphansOfVictim(ix, tag) == Collected[Target(ix, tag)]    \* slip: survivors forgotten
OrphansShallow(ix, tag) ==                      \* slip: one level of references
  ({Target(ix, tag)} \cup References[Target(ix, tag)])
    \ Reachable(WithoutEntry(ix, tag).entries)
Orphans(ix, tag) ==
  Collected[Target(ix, tag)] \ Reachable(WithoutEntry(ix, tag).entries)
Collectable(ix) == \A i \in 1 .. Len(ix.entries) : Readable(ix.entries[i].digest)

(* A digest is stored whole, in the form the layout's mode calls for.      *)
Whole(d, mode) == blobs[d] = StoredAs(d, mode)
=============================================================================

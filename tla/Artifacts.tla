------------------------------ MODULE Artifacts ------------------------------
(***************************************************************************)
(* What a packed artifact is to those who read it: manifests of titled     *)
(* layers, indexes of such manifests and of images and other artifacts,    *)
(* and which of its parts are the artifact's own files (pkg/extract).      *)
(* Content is its own digest.  A path is a sequence of names.              *)
(* A definition marked as a slip is a bug the properties are there to      *)
(* catch; nothing else uses it.                                            *)
(***************************************************************************)
EXTENDS Naturals, Sequences, SequencesExt

None   == << >>                             \* no platform, name or config
NoPath == << >>

(* Artifacts.  A layer is titled and may remember the directory of its     *)
(* item; an index entry has a platform and may carry a name of its own.    *)

Layer(title, dir, of)     == [title |-> title, dir |-> dir, of |-> of]
Manifest(name, config, layers) ==
  [kind |-> "manifest", name |-> name, config |-> config, layers |-> layers]
Index(name, members)      == [kind |-> "index", name |-> name, members |-> members]
Entry(of, platform, name) == [of |-> of, platform |-> platform, name |-> name]

-----------------------------------------------------------------------------
(* parts: what a member of an index is.                                    *)

IsIndex(a) == a.kind = "index"

ImageIndex(idx) ==
  LET images == {i \in DOMAIN idx.members : idx.members[i].platform # <<"unknown">>}
  IN  /\ \A i \in DOMAIN idx.members : ~IsIndex(idx.members[i].of)
      /\ \A i \in images : idx.members[i].of.config # None
      /\ images # {}

FilesAtAnyRate(e) ==                        \* slip: a name makes no artifact of it
  IF IsIndex(e.of) THEN IF ImageIndex(e.of) THEN "image" ELSE "artifact"
  ELSE IF e.of.config # None THEN "image" ELSE "files"
KindOf(e) ==
  IF IsIndex(e.of) THEN IF ImageIndex(e.of) THEN "image" ELSE "artifact"
  ELSE IF e.of.config # None THEN "image"
  ELSE IF e.name # None \/ e.of.name # None THEN "artifact"
  ELSE "files"

(* layerPath, and List: what the artifact packs itself.                    *)
LayerPath(l) == l.dir \o l.title
Escapes(path) == \E i \in DOMAIN path : path[i] = ".."

OwnLayers(a) ==
  IF ~IsIndex(a) THEN a.layers
  ELSE FlattenSeq([i \in DOMAIN a.members |->
                     IF KindOf(a.members[i]) = "files" THEN a.members[i].of.layers ELSE << >>])
List(a) == [i \in DOMAIN OwnLayers(a) |->
              [path |-> LayerPath(OwnLayers(a)[i]), of |-> OwnLayers(a)[i].of]]
=============================================================================

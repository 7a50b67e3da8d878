------------------------------- MODULE Fetcher -------------------------------
(***************************************************************************)
(* How the proxy reads the descriptors of an artifact: its own             *)
(* defaultFetcher, or the list of files extract offers it                  *)
(* (Options.Descriptors).                                                  *)
(***************************************************************************)
EXTENDS Artifacts

(* defaultFetcher: the layers of a manifest, or of those manifests of an   *)
(* index that are for the platform or for none; a platform has to be given *)
(* where one is told apart.                                                *)
MemberFor(e, q) == e.platform \in {None, q.platform} /\ ~IsIndex(e.of)
LayersFor(idx, q) ==
  FlattenSeq([i \in DOMAIN idx.members |->
                IF MemberFor(idx.members[i], q) THEN idx.members[i].of.layers ELSE << >>])

(* Descriptors: the files List finds, titled with their paths.             *)
Descriptors(a) == [i \in DOMAIN List(a) |-> Layer(List(a)[i].path, NoPath, List(a)[i].of)]

(* The body GET answers with is read as what HEAD announced; the list of   *)
(* files is read by the digest that was announced.                         *)
RefusesPlatform(fetcher, first, body, q) ==
  /\ fetcher = "default" /\ IsIndex(first) /\ IsIndex(body)
  /\ \E i \in DOMAIN body.members : body.members[i].platform # None /\ q.platform = None

ReadLayers(fetcher, first, body, q) ==
  CASE fetcher = "paths" -> Descriptors(first)
    [] fetcher = "default" /\ IsIndex(first) # IsIndex(body) -> << >>
    [] fetcher = "default" /\ IsIndex(first) /\ IsIndex(body) -> LayersFor(body, q)
    [] fetcher = "default" /\ ~IsIndex(first) /\ ~IsIndex(body) -> body.layers

-----------------------------------------------------------------------------
(* What an artifact has for a platform, without regard to how it is read.  *)
(* The list of files is one for all platforms, to Descriptors (file.go) as *)
(* to this definition: of it the platform says nothing.                    *)

Elements(s) == {s[i] : i \in DOMAIN s}
OfferedBy(fetcher, a, platform) ==
  IF fetcher = "paths" THEN Elements(Descriptors(a))
  ELSE IF ~IsIndex(a) THEN Elements(a.layers)
  ELSE UNION {Elements(e.of.layers) :
                e \in {e \in Elements(a.members) :
                         ~IsIndex(e.of) /\ (platform = None \/ e.platform \in {None, platform})}}
=============================================================================

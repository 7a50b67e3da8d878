------------------------------ MODULE Reference ------------------------------
(***************************************************************************)
(* References to artifacts (pkg/registry/reference): how the text after    *)
(* oci:// is taken for a layout, a registry or a repository, cut into its  *)
(* parts, and printed again.  A text is a sequence of words and of the     *)
(* marks / : @ and a leading . or ~; only a word's kind matters.  What     *)
(* cannot be parsed has no result, so a parser yields a set of at most     *)
(* one.                                                                    *)
(* A definition marked as a slip is a bug properties of Reading are there  *)
(* to catch; nothing else uses it.                                         *)
(***************************************************************************)
EXTENDS Naturals, Sequences, SequencesExt

CONSTANTS
  Dotted,     \* words with a dot in them
  Ports       \* words of digits

(* The first position of a mark, and the text around a position.           *)
At(s, marks)  == SelectInSeq(s, LAMBDA t : t \in marks)
Before(s, i)  == SubSeq(s, 1, i - 1)
After(s, i)   == SubSeq(s, i + 1, Len(s))
Has(s, t)     == At(s, {t}) # 0
Upto(s, t)    == IF Has(s, t) THEN Before(s, At(s, {t})) ELSE s
Doubled(s)    == \E n \in 1 .. Len(s) - 1 : s[n] = "/" /\ s[n + 1] = "/"
Twice(s, t)   == \E i, j \in DOMAIN s : i < j /\ s[i] = t /\ s[j] = t

AnyHost == << >>
Digest  == <<"sha256", ":", "hex">>
HoldsColon(s) == Has(s, ":")               \* slip: whatever holds a colon
IsDigest(s) == IsPrefix(Digest, s)

Reference(host, path, ref) == [host |-> host, path |-> path, ref |-> ref]

-----------------------------------------------------------------------------
(* classify decides by the first segment.                                  *)

IsPort(s) == Len(s) = 1 /\ s[1] \in Ports

Classify(s) ==
  LET first == Upto(s, "/") IN
  IF s # << >> /\ s[1] \in {"/", ".", "~"} THEN "layout"
  ELSE IF Has(first, ":")
       THEN IF IsPort(After(first, At(first, {":"}))) THEN "registry"
            ELSE IF Has(s, "/") THEN "layout" ELSE "bare"
  ELSE IF first = <<"localhost">> \/ \E i \in DOMAIN first : first[i] \in Dotted
       THEN "registry" ELSE "bare"

IsLayout(s) == Classify(s) # "registry"

(* parse: host up to the first /, path up to the first : or @, and, for a  *)
(* file, the path after the tag's or the digest's colon.                   *)
HostOf(remote, s) == IF remote /\ Has(s, "/") THEN Upto(s, "/") ELSE AnyHost
RestOf(remote, s) == IF remote /\ Has(s, "/") THEN After(s, At(s, {"/"})) ELSE s

FirstColon(ref, digest) == 0                \* slip: the digest's own colon is the file's
DigestColon(ref, digest) == IF digest THEN At(ref, {":"}) ELSE 0

Cut(remote, s, withFile) ==                 \* <<reference, file>>, unchecked
  LET rest   == RestOf(remote, s)
      i      == At(rest, {"@", ":"})
      ref    == After(rest, i)
      skip   == DigestColon(ref, rest[i] = "@")
      colon  == At(After(ref, skip), {":"})
      inFile == withFile /\ colon # 0
  IN  IF i = 0 THEN << Reference(HostOf(remote, s), rest, <<"latest">>), << >> >>
      ELSE << Reference(HostOf(remote, s), Before(rest, i),
                        IF inFile THEN Before(ref, skip + colon) ELSE ref),
              IF inFile THEN After(ref, skip + colon) ELSE << >> >>

Accepted(remote, s, cut) ==
  LET r    == cut[1]
      rest == RestOf(remote, s)
      i    == At(rest, {"@", ":"})
  IN  /\ ~Doubled(s)
      /\ remote /\ Has(s, "/") => r.host # AnyHost
      /\ (i # 0 /\ rest[i] = "@") => r.ref = Digest
      /\ r.path # << >> /\ Last(r.path) # "/"

Cuts(remote, s, withFile) ==
  {cut \in {Cut(remote, s, withFile)} : Accepted(remote, s, cut)}

Parse(s) == {cut[1] : cut \in Cuts(~IsLayout(s), s, FALSE)}

(* ParseItem: a repository of the registry the pack is pushed to.          *)
FormOfItem(s) == IF ~Has(s, "/") /\ Classify(s) = "registry" THEN "bare" ELSE Classify(s)
HostAndAll(s) == Cuts(TRUE, s, FALSE)       \* slip: read like a registry's reference
RepositoryOf(s) == Cuts(FALSE, s, FALSE)
ParseItem(s) ==
  IF s = << >> \/ FormOfItem(s) # "bare" \/ Twice(Upto(s, "@"), ":")
  THEN {} ELSE {cut[1] : cut \in RepositoryOf(s)}

-----------------------------------------------------------------------------
(* path.Clean of a relative path, by segments: .. takes back the one       *)
(* before it, or stays at the front.                                       *)
Up == <<"..">>
Segments(f) ==
  FoldLeft(LAMBDA done, t : IF t = "/" THEN Append(done, << >>)
                            ELSE Append(Front(done), Append(Last(done), t)),
           << << >> >>, f)
Clean(f) ==
  FoldLeft(LAMBDA done, t : IF t = Up /\ done # << >> /\ Last(done) # Up
                            THEN Front(done) ELSE Append(done, t),
           << >>, SelectSeq(Segments(f), LAMBDA t : t \notin {<< >>, <<".">>}))
Inside(f) == Clean(f) # << >> /\ Clean(f)[1] # Up

ParseFile(s) ==
  IF IsLayout(s) THEN {}
  ELSE {<<cut[1], Clean(cut[2])>> :
          cut \in {c \in Cuts(TRUE, s, TRUE) : c[1].host # AnyHost /\ Inside(c[2])}}

-----------------------------------------------------------------------------
(* String and RepoReference.                                               *)

Separator(ref) == IF IsDigest(ref) THEN "@" ELSE ":"
RepoReference(r) == r.path \o <<Separator(r.ref)>> \o r.ref
String(r) == IF r.host = AnyHost THEN RepoReference(r)
             ELSE r.host \o <<"/">> \o RepoReference(r)

(* Merge fills the client's own reference in with a repository and a tag   *)
(* or digest.                                                              *)
Merge(r, with) == [r EXCEPT !.path = IF with.path = << >> THEN @ ELSE with.path,
                            !.ref  = IF with.ref  = << >> THEN @ ELSE with.ref]
=============================================================================

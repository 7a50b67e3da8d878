------------------------------- MODULE Reading -------------------------------
(***************************************************************************)
(* A command that is given a reference to an artifact reads it once, as it *)
(* is typed (cmd/get.go and the others).  Readers runs it next to the      *)
(* commands that read no reference; ReadSpec leaves those open.            *)
(***************************************************************************)
EXTENDS Reference

CONSTANTS
  Texts,      \* what may be written after oci://
  FilePaths   \* and, for one file of an artifact, after a second colon

ASSUME TextAssumption == Texts \cup FilePaths \subseteq Seq(STRING)

VARIABLES
  command,    \* the command's name and its argument
  output      \* which references were read

Command(name, of) == [name |-> name, of |-> of]
ReadCommands == {Command("read", s) : s \in Texts}
NoOutput     == [ok |-> FALSE]

ReadInit ==
  /\ command.name = "read" => command \in ReadCommands
  /\ output = NoOutput

(* cmd/get.go and the commands that take a reference.                      *)
RunRead ==
  /\ command.name = "read" /\ output = NoOutput
  /\ output' = [read |-> Parse(command.of)]
  /\ UNCHANGED command

OtherCommand == command.name # "read" /\ UNCHANGED command

ReadSpec == ReadInit /\ [][RunRead \/ OtherCommand]_<<command, output>>

-----------------------------------------------------------------------------
(* Properties.                                                             *)

(* A reference says the same wherever it is printed and read again, as it  *)
(* is between a command and the client it makes (get.go:65): no layout     *)
(* turns into a registry, no digest into a tag.  Except one whose tag only *)
(* starts like a digest, which no registry would take for a tag.           *)
ReadBack == IF command.name = "read" /\ output # NoOutput THEN output.read ELSE {}
LikeDigest(ref) == IsPrefix(Digest, ref) /\ ref # Digest
PrintedIsParsed ==
  \A r \in ReadBack : ~LikeDigest(r.ref) => Parse(String(r)) = {r}

(* "The path follows it after a second colon, and may hold colons itself"  *)
(* (parse.go:59-61): put behind any reference with a plain tag or a        *)
(* digest, a path inside the artifact is cut off again and leaves the      *)
(* artifact's reference as it was; a path that leaves it, or has an empty  *)
(* segment, is refused.                                                    *)
PlainRef(ref) == ref = Digest \/ (Len(ref) = 1 /\ ref[1] \notin {":", "@"})
FilesAreCutOff ==
  \A r \in ReadBack : \A f \in FilePaths :
    r.host # AnyHost /\ PlainRef(r.ref) =>
      ParseFile(String(r) \o <<":">> \o f) =
        IF Inside(f) /\ ~Doubled(f) THEN {<<r, Clean(f)>>} ELSE {}

(* An oci:// item names "a repository of the registry the pack is pushed   *)
(* to" (parse.go:93-97): behind that registry's host it is read as the     *)
(* same repository and tag, so what is mounted is what the item says.      *)
Registry == Reference(<<"localhost">>, << >>, << >>)
ItemsStayInTheRegistry ==
  command.name = "read" => \A r \in ParseItem(command.of) :
    Parse(Registry.host \o <<"/">> \o command.of) = {Merge(Registry, r)}
=============================================================================

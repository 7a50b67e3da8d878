------------------------------- MODULE Readers -------------------------------
(***************************************************************************)
(* Who reads what has been packed: the proxy, which serves while the       *)
(* upstream's tags move, and the commands extract, get and files, each run *)
(* once on an artifact or on a reference as it is typed.                   *)
(***************************************************************************)
EXTENDS Proxy, Fetcher, Extract, Reading

CONSTANT Artifacts  \* what extract is run on

readerVars == <<vars, extractVars, command, output>>

Commands == {Command("proxy", None)} \cup {Command("extract", a) : a \in Artifacts}
                                     \cup ReadCommands
ReadersInit == Init /\ ExtractInit /\ command \in Commands /\ output = NoOutput

(* cmd/extract.go: the artifact and all that is mounted in it.             *)
RunExtract ==
  /\ command.name = "extract"
  /\ Begin(command.of) \/ ExtractStep
  /\ UNCHANGED <<vars, command, output>>

RunReference == RunRead /\ UNCHANGED <<vars, extractVars>>
RunProxy     == command.name = "proxy" /\ Next /\ UNCHANGED <<extractVars, command, output>>

ReadersNext == RunExtract \/ RunReference \/ RunProxy
ReadersSpec == ReadersInit /\ [][ReadersNext]_readerVars

-----------------------------------------------------------------------------
(* Properties.                                                             *)

(* "Every packed file at its title (under the directory a dir:// item      *)
(* named)" (README.md:577-579), and List and Open find "what Extract       *)
(* writes into the artifact's own directory" (file.go:43-46): once the     *)
(* directory of an artifact, mounted or not, has its pack file, nothing of *)
(* what it lists is missing or someone else's, even if the command breaks  *)
(* off afterwards.                                                         *)
FilesInPlace ==
  command.name = "extract" =>
    /\ status = "done" => command.of \in DOMAIN seen
    /\ \A b \in DOMAIN seen : status = "done" \/ PackedUp(seen[b]) => InPlace(b)

(* "The directory that would rebuild it" (README.md:577): packing what is  *)
(* in each directory, by the pack file in it, gives the artifact of that   *)
(* directory again, the ones mounted below the first included.             *)
RebuildsItself ==
  \A b \in DOMAIN seen :
    /\ status = "done" => PackedUp(seen[b])
    /\ PackedUp(seen[b]) => Rebuilt(b)
=============================================================================

-------------------------------- MODULE Proxy --------------------------------
(***************************************************************************)
(* The proxy (pkg/http/proxy): plain HTTP requests for a titled layer of a *)
(* tag, served from an upstream whose tags move, with a cache that every   *)
(* answer fills and nothing empties.  Each request is a goroutine; the     *)
(* cache's lock makes a Get or a Set one step.  How descriptors are read   *)
(* is an option of the proxy and a parameter here.                         *)
(* A definition marked as a slip is a bug the properties are there to      *)
(* catch; no specification uses it.                                        *)
(***************************************************************************)
EXTENDS Naturals, Sequences

CONSTANTS
  Tags,               \* what requests name: repository and tag
  History,            \* for each of them, the artifacts it names in turn
  Clients,            \* bound: each makes one request
  Questions,          \* what they may ask
  Fetchers,           \* the FetchDescriptors a proxy may have
  Refuses(_, _, _, _),\* whether one turns a question down: it wants a platform
  Read(_, _, _, _),   \* the layers it reads of what HEAD and GET found
  Offered(_, _, _)    \* the layers an artifact has for a platform

NoPlatform == << >>
NoTitle    == << >>
NoLayer    == << >>
Unasked    == << >>

(* A fetcher reads nothing the artifacts it was given do not have for the  *)
(* platform, and who asks for no platform may get any.                     *)
ASSUME FetcherAssumption ==
  \A f \in Fetchers, t \in Tags, q \in Questions :
    \A m, n \in DOMAIN History[t] :
      /\ Read(f, History[t][m], History[t][n], q)
           \in Seq(Offered(f, History[t][m], q.platform) \cup Offered(f, History[t][n], q.platform))
      /\ Offered(f, History[t][m], q.platform) \subseteq Offered(f, History[t][m], NoPlatform)

(* And from one artifact, unless it refuses, it reads all that is there.   *)
ASSUME CompleteAssumption ==
  \A f \in Fetchers, t \in Tags, q \in Questions :
    \A n \in DOMAIN History[t] :
      LET a    == History[t][n]
          read == Read(f, a, a, q)
      IN  /\ ~Refuses(f, a, a, q) =>
               Offered(f, a, q.platform) \subseteq {read[i] : i \in DOMAIN read}
          /\ NoLayer \notin Offered(f, a, q.platform)

ASSUME ProxyAssumption ==
  /\ \A t \in Tags : Len(History[t]) \in Nat \ {0} /\ DOMAIN History[t] = 1 .. Len(History[t])
  /\ \A q \in Questions : q.tag \in Tags

VARIABLES
  fetcher,    \* the proxy's FetchDescriptors
  now,        \* how far each tag has moved along its history
  cache,      \* layers by reference, platform and title
  asked,      \* each client's question
  pc,         \* where its request is
  head,       \* the version the tag named when it was resolved
  todo,       \* layers read and not looked at yet
  found,      \* the one that answers, or none
  answer      \* status and, for 200, the layer

vars == <<fetcher, now, cache, asked, pc, head, todo, found, answer>>

Question(method, tag, platform, title) ==
  [method |-> method, tag |-> tag, platform |-> platform, title |-> title]
Named(t)   == History[t][now[t]]
Latest(t)  == now[t] + 1 \notin DOMAIN History[t]

Answer(status, layer) == [status |-> status, layer |-> layer]
Pending    == Answer(0, NoLayer)
Failed     == Answer(500, NoLayer)          \* or 404, by the wording of the error

-----------------------------------------------------------------------------
(* The memory cache.  Layers packed by this program have no platform of    *)
(* their own, so that is the platform they are kept under.                 *)

TitleOnly(tag, platform, title)   == <<platform, title>>     \* slip: one for all tags
AnyPlatform(tag, platform, title) == <<tag, title>>          \* slip: and for all platforms
Key(tag, platform, title) == <<tag, platform, title>>
KeyOf(q) == Key(q.tag, q.platform, q.title)

Get(q) == IF KeyOf(q) \in DOMAIN cache THEN cache[KeyOf(q)] ELSE NoLayer
Set(tag, l) ==
  cache' = [k \in DOMAIN cache \cup {Key(tag, NoPlatform, l.title)} |->
              IF k = Key(tag, NoPlatform, l.title) THEN l ELSE cache[k]]

Init ==
  /\ fetcher \in Fetchers
  /\ now = [t \in Tags |-> 1]
  /\ cache = << >>
  /\ asked = [c \in Clients |-> Unasked]
  /\ pc = [c \in Clients |-> "idle"]
  /\ head = [c \in Clients |-> 0]
  /\ todo = [c \in Clients |-> << >>]
  /\ found = [c \in Clients |-> NoLayer]
  /\ answer = [c \in Clients |-> Pending]

Goto(c, step) == pc' = [pc EXCEPT ![c] = step] /\ UNCHANGED answer
Reply(c, a)   == pc' = [pc EXCEPT ![c] = "done"] /\ answer' = [answer EXCEPT ![c] = a]

-----------------------------------------------------------------------------
(* The upstream is retagged.                                               *)
Move(t) ==
  /\ ~Latest(t)
  /\ now' = [now EXCEPT ![t] = @ + 1]
  /\ UNCHANGED <<fetcher, cache, asked, pc, head, todo, found, answer>>

(* ServeHTTP and defaultConverter: other methods and requests without a    *)
(* title are turned away.                                                  *)
Receive(c, q) ==
  /\ pc[c] = "idle"
  /\ asked' = [asked EXCEPT ![c] = q]
  /\ IF q.method \notin {"GET", "HEAD"} THEN Reply(c, Answer(405, NoLayer))
     ELSE IF q.title = NoTitle THEN Reply(c, Answer(400, NoLayer))
     ELSE Goto(c, "lookup")
  /\ UNCHANGED <<fetcher, now, cache, head, todo, found>>

Lookup(c) ==
  /\ pc[c] = "lookup"
  /\ found' = [found EXCEPT ![c] = Get(asked[c])]
  /\ Goto(c, IF Get(asked[c]) = NoLayer THEN "resolve" ELSE "serve")
  /\ UNCHANGED <<fetcher, now, cache, asked, head, todo>>

(* FetchReference asks for the tag twice, HEAD and GET.                    *)
Resolve(c) ==
  /\ pc[c] = "resolve"
  /\ head' = [head EXCEPT ![c] = now[asked[c].tag]]
  /\ Goto(c, "read")
  /\ UNCHANGED <<fetcher, now, cache, asked, todo, found>>

ReadDescriptors(c) ==
  /\ pc[c] = "read"
  /\ LET q     == asked[c]
         first == History[q.tag][head[c]]
     IN  IF Refuses(fetcher, first, Named(q.tag), q)
         THEN Reply(c, Answer(400, NoLayer)) /\ UNCHANGED todo
         ELSE /\ todo' = [todo EXCEPT ![c] = Read(fetcher, first, Named(q.tag), q)]
              /\ Goto(c, "store")
  /\ UNCHANGED <<fetcher, now, cache, asked, head, found>>

(* Every layer is cached; the first with the title answers.                *)
Store(c) ==
  /\ pc[c] = "store" /\ todo[c] # << >>
  /\ LET l == Head(todo[c]) IN
     /\ Set(asked[c].tag, l)
     /\ found' = IF l.title = asked[c].title /\ found[c] = NoLayer
                 THEN [found EXCEPT ![c] = l] ELSE found
  /\ todo' = [todo EXCEPT ![c] = Tail(todo[c])]
  /\ UNCHANGED <<fetcher, now, asked, pc, head, answer>>

Stored(c) ==
  /\ pc[c] = "store" /\ todo[c] = << >>
  /\ IF found[c] = NoLayer THEN Reply(c, Answer(404, NoLayer)) ELSE Goto(c, "serve")
  /\ UNCHANGED <<fetcher, now, cache, asked, head, todo, found>>

Serve(c) ==
  /\ pc[c] = "serve"
  /\ Reply(c, Answer(200, found[c]))
  /\ UNCHANGED <<fetcher, now, cache, asked, head, todo, found>>

(* The upstream refuses a request or has none of it any more.              *)
UpstreamFails(c) ==
  /\ pc[c] \in {"resolve", "read", "serve"}
  /\ Reply(c, Failed)
  /\ UNCHANGED <<fetcher, now, cache, asked, head, todo, found>>

-----------------------------------------------------------------------------
Answering(c) == \/ Lookup(c) \/ Resolve(c) \/ ReadDescriptors(c)
                \/ Store(c) \/ Stored(c) \/ Serve(c) \/ UpstreamFails(c)

Next == \/ \E t \in Tags : Move(t)
        \/ \E c \in Clients : \/ \E q \in Questions : Receive(c, q)
                              \/ Answering(c)

Spec == Init /\ [][Next]_vars

TypeOK ==
  /\ fetcher \in Fetchers
  /\ now \in [Tags -> Nat] /\ \A t \in Tags : now[t] \in DOMAIN History[t]
  /\ asked \in [Clients -> Questions \cup {Unasked}]
  /\ pc \in [Clients -> {"idle", "lookup", "resolve", "read", "store", "serve", "done"}]
  /\ head \in [Clients -> Nat]
  /\ DOMAIN todo = Clients /\ DOMAIN found = Clients /\ DOMAIN answer = Clients
  /\ \A c \in Clients :
       /\ pc[c] # "idle" => asked[c] \in Questions
       /\ pc[c] = "read" => head[c] \in 1 .. now[asked[c].tag]

-----------------------------------------------------------------------------
(* Properties.                                                             *)

Over(c) == pc[c] = "done"

(* However requests for different tags, platforms and titles meet in the   *)
(* cache, and whenever the tags move, even between the HEAD and the GET of *)
(* one request: what is served is a layer with the title asked for that    *)
(* some version of the tag asked for has had, for the platform asked for.  *)
SoFar(t, platform) ==
  UNION {Offered(fetcher, History[t][n], platform) : n \in 1 .. now[t]}
AnswersAreOffers ==
  \A c \in Clients : Over(c) /\ answer[c].status = 200 =>
    /\ answer[c].layer.title = asked[c].title
    /\ answer[c].layer \in SoFar(asked[c].tag, asked[c].platform)

(* While a tag has not moved and the upstream answers, the cache cannot be *)
(* told from its absence (proxy.go:141-151 against 153-185): whatever      *)
(* others asked before or meanwhile, whoever asks for a file the artifact  *)
(* has gets it and nobody else anything.  Exempt are requests without a    *)
(* platform for an artifact that has some (README).                        *)
Answers(a, q) == {l \in Offered(fetcher, a, q.platform) : l.title = q.title}
Transparent ==
  \A c \in Clients :
    LET q == asked[c]
        a == Named(q.tag)
    IN  Over(c) /\ answer[c].status \in {200, 404} /\ now[q.tag] = 1 /\ ~Refuses(fetcher, a, a, q)
        => answer[c] \in IF Answers(a, q) = {} THEN {Answer(404, NoLayer)}
                         ELSE {Answer(200, l) : l \in Answers(a, q)}
=============================================================================

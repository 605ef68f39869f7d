------------------------------ MODULE MCServing ------------------------------
(***************************************************************************)
(* RequestPaths on small instances, whose sizes Serving.cfg gives, and beside its       *)
(* pieces the translation of what the client gets.                                        *)
(***************************************************************************)
EXTENDS RequestPaths, TLC

\* Two nodes, a fast large one that others load and a slow small one; two models.
Report(res, warm, avail, crit, cap, p75) ==
    [online |-> TRUE, resident |-> res, warm |-> warm, available |-> avail, critical |-> crit,
     mode |-> cap[1], score |-> cap[2], ceiling |-> cap[3], p75 |-> p75]
SlowReports ==
    {Report(res, {}, avail, crit, cap, -1) :
        res \in {{}, {"a"}}, avail \in {8, 55}, crit \in BOOLEAN,
        cap \in {<<"none", 0, 0>>, <<"paused", 10, 16>>, <<"learned_high", 70, 64>>}}
FastReports ==
    {Report(res, warm, avail, FALSE, <<"learned_high", 90, 400>>, p75) :
        res \in {{}, {"a"}}, warm \in {{}, {"a"}}, avail \in {55, 300}, p75 \in {-1, 4000}}

TwoNodes == {"n1", "n2"}
TwoModels == {"a", "b"}
OnDisk == [n1 |-> {"a", "b"}, n2 |-> {"a"}]
Speeds == [n1 |-> 100, n2 |-> 800]
Memories == [n1 |-> 64, n2 |-> 512]
ModelSizes == [a |-> 40, b |-> 5]
WithCache == [a |-> 50, b |-> 6]
Contexts == [a |-> 32, b |-> 32]
Categories == [a |-> {"code", "general"}, b |-> {"general"}]
Catalogue == [a |-> 70, b |-> 0]
SlowOrFast == [n1 |-> SlowReports, n2 |-> FastReports]
ShortOrLong == {30, 40}

Wish(w, c, i) == [wants |-> w, choice |-> c, images |-> i, session |-> "s"]

ThreeQueries ==
    <<Wish(<<"a", "b">>, "default", FALSE), Wish(<<"a">>, "no", FALSE), Wish(<<"v">>, "yes", TRUE)>>
ThreeModels == {"a", "b", "v"}
OneKindEach == [a |-> "general", b |-> "code", v |-> "vision"]
Ranks == [a |-> 5, b |-> 1, v |-> 0]

FourDoors == [door : {"ollama", "openai", "anthropic", "responses"}, stream : BOOLEAN]
TwoDoors == [door : {"openai", "anthropic"}, stream : BOOLEAN]

Asked(f, c, p) == [model |-> "a", form |-> f, ctx |-> c, predict |-> p]
SixBodies ==
    {Asked("options", c, 5) : c \in {0, 32, 128}}
        \cup {Asked("options", 0, 0), Asked("bare", 0, 0), Asked("openai", 0, 5)}
TwoWindows == {32, 128}
SmallerForA == [a |-> 32, b |-> 0]
BodySizes == [a |-> 10, b |-> 40]
OneThinks == {"a"}

Ask(k, m, d) == [kind |-> k, model |-> m, door |-> d]
FourEmbeddings ==
    {<<Ask("rerank", "x", "rerank"), Ask("rerank", "y", "rerank"), Ask("embed", "e", "openai")>>,
     <<Ask("rerank", "x", "rerank"), Ask("rerank", "x", "rerank"), Ask("embed", "e", "ollama")>>,
     <<Ask("embed", "e", "ollama"), Ask("embed", "f", "openai"), Ask("vision", "v", "ollama")>>,
     <<Ask("ollama", "o", "openai"), Ask("ollama", "o", "ollama"), Ask("none", "", "")>>}
Pairs == {<<"image", "image">>, <<"image", "stt">>, <<"ollama", "stt">>}

OnlyText == {"text"}

OLine(w, c, d, r) == [word |-> w, calls |-> c, done |-> d, reason |-> r]
OCall(n, a) == [name |-> n, args |-> a]
MLine(w, t, p, f) == [word |-> w, thought |-> t, parts |-> p, finish |-> f]
Part(i, n, a) == [index |-> i, name |-> n, piece |-> a]

Events == INSTANCE AnthropicStream WITH
    OllamaLines <-
        {OLine("w", <<>>, FALSE, ""), OLine("stop", <<>>, FALSE, ""),
         OLine("w", <<OCall("f", "json")>>, FALSE, ""),
         OLine("", <<OCall("f", "object"), OCall("g", "broken")>>, FALSE, ""),
         OLine("", <<>>, TRUE, "stop"), OLine("", <<>>, TRUE, "length"),
         OLine("w", <<OCall("g", "object")>>, TRUE, "stop")},
    MlxLines <-
        {MLine("w", "", <<>>, ""), MLine("", "t", <<>>, ""),
         MLine("", "", <<Part(0, "f", "a")>>, ""), MLine("", "", <<Part(0, "", "b")>>, ""),
         MLine("", "", <<Part(1, "g", "a"), Part(1, "", "c")>>, ""),
         MLine("", "", <<Part(0, "", "a"), Part(1, "", "c")>>, ""),
         MLine("", "", <<>>, "stop"), MLine("w", "", <<>>, "length"),
         MLine("", "", <<Part(1, "g", "b")>>, "tool_calls"), MLine("", "", <<>>, "tool_calls")},
    MaxLines <- 4,
    backend <- v1, lines <- v2, state <- v3, tools <- v4, sent <- v5, ended <- v6

RCall(n, s, t) == [name |-> n, args |-> [shape |-> s, text |-> t]]
RCalls ==
    {RCall("exec", "input", "plain"), RCall("exec", "raw", "plain"), RCall("exec", "input", "cmd"),
     RCall("exec", "cmd", "cmd"), RCall("exec", "many", "plain"), RCall("exec", "list", "plain"),
     RCall("read", "many", "plain"), RCall("read", "raw", "plain"), RCall("read", "list", "plain"),
     RCall("apply_patch", "input", "patch"), RCall("apply_patch", "input", "plain"),
     RCall("apply_patch", "raw", "patch"), RCall("exec_command", "cmd", "cmd")}

Tools(f, c) == [functions |-> f, custom |-> c]

Items == INSTANCE ResponsesTranslator WITH
    Offers <- {Tools({"read", "exec_command"}, {}), Tools({"read"}, {"exec"}),
               Tools({"exec_command"}, {"exec"})},
    Lines <- {OLine("w", <<>>, FALSE, ""), OLine("v", <<RCall("read", "many", "plain")>>, FALSE, ""),
              OLine("w", <<>>, TRUE, "stop"), OLine("", <<>>, TRUE, "length"),
              OLine("w", <<RCall("exec", "input", "plain"), RCall("nested", "one", "plain")>>, TRUE, "stop")}
             \cup {OLine("", <<c>>, FALSE, "") : c \in RCalls},
    MaxLines <- 3,
    offer <- v1, lines <- v2, state <- v3, sent <- v4, history <- v5, ended <- v6

-----------------------------------------------------------------------------

None3 == v7 = 0 /\ v8 = 0 /\ v9 = 0
After6 == <<v7, v8, v9>>

Init ==
    \/ PathsInit
    \/ None3 /\ \/ part = "events" /\ Events!Init
                \/ part = "items" /\ Items!Init

Next ==
    \/ PathsNext
    \/ /\ UNCHANGED <<part, After6>>
       /\ \/ part = "events" /\ Events!Next
          \/ part = "items" /\ Items!Next

\* The fairness of Routing and of Embeddings, each for its part.
Routed(A) == part = "routing" /\ UNCHANGED part /\ A
Embeds(A) == part = "embeddings" /\ UNCHANGED <<part, v1>> /\ A
Spec ==
    /\ Init /\ [][Next]_pathVars
    /\ \A r \in 1..3 : WF_pathVars(Routed(Route!Step(r)))
    /\ \A r \in 1..3 : WF_pathVars(Embeds(r \in Embedding!Requests /\ Embedding!Step(r)))
-----------------------------------------------------------------------------

\* What a client gets of an answer. Streamed and collected it is the same answer, calls in
\* the shape the client declared included, and a stream opens and closes each block once,
\* in order (AnthropicStream, ResponsesTranslator).
AnswersAgree ==
    /\ part = "events" => Events!SameAnswer /\ Events!WellFormed
    /\ part = "items" => Items!SameResponse /\ Items!DeclaredShape /\ Items!ItemsWellFormed

\* Every request is answered: the hold and the pulls of others end (Routing), locks that
\* others hold are given back and time-outs run out (Embeddings).
EveryoneAnswered ==
    \A r \in 1..3 : /\ <>(part = "routing" => v3[r] = "done")
                    /\ <>(part = "embeddings" => Embedding!Served(r))

-----------------------------------------------------------------------------
(* Checked alone, by Truncated.cfg and RetriedBody.cfg, and violated.                  *)

\* FrontDoors: see TruncationTold there.
TruncationTold == part = "doors" => Doors!TruncationTold

\* RequestBody: see BudgetOnce there.
BudgetOnce == part = "bodies" => Bodies!BudgetOnce
=============================================================================

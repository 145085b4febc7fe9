------------------------------- MODULE MCModel -------------------------------
\* What a model is shown (ModelSurface) and what it answers (ModelStream).  The
\* two share nothing; a behaviour is of one of them.
EXTENDS ModelSurface

CONSTANTS MaxRetries, MaxPieces, StreamScenarios

VARIABLES part, stream, server, request, turn

streamVars == <<stream, server, request, turn>>

Stream == INSTANCE ModelStream WITH Scenarios <- StreamScenarios, scenario <- stream

MCStateKinds == <<"skills">>

Streaming(protocol, kinds, items, overlaps, requests) ==
  [codec |-> protocol, kinds |-> kinds, items |-> items, overlaps |-> overlaps, requests |-> requests]

Plain == {"message", "reasoning", "function"}

MCStreams ==
  {Streaming("responses", Plain \cup {"custom", "search"}, 2, TRUE, 1),
   Streaming("responses", {"message", "function"}, 3, FALSE, 1),
   Streaming("responses", Plain \cup {"custom", "search"}, 1, FALSE, 2)}
  \cup {Streaming(c, Plain, 3, FALSE, 1) : c \in {"messages", "chat", "ollama"}}
  \cup {Streaming(c, Plain, 1, FALSE, 2) : c \in {"messages", "chat", "ollama"}}

MCInit ==
  /\ part \in {"surface", "stream"}
  /\ Init
  /\ Stream!Init /\ (part = "stream" \/ stream = CHOOSE s \in StreamScenarios : TRUE)

SurfaceStep == part = "surface" /\ Next /\ UNCHANGED <<part, streamVars>>
StreamStep == part = "stream" /\ Stream!Next /\ UNCHANGED <<part, vars>>

MCSpec == MCInit /\ [][SurfaceStep \/ StreamStep]_<<part, vars, streamVars>>

\* What clients are shown of an answer is what the model streams, of its last
\* attempt.  (TurnProjector)
AnswerIsShown == part = "stream" => Stream!AnswerIsShown

\* Text of a message that clients saw is kept, however the stream ends.
\* (continue_turn)
TextIsKept == part = "stream" => Stream!TextIsKept

\* A turn asks again only if it has something new to say to the model, but for
\* the empty answers that Responses and Messages accept.  (continue_turn)
AsksWithNews == part = "stream" => Stream!AsksWithNews
=============================================================================

------------------------------ MODULE Inference ------------------------------
(***************************************************************************)
(* The four endpoints that ask a model: what a call becomes on its way     *)
(* through the provider's reply, the engine and the handler. An engine     *)
(* call is one HTTP request, so all of it is a function of the call:       *)
(*                                                                         *)
(*   endpoint   which of the four                                          *)
(*   text       what the caller sent                                       *)
(*   keys       the API keys the process booted with                       *)
(*   reply      what the provider did with the request                     *)
(*   index      the embeddings stored, for a search; "lost" when the       *)
(*              database cannot be read                                    *)
(***************************************************************************)
EXTENDS Naturals

(***************************************************************************)
(* The engines                                                             *)
(***************************************************************************)
\* Which backend a method is routed to, and what it is called with.
Backend == [sentiment |-> "groq", extract_entities |-> "groq", summarize |-> "groq",
            embed |-> "huggingface"]

KeyOf == [groq |-> "GROQ_API_KEY", huggingface |-> "HF_TOKEN"]

\* A builder refuses a blank key; the engine is made of both or not at all.
HfEngine(keys)   == KeyOf.huggingface \in keys
GroqEngine(keys) == KeyOf.groq \in keys
Engine(keys)     == HfEngine(keys) /\ GroqEngine(keys)

\* No reply before the handler's timeout; the connection breaks; a status
\* that is no success.
Failures == [silence |-> "Elapsed", broken |-> "Http", too_many |-> "Upstream429",
             refused |-> "Upstream"]

\* What the one message of a chat completion may hold; code fences are
\* stripped, so they make no difference. And bodies without such a message.
Contents   == {"blank", "prose", "object", "label", "verdict", "odd_label", "names", "no_names"}
ChatBodies == Contents \cup {"garbage", "no_choices"}

\* What a feature extraction may hold.
Vectors == {"garbage", "object", "empty", "words", "tokens", "row", "vector", "zeros"}

Chat(reply) ==
    CASE reply \in DOMAIN Failures -> Failures[reply]
      [] reply = "garbage"         -> "Decode"
      [] reply = "no_choices"      -> "InvalidResponse"
      [] OTHER                     -> reply

\* A confidence that is missing becomes one half.
parse_sentiment(content) ==
    CASE content \in {"blank", "prose", "object", "names", "no_names"} -> "Decode"
      [] content = "odd_label" -> "InvalidResponse"
      [] OTHER                 -> "ok"

\* A list that is missing becomes an empty one; rows with blanks are dropped.
parse_entities(content) == IF content \in {"blank", "prose"} THEN "Decode" ELSE "ok"

\* Any text is a summary.
parse_summary(content) == IF content = "blank" THEN "InvalidResponse" ELSE "ok"

\* One row of one vector counts as the vector, rows of tokens do not.
parse_single_embedding(reply) ==
    CASE reply = "garbage" -> "Decode"
      [] reply \in {"object", "empty", "words", "tokens"} -> "InvalidResponse"
      [] OTHER -> "ok"

Parsed(content, parse(_)) == IF content \in Contents THEN parse(content) ELSE content

sentiment(reply)        == Parsed(Chat(reply), parse_sentiment)
extract_entities(reply) == Parsed(Chat(reply), parse_entities)
summarize(reply)        == Parsed(Chat(reply), parse_summary)

embed(reply) ==
    IF reply \in DOMAIN Failures THEN Failures[reply] ELSE parse_single_embedding(reply)

(***************************************************************************)
(* The index of news embeddings                                            *)
(***************************************************************************)
\* A stored embedding: of the model in use, of another model of the same
\* dimension, of another dimension.
Rows == {"own", "stranger", "other_dim"}

\* The rows a query is compared with: the model is not asked for, only the
\* dimension. A query without direction finds nothing.
top_k_by_cosine(index, reply) ==
    IF reply = "zeros" THEN {} ELSE index \ {"other_dim"}

(***************************************************************************)
(* The handlers                                                            *)
(***************************************************************************)
ServerErrors == {"internal_server_error", "bad_gateway", "service_unavailable", "gateway_timeout"}

\* The errors that go out with a name of their own, and with Retry-After.
Named(status) == status \in ServerErrors \cup {"too_many_requests"}

Status(result) ==
    CASE result = "ok"          -> "ok"
      [] result = "Upstream429" -> "too_many_requests"
      [] result = "Elapsed"     -> "gateway_timeout"
      [] OTHER                  -> "bad_gateway"

\* What can be said before a model is asked.
Asked(call) == call.text = "text" /\ Engine(call.keys)

Unasked(call) ==
    CASE call.text = "unreadable" -> "unprocessable"
      [] call.text = "blank"      -> "bad_request"
      [] call.text = "long"       -> "payload_too_large"
      [] OTHER                    -> "service_unavailable"

classify_event(call) ==
    IF Asked(call) THEN Status(sentiment(call.reply)) ELSE Unasked(call)

extract_entities_handler(call) ==
    IF Asked(call) THEN Status(extract_entities(call.reply)) ELSE Unasked(call)

summarize_article(call) ==
    IF Asked(call) THEN Status(summarize(call.reply)) ELSE Unasked(call)

search_semantic(call) ==
    IF ~ Asked(call) THEN Unasked(call)
    ELSE IF embed(call.reply) = "ok" /\ call.index = {"lost"} THEN "internal_server_error"
    ELSE Status(embed(call.reply))

Endpoints == [classify |-> "sentiment", extract |-> "extract_entities",
              summarize |-> "summarize", search |-> "embed"]

Respond(call) ==
    CASE call.endpoint = "classify"  -> classify_event(call)
      [] call.endpoint = "extract"   -> extract_entities_handler(call)
      [] call.endpoint = "summarize" -> summarize_article(call)
      [] call.endpoint = "search"    -> search_semantic(call)

(***************************************************************************)
(* The calls, and what is really the matter with each                      *)
(***************************************************************************)
Replies(endpoint) ==
    DOMAIN Failures \cup
    (IF Backend[Endpoints[endpoint]] = "groq" THEN ChatBodies ELSE Vectors)

Calls ==
    UNION {[endpoint : {e}, text : {"text", "blank", "long", "unreadable"},
            keys : SUBSET {KeyOf[b] : b \in DOMAIN KeyOf}, reply : Replies(e),
            index : IF e = "search" THEN (SUBSET Rows) \cup {{"lost"}} ELSE {{}}]
           : e \in DOMAIN Endpoints}

\* The replies that say what was asked.
Saying == [classify |-> {"label", "verdict"}, extract |-> {"names", "no_names"},
           summarize |-> Contents \ {"blank"}, search |-> {"row", "vector"}]

\* A search that ranks the embeddings of another model.
Strangers(call) ==
    /\ call.endpoint = "search" /\ call.reply \in Saying.search
    /\ "stranger" \in top_k_by_cosine(call.index, call.reply)

\* What is the matter with a reply.
OfReply(call) ==
    LET lost == call.index = {"lost"} /\ call.reply \in {"row", "vector", "zeros"}
    IN  CASE call.reply = "silence"           -> "silent"
          [] call.reply = "too_many"          -> "limited"
          [] lost                             -> "lost"
          [] call.reply = "zeros" /\ ~ lost   -> "directionless"
          [] Strangers(call)                  -> "strangers"
          [] call.endpoint = "extract" /\ call.reply \in {"object", "label", "verdict", "odd_label"} -> "no_list"
          [] call.reply \in Saying[call.endpoint] /\ ~ lost /\ ~ Strangers(call) -> "said"
          [] OTHER                            -> "nonsense"

Truth(call) ==
    IF call.text # "text" THEN "caller"
    ELSE IF ~ Engine(call.keys) THEN "unconfigured"
    ELSE OfReply(call)
=============================================================================

----------------------------- MODULE Providers -----------------------------
(***************************************************************************)
(* What the provider adapters (saglayicilar) make of what a model's server *)
(* answers: one for the protocol that Groq, OpenRouter and NVIDIA NIM      *)
(* share, Gemini's and Ollama's.  The servers are outside: any of them may *)
(* answer anything, or nothing.                                            *)
(***************************************************************************)
EXTENDS Integers

Adapters == {"openai", "gemini", "ollama"}

(* Only the local Ollama is the fallback for being offline. *)
IsOfflineFallback(adapter) == adapter = "ollama"

(* The first thing that comes back, or does not. *)
Replies == {"200", "429", "4xx", "5xx", "unreachable", "slow"}

(* health: it never raises. *)
OpenAIHealth(reply) ==
    CASE reply = "200" -> "up"
      [] reply = "429" -> "cooling_down"
      [] reply \in {"5xx", "unreachable"} -> "down"
      [] reply \in {"slow", "4xx"} -> "degraded"
GeminiHealth(reply) == OpenAIHealth(reply)
OllamaHealth(reply) ==
    CASE reply = "200" -> "up" [] reply = "slow" -> "degraded" [] OTHER -> "down"

Health(adapter, reply) ==
    CASE adapter = "openai" -> OpenAIHealth(reply)
      [] adapter = "gemini" -> GeminiHealth(reply)
      [] adapter = "ollama" -> OllamaHealth(reply)

(* How a call whose reply is not 200 ends: an AppError of one of two codes,*)
(* or an error of the HTTP client, which is no AppError.  Ollama's has no  *)
(* rate limit.                                                             *)
OpenAIRefusal(reply) ==
    CASE reply = "429" -> "rate_limited"
      [] reply \in {"4xx", "5xx"} -> "http_error"
      [] OTHER -> "foreign"
GeminiRefusal(reply) == OpenAIRefusal(reply)
OllamaRefusal(reply) == IF reply \in {"429", "4xx", "5xx"} THEN "http_error" ELSE "foreign"

Refusal(adapter, reply) ==
    CASE adapter = "openai" -> OpenAIRefusal(reply)
      [] adapter = "gemini" -> GeminiRefusal(reply)
      [] adapter = "ollama" -> OllamaRefusal(reply)

(* The lines of a stream: a piece of an answer, a line without data, the   *)
(* end mark of the OpenAI protocol, data that is empty, text that is not   *)
(* JSON; a stream may also be cut off, which the HTTP client reports.      *)
Lines == {"piece", "nothing", "done_mark", "empty_data", "garbled", "cut"}

OpenAIParsed(line) ==
    CASE line = "piece" -> "chunk" [] line \in {"nothing", "done_mark"} -> "none"
      [] OTHER -> "foreign"
GeminiParsed(line) ==
    CASE line = "piece" -> "chunk" [] line \in {"nothing", "empty_data"} -> "none"
      [] OTHER -> "foreign"
OllamaParsed(line) ==
    CASE line = "piece" -> "chunk" [] line = "nothing" -> "none" [] OTHER -> "foreign"

Parsed(adapter, line) ==
    CASE adapter = "openai" -> OpenAIParsed(line)
      [] adapter = "gemini" -> GeminiParsed(line)
      [] adapter = "ollama" -> OllamaParsed(line)
============================================================================

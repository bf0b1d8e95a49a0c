------------------------------- MODULE Requests -------------------------------
(***************************************************************************)
(* Request translation: translateRequest of internal/provider/openai and   *)
(* of internal/provider/gemini, which translate the same Anthropic request *)
(* when it fails over from one provider to the other.                      *)
(*                                                                         *)
(* The settings of a request are a record of the fields one of the two     *)
(* looks at; what the account's extra field says is in it too.  A message  *)
(* is [role, blocks], a block [kind, id, signature]: id says which block   *)
(* it is, and for a tool_result of which tool_use it is the result.        *)
(***************************************************************************)
EXTENDS Naturals, Sequences, FiniteSets, SequencesExt

Efforts == {"none", "low", "high"}
ThinkingForms == {"absent", "malformed", "enabled", "adaptive", "disabled", "true",
                  "false", "other"}
Models == {"plain", "budget", "level"}      \* Gemini 2.0, 2.5 and 3
Filters == {"unset", "passthrough", "strip_mcp", "none", "unknown"}
ToolChoices == {"absent", "auto", "any", "none", "tool", "unnamed", "unknown"}
ToolNames == {"Read", "mcp__Read"}

FirstGiven(a, b) == IF a # "none" THEN a ELSE b

-----------------------------------------------------------------------------
(* Thinking.                                                               *)

NoReasoning == [on |-> FALSE, effort |-> "none"]
Reasoning(effort) == [on |-> TRUE, effort |-> effort]

Explicit(r) == r.thinking \notin {"absent", "malformed"} /\ r.effort # "none"

\* Faulty variant: a type that says disabled is an unknown type.
AskedEffortDisabled(r) ==
    CASE r.thinking = "absent" -> NoReasoning
      [] r.thinking = "malformed" -> Reasoning("medium")
      [] Explicit(r) -> Reasoning(r.effort)
      [] r.effort = "none" /\ r.thinking = "adaptive" -> Reasoning("none")
      [] r.effort = "none" /\ r.thinking = "false" -> NoReasoning
      [] OTHER -> Reasoning("medium")

\* translateReasoning: an effort, whatever the type says, asks for reasoning.
AskedEffort(r) ==
    CASE r.thinking = "absent" -> NoReasoning
      [] r.thinking = "malformed" -> Reasoning("medium")
      [] Explicit(r) -> Reasoning(r.effort)
      [] r.effort = "none" /\ r.thinking = "adaptive" -> Reasoning("none")
      [] r.effort = "none" /\ r.thinking \in {"disabled", "false"} -> NoReasoning
      [] r.effort = "none" /\ r.thinking \in {"enabled", "true", "other"} -> Reasoning("medium")

AccountEffort(r) == FirstGiven(r.thinkingEffort, r.reasoningEffort)

OpenAIReasoning(r) ==
    LET asked == AskedEffort(r)
    IN  CASE ~asked.on -> NoReasoning
          [] asked.on /\ Explicit(r) -> asked
          [] asked.on /\ ~Explicit(r) ->
                Reasoning(FirstGiven(AccountEffort(r), FirstGiven(asked.effort, "medium")))

\* parseThinkingRequest.
ThinkingEnabled(r) == r.thinking \notin {"absent", "disabled", "false"}
Adaptive(r) == r.thinking = "adaptive"

\* defaultThinkingBudget.
BudgetOf(effort) == CASE effort = "low" -> 1024 [] effort = "high" -> 8192 [] OTHER -> 4096

Positive(a, b) == IF a > 0 THEN a ELSE b

\* buildThinkingConfig; modelSupportsThinking and usesThinkingLevel are the model.
GeminiThinking(r) ==
    LET effort == FirstGiven(IF Explicit(r) THEN r.effort ELSE "none", AccountEffort(r))
        asked == Positive(IF r.thinking = "malformed" THEN 0 ELSE r.budget, r.accountBudget)
    IN  [on |-> ThinkingEnabled(r) /\ r.model # "plain",
         level |-> IF r.model # "level" THEN "none"
                   ELSE FirstGiven(effort, IF Adaptive(r) THEN "none" ELSE "high"),
         budget |-> IF r.model # "budget" THEN 0
                    ELSE Positive(asked, IF Adaptive(r) THEN 0 ELSE BudgetOf(effort))]

-----------------------------------------------------------------------------
(* Tools and tool_choice.                                                  *)

Mcp(t) == t = "mcp__Read"

OpenAITools(r) ==
    CASE r.filter = "none" -> {}
      [] r.filter = "strip_mcp" -> {t \in r.tools : ~Mcp(t)}
      [] OTHER -> r.tools

\* A filter that is neither strips MCP tools too.
GeminiTools(r) ==
    CASE r.filter = "none" -> {}
      [] r.filter \in {"unset", "passthrough"} -> r.tools
      [] OTHER -> {t \in r.tools : ~Mcp(t)}

\* What the model may and must call, in the provider's words.
OpenAIToolChoice(r) ==
    CASE r.choice \in {"auto", "none"} -> [mode |-> r.choice]
      [] r.choice \in {"any", "unnamed"} -> [mode |-> "required"]
      [] r.choice = "tool" -> [mode |-> "function", name |-> r.chosen]
      [] OTHER -> [mode |-> "absent"]

GeminiToolChoice(r) ==
    CASE r.choice = "auto" -> [mode |-> "AUTO", names |-> {}]
      [] r.choice = "none" -> [mode |-> "NONE", names |-> {}]
      [] r.choice \in {"any", "unnamed"} -> [mode |-> "ANY", names |-> {}]
      [] r.choice = "tool" -> [mode |-> "ANY", names |-> {r.chosen}]
      [] OTHER -> [mode |-> "absent", names |-> {}]

OpenAISettings(r) ==
    [reasoning |-> OpenAIReasoning(r), tools |-> OpenAITools(r), choice |-> OpenAIToolChoice(r)]
GeminiSettings(r) ==
    [thinking |-> GeminiThinking(r), tools |-> GeminiTools(r), choice |-> GeminiToolChoice(r)]

-----------------------------------------------------------------------------
(* Messages.                                                               *)

Block(kind, id, signature) == [kind |-> kind, id |-> id, signature |-> signature]

\* translateContentBlocks of OpenAI: texts side by side become one message,
\* and thinking is left out.
FlushText(s) ==
    IF s.texts = <<>> THEN s
    ELSE [out |-> Append(s.out, [type |-> "message", ids |-> s.texts]), texts |-> <<>>]

Push(s, item) == [s EXCEPT !.out = Append(@, item)]

\* Faulty variant: a call does not flush the texts before it.
OpenAIBlockUnflushed(s, b) ==
    CASE b.kind = "text" -> [s EXCEPT !.texts = Append(@, b.id)]
      [] b.kind = "tool" -> Push(s, [type |-> "function_call", ids |-> <<b.id>>])
      [] b.kind = "result" -> Push(FlushText(s), [type |-> "function_call_output", ids |-> <<b.id>>])
      [] b.kind = "thinking" -> s

OpenAIBlock(s, b) ==
    CASE b.kind = "text" -> [s EXCEPT !.texts = Append(@, b.id)]
      [] b.kind = "tool" -> Push(FlushText(s), [type |-> "function_call", ids |-> <<b.id>>])
      [] b.kind = "result" -> Push(FlushText(s), [type |-> "function_call_output", ids |-> <<b.id>>])
      [] b.kind = "thinking" -> s

OpenAIMessage(m) ==
    FlushText(FoldLeft(OpenAIBlock, [out |-> <<>>, texts |-> <<>>], m.blocks)).out

OpenAIInput(messages) == FlattenSeq([i \in DOMAIN messages |-> OpenAIMessage(messages[i])])

\* translateRawContent of Gemini: the signature of a thinking block goes with it,
\* and with the next call of the message.
Content(s, p) == [s EXCEPT !.out = Append(@, p)]
Piece(type, id, signature) == [type |-> type, id |-> id, signature |-> signature]

GeminiBlock(s, b) ==
    CASE b.kind = "text" -> Content(s, Piece("text", b.id, 0))
      [] b.kind = "tool" ->
            [Content(s, Piece("functionCall", b.id, s.pendingThoughtSignature))
                EXCEPT !.toolNameByID = @ \cup {b.id}, !.pendingThoughtSignature = 0]
      [] b.kind = "result" ->
            Content(s, Piece(IF b.id \in s.toolNameByID THEN "functionResponse"
                             ELSE "unknown_tool", b.id, 0))
      [] b.kind = "thinking" ->
            [Content(s, Piece("thought", b.id, b.signature))
                EXCEPT !.pendingThoughtSignature = IF b.signature > 0 THEN b.signature ELSE @]

\* Messages share the names of the tools called, and nothing else.
GeminiMessage(s, m) ==
    FoldLeft(GeminiBlock, [s EXCEPT !.pendingThoughtSignature = 0], m.blocks)

GeminiContents(messages) ==
    FoldLeft(GeminiMessage, [out |-> <<>>, pendingThoughtSignature |-> 0, toolNameByID |-> {}],
             messages).out
=============================================================================

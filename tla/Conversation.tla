----------------------------- MODULE Conversation -----------------------------
(****************************************************************************)
(* What a copilot tells the model: backend/src/agent/context.ts keeps the   *)
(* history of a chat, backend/src/copilot/copilotAgent.ts appends to it     *)
(* round by round, and once the provider counts too many tokens it has the  *)
(* oldest part replaced by a summary.                                       *)
(*                                                                          *)
(* A message is its role, the number of tool calls it makes and its tokens. *)
(* The provider of the model, which runs the tools, is external.            *)
(****************************************************************************)
EXTENDS Naturals, Sequences

CONSTANTS
    Weight,              \* what a message may count
    MaxCalls,            \* bound: tool calls of one answer
    ToolCallLimit,       \* COPILOT_MAX_TOOL_CALLS_PER_TURN
    RatioNum, RatioDen,  \* config.context_compress_ratio
    MaxLength            \* bound: messages of the history

VARIABLES
    history,     \* context.history
    pc,          \* where handleUserMessage is
    toolCalls,   \* toolCallCount
    final,       \* the round had no tool calls
    aborted      \* this.aborted

vars == <<history, pc, toolCalls, final, aborted>>

Message(role, calls, tokens) == [role |-> role, calls |-> calls, tokens |-> tokens]

Init == history = <<>> /\ pc = "idle" /\ toolCalls = 0 /\ final = FALSE /\ aborted = FALSE

----------------------------------------------------------------------------
(* compressContext, on the history without its system prompt. *)

\* tokenSums: sums[i] is what the first i messages count.
TokenSums(rest) ==
    LET sums[i \in 0..Len(rest)] == IF i = 0 THEN 0 ELSE sums[i - 1] + rest[i].tokens
    IN  sums

\* compressIndex: the first message up to which enough is counted.
CompressIndex(rest) ==
    LET sums   == TokenSums(rest)
        target == (sums[Len(rest)] * RatioNum) \div RatioDen
    IN  CHOOSE i \in DOMAIN rest : sums[i] >= target /\ \A k \in 1..(i - 1) : sums[k] < target

InSequence(message) == message.role = "tool" \/ message.calls > 0

\* findEndOfToolCallSequence, 0 for none: of a sequence that runs to the end
\* of the history the last message is left.
EndOfSequence(rest, start) ==
    LET after == {i \in start..Len(rest) : ~InSequence(rest[i])}
    IN  IF after = {} THEN Len(rest) - 1
        ELSE (CHOOSE i \in after : \A k \in after : i <= k) - 1

\* adjustForToolCallBoundary; no other role than these two comes after the prompt.
Boundary(rest) ==
    IF InSequence(rest[CompressIndex(rest)]) THEN EndOfSequence(rest, CompressIndex(rest)) ELSE CompressIndex(rest)

\* The summary takes the place of the messages up to the boundary.
Compressed(h, tokens) ==
    LET upTo == Boundary(Tail(h))
    IN  IF upTo = 0 THEN h
        ELSE <<Head(h), Message("assistant", 0, tokens)>> \o SubSeq(Tail(h), upTo + 1, Len(h) - 1)

----------------------------------------------------------------------------
(* handleUserMessage. *)

Room(n) == Len(history) + n <= MaxLength

\* The first message is preceded by the system prompt.
Asks ==
    /\ pc = "idle" /\ Room(2)
    /\ \E prompt, question \in Weight :
          history' = (IF history = <<>> THEN <<Message("system", 0, prompt)>> ELSE history)
                        \o <<Message("user", 0, question)>>
    /\ pc' = "top" /\ toolCalls' = 0 /\ aborted' = FALSE
    /\ UNCHANGED final

\* The top of the loop: chat is called, or the turn is over.
Calls ==
    /\ pc = "top"
    /\ pc' = IF aborted \/ toolCalls >= ToolCallLimit THEN "idle" ELSE "chats"
    /\ UNCHANGED <<history, toolCalls, final, aborted>>

\* The model called tools and the provider ran them all.
AnswersWithCalls(calls) ==
    /\ pc = "chats" /\ Room(calls + 1)
    /\ \E prompt, result \in Weight :
          history' = history \o <<Message("assistant", calls, prompt)>>
                             \o [i \in 1..calls |-> Message("tool", 0, result)]
    /\ toolCalls' = toolCalls + calls /\ final' = FALSE
    /\ pc' = "measures" /\ UNCHANGED aborted

\* The last answer, which may be empty.
Answers ==
    /\ pc = "chats" /\ Room(1)
    /\ \E tokens \in Weight : history' \in {history, Append(history, Message("assistant", 0, tokens))}
    /\ final' = TRUE /\ pc' = "measures"
    /\ UNCHANGED <<toolCalls, aborted>>

Goes == pc' = IF final \/ aborted THEN "idle" ELSE "top"

\* maybeCompressContext: the provider's count is within the limit, or not.
Keeps      == pc = "measures" /\ Goes /\ UNCHANGED <<history, toolCalls, final, aborted>>
Compresses ==
    /\ pc = "measures"
    /\ \E tokens \in Weight : history' = Compressed(history, tokens)
    /\ Goes /\ UNCHANGED <<toolCalls, final, aborted>>

\* chat or the summary fails: the turn is over.
Fails ==
    /\ pc \in {"chats", "measures"}
    /\ pc' = "idle" /\ UNCHANGED <<history, toolCalls, final, aborted>>

Aborts ==
    /\ pc # "idle" /\ ~aborted
    /\ aborted' = TRUE /\ UNCHANGED <<history, pc, toolCalls, final>>

Next ==
    \/ Asks \/ Calls \/ Answers \/ Keeps \/ Compresses \/ Fails \/ Aborts
    \/ \E calls \in 1..MaxCalls : AnswersWithCalls(calls)

Spec == Init /\ [][Next]_vars

----------------------------------------------------------------------------
(* Properties. *)

\* The result at i answers the calls at j.
Answer(h, i, j) ==
    /\ j < i /\ i - j <= h[j].calls
    /\ \A k \in (j + 1)..i : h[k].role = "tool"

\* The model is never given the result of a tool without the call it answers:
\* compression keeps tool call sequences complete.
PairedHistory ==
    pc = "chats" =>
        \A i \in DOMAIN history : history[i].role = "tool" => \E j \in DOMAIN history : Answer(history, i, j)
============================================================================

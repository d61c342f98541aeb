------------------------------ MODULE AgentTurn ------------------------------
(***************************************************************************)
(* One conversation of the agent, turn after turn: load_history, the model *)
(* and tool loop, the second pass with the deep model, persist_turn.       *)
(* Whenever the history is over MaxTokens, ContextCompaction selects what  *)
(* stays; a summary of the rest is put in front.                           *)
(*                                                                         *)
(* The cache holds the window the next prompt starts from; the turn store  *)
(* holds whole turns and survives a restart.  Here turns come one after    *)
(* another; Conversations has concurrent turns and several branches.       *)
(***************************************************************************)
EXTENDS ContextCompaction, SequencesExt

CONSTANTS
    ToolSize,       \* size of the result of each call; other messages have size 1
    MaxTokens,      \* MAX_HISTORY_TOKENS; Budget leaves room for the summary
    SummarySize,    \* size of the summary
    HydrateLimit,   \* HYDRATE_TURN_LIMIT
    MaxRounds,      \* model calls of a pass
    MaxCalls,       \* tool calls in one completion (a bound)
    MaxTurns        \* turns of a behaviour (a bound)

ASSUME TurnAssumption ==
    /\ ToolSize \in [1..MaxCalls -> Nat] /\ SummarySize \in Nat
    /\ MaxTokens \in Nat /\ Budget + SummarySize <= MaxTokens
    /\ HydrateLimit \in Nat \ {0} /\ MaxRounds \in Nat \ {0}
    /\ MaxCalls \in Nat /\ MaxTurns \in Nat

VARIABLES
    store,      \* the turns of the conversation in the turn store
    cache,      \* conversation_history
    pc,         \* what the agent is doing
    snapshot,   \* history_snapshot, the history this turn's prompts start with
    fresh,      \* the messages of this turn so far, messages[start..]
    round,      \* completions of this pass that asked for tools
    reply,      \* what the pass ended with
    standard,   \* outcome of the first pass while the deep model runs
    turns       \* turns begun

turnVars == <<snapshot, fresh, round, reply, standard>>
vars == <<selection, store, cache, pc, turnVars, turns>>

User == [role |-> "user", calls |-> 0, call |-> 0, size |-> 1]
Answer == [role |-> "assistant", calls |-> 0, call |-> 0, size |-> 1]
ToolCalls(n) == [role |-> "assistant", calls |-> n, call |-> 0, size |-> 1]
ToolResult(k) == [role |-> "tool", calls |-> 0, call |-> k, size |-> ToolSize[k]]
Summary == [role |-> "system", calls |-> 0, call |-> 0, size |-> SummarySize]

Fits(m) == SizeOf(m, DOMAIN m) <= MaxTokens

\* The k-th of the kept messages, oldest first.
KeptAt(k) == CHOOSE i \in kept : Cardinality({j \in kept : j <= i}) = k

\* The kept messages in their old order, behind the summary of the dropped ones.
Compacted ==
    IF kept = DOMAIN msgs THEN msgs
    ELSE <<Summary>> \o [k \in 1..Cardinality(kept) |-> msgs[KeptAt(k)]]

AgentInit ==
    /\ Init
    /\ store = <<>> /\ cache = <<>>
    /\ pc = "idle" /\ turns = 0
    /\ snapshot = <<>> /\ fresh = <<>> /\ round = 0
    /\ reply = "none" /\ standard = <<>>

\* A message arrives.
Hear ==
    /\ pc = "idle" /\ turns < MaxTurns
    /\ turns' = turns + 1
    /\ pc' = "load"
    /\ fresh' = <<User>> /\ round' = 0 /\ reply' = "none" /\ standard' = <<>>
    /\ UNCHANGED <<selection, store, cache, snapshot>>

\* Mutant: the limit counts messages instead of turns.
LastMessages ==
    LET all == FlattenSeq(store)
    IN  <<SubSeq(all, Max({1, Len(all) - 2 * HydrateLimit + 1}), Len(all))>>

LastTurns == SubSeq(store, Max({1, Len(store) - HydrateLimit + 1}), Len(store))

\* load_history: the cache, or else the last turns of the store, which fill it.
Load ==
    LET history == IF cache # <<>> THEN cache ELSE FlattenSeq(LastTurns)
    IN  /\ pc = "load"
        /\ cache' = history
        /\ \/ /\ Fits(history)
              /\ snapshot' = history /\ pc' = "model"
              /\ UNCHANGED selection
           \/ /\ ~Fits(history) /\ Select(history)
              /\ pc' = "viewing"
              /\ UNCHANGED snapshot
        /\ UNCHANGED <<store, fresh, round, reply, standard, turns>>

\* The store cannot be read: the turn goes on without the history.
LoadFails ==
    /\ pc = "load" /\ cache = <<>>
    /\ snapshot' = <<>> /\ pc' = "model"
    /\ UNCHANGED <<selection, store, cache, fresh, round, reply, standard, turns>>

\* The prompt is compacted, the cache is not.
View ==
    /\ pc = "viewing" /\ stage = "done"
    /\ snapshot' = Compacted
    /\ Leave
    /\ pc' = "model"
    /\ UNCHANGED <<store, cache, fresh, round, reply, standard, turns>>

-----------------------------------------------------------------------------
(* run_model_loop                                                          *)

keptVars == <<selection, store, cache, snapshot, turns>>

\* The pass ends.  An answer of low confidence makes the deep model start over
\* from the same history; what that pass ends with is final.
EndPass(messages, r) ==
    \/ /\ fresh' = messages /\ reply' = r
       /\ standard' = <<>> /\ pc' = "persist"
       /\ UNCHANGED round
    \/ /\ r = "text" /\ standard = <<>>
       /\ standard' = messages
       /\ fresh' = <<Head(messages)>> /\ round' = 0
       /\ pc' = "model"
       /\ UNCHANGED reply

\* The model asks for n tools.
CallTools(n) ==
    /\ pc = "model"
    /\ fresh' = Append(fresh, ToolCalls(n))
    /\ pc' = "tools"
    /\ UNCHANGED <<keptVars, round, reply, standard>>

\* The assistant message whose tools are run, and how many of them have answered.
Caller == Max({a \in DOMAIN fresh : IssuesCalls(fresh, a)})
Answered == Len(fresh) - Caller

\* Mutant: the model is called once too often.
RunToolOnceMore ==
    LET results == Append(fresh, ToolResult(Answered + 1))
    IN  /\ pc = "tools"
        /\ IF Answered + 1 < fresh[Caller].calls
           THEN fresh' = results /\ UNCHANGED <<pc, round, reply, standard>>
           ELSE IF round < MaxRounds
           THEN /\ fresh' = results /\ round' = round + 1
                /\ pc' = "model"
                /\ UNCHANGED <<reply, standard>>
           ELSE EndPass(results, "no response")
        /\ UNCHANGED keptVars

\* One tool is run, or a hook blocks it: either way its call gets a result.
RunTool ==
    LET results == Append(fresh, ToolResult(Answered + 1))
    IN  /\ pc = "tools"
        /\ IF Answered + 1 < fresh[Caller].calls
           THEN fresh' = results /\ UNCHANGED <<pc, round, reply, standard>>
           ELSE IF round + 1 < MaxRounds
           THEN /\ fresh' = results /\ round' = round + 1
                /\ pc' = "model"
                /\ UNCHANGED <<reply, standard>>
           ELSE EndPass(results, "no response")
        /\ UNCHANGED keptVars

Reply ==
    /\ pc = "model"
    /\ EndPass(Append(fresh, Answer), "text")
    /\ UNCHANGED keptVars

\* Neither text nor tool calls.
ReplyEmpty ==
    /\ pc = "model"
    /\ EndPass(fresh, "empty")
    /\ UNCHANGED keptVars

\* A model error, or a hook that blocks the message or the model call: the turn is
\* answered with the error and forgotten, tools it has run or not.
Fail ==
    /\ pc = "model" /\ standard = <<>>
    /\ pc' = "idle"
    /\ snapshot' = <<>> /\ fresh' = <<>> /\ round' = 0
    /\ UNCHANGED <<selection, store, cache, turns, reply, standard>>

\* Mutant: the failed deep pass leaves its messages behind.
FailDeepKeeping ==
    /\ pc = "model" /\ standard # <<>>
    /\ reply' = "text" /\ standard' = <<>>
    /\ pc' = "persist"
    /\ UNCHANGED <<keptVars, fresh, round>>

\* The deep model failed: the first pass stands.
FailDeep ==
    /\ pc = "model" /\ standard # <<>>
    /\ fresh' = standard /\ reply' = "text" /\ standard' = <<>>
    /\ pc' = "persist"
    /\ UNCHANGED <<keptVars, round>>

-----------------------------------------------------------------------------
(* persist_turn                                                            *)

Persist ==
    LET window == cache \o fresh
    IN  /\ pc = "persist"
        /\ \/ /\ Fits(window)
              /\ cache' = window /\ pc' = "insert"
              /\ UNCHANGED selection
           \/ /\ ~Fits(window) /\ Select(window)
              /\ pc' = "compacting"
              /\ UNCHANGED cache
        /\ UNCHANGED <<store, turnVars, turns>>

Compact ==
    /\ pc = "compacting" /\ stage = "done"
    /\ cache' = Compacted
    /\ Leave
    /\ pc' = "insert"
    /\ UNCHANGED <<store, turnVars, turns>>

\* insert_turn, whose failure is only logged; then the reply is sent.
Insert ==
    /\ pc = "insert"
    /\ store' \in {store, Append(store, fresh)}
    /\ pc' = "idle"
    /\ snapshot' = <<>> /\ fresh' = <<>> /\ round' = 0 /\ reply' = "none" /\ standard' = <<>>
    /\ UNCHANGED <<selection, cache, turns>>

Restart ==
    /\ pc' = "idle"
    /\ cache' = <<>> /\ Leave
    /\ snapshot' = <<>> /\ fresh' = <<>> /\ round' = 0 /\ reply' = "none" /\ standard' = <<>>
    /\ UNCHANGED <<store, turns>>

ModelLoop ==
    \/ \E n \in 1..MaxCalls : CallTools(n)
    \/ RunTool \/ Reply \/ ReplyEmpty \/ Fail \/ FailDeep

AgentNext ==
    \/ Hear \/ Load \/ LoadFails \/ View \/ ModelLoop
    \/ Persist \/ Compact \/ Insert
    \/ Fill /\ UNCHANGED <<store, cache, pc, turnVars, turns>>
    \/ Restart

AgentSpec == AgentInit /\ [][AgentNext]_vars

-----------------------------------------------------------------------------
AgentTypeOK ==
    /\ TypeOK
    /\ store \in Seq(Seq(Messages)) /\ cache \in Seq(Messages)
    /\ snapshot \in Seq(Messages) /\ fresh \in Seq(Messages) /\ standard \in Seq(Messages)
    /\ pc \in {"idle", "load", "viewing", "model", "tools", "persist", "compacting", "insert"}
    /\ round \in 0..(MaxRounds - 1) /\ turns \in 0..MaxTurns
    /\ reply \in {"none", "text", "empty", "no response"}

\* Behind an assistant message with calls and results of earlier calls of it.
AnswersItsCall(m, i) ==
    \E a \in 1..(i - 1) :
        /\ IssuesCalls(m, a) /\ m[i].call <= m[a].calls
        /\ \A k \in (a + 1)..(i - 1) : m[k].role = "tool" /\ m[k].call < m[i].call

\* However often the history was compacted and read back from the store, every tool
\* result the model is shown stands behind the assistant message that called the tool.
PromptHasNoOrphans ==
    pc = "model" =>
        LET prompt == snapshot \o fresh
        IN  \A i \in DOMAIN prompt : prompt[i].role = "tool" => AnswersItsCall(prompt, i)

\* Before the model is called again and before the turn is kept, every tool call of
\* the turn has its result, in order, whether the tool ran or was blocked; and the
\* turn that is kept is the one that is answered: it ends with the model's reply, if
\* there is one, whichever of the two models gave it.
TurnIsWhole ==
    /\ pc \in {"model", "persist"} =>
          \A a \in DOMAIN fresh : IssuesCalls(fresh, a) =>
              \A k \in 1..fresh[a].calls :
                  a + k \in DOMAIN fresh /\ fresh[a + k] = ToolResult(k)
    /\ pc = "persist" => (reply = "text" <=> Last(fresh) = Answer)
=============================================================================

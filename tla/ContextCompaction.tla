-------------------------- MODULE ContextCompaction --------------------------
(***************************************************************************)
(* select_by_importance: which messages of a history stay in the window    *)
(* when it is over the token budget.  The newest message always stays.     *)
(* Then the candidates are walked in descending score, a tool message and  *)
(* the assistant message that called the tool together, up to the first    *)
(* that does not fit.                                                      *)
(*                                                                         *)
(* The scores (recency, role, content, embedding) may be any numbers.      *)
(* A size stands for the number of tokens of a message.                    *)
(***************************************************************************)
EXTENDS Integers, Sequences, Functions

CONSTANTS
    Scores,     \* what score_message_importance may return
    Budget      \* budget_tokens

ASSUME CompactionAssumption == Scores \subseteq Int /\ Budget \in Nat

Messages ==
    [role : {"system", "user", "assistant", "tool"},
     calls : Nat,       \* tool calls of an assistant message
     call : Nat,        \* which of its assistant's calls a tool message answers
     size : Nat]

VARIABLES
    msgs,       \* the messages to choose from, oldest first
    score,      \* the score of each candidate
    kept,       \* those that stay
    keptTokens, \* their tokens
    todo,       \* candidates that are still to be visited
    stage       \* where the selection is

selection == <<msgs, score, kept, keptTokens, todo, stage>>

IssuesCalls(m, a) == m[a].role = "assistant" /\ m[a].calls > 0

\* The nearest earlier assistant message with tool calls, if i is a tool message.
Parent(m, i) ==
    {a \in 1..(i - 1) :
        /\ m[i].role = "tool" /\ IssuesCalls(m, a)
        /\ \A b \in (a + 1)..(i - 1) : ~IssuesCalls(m, b)}

Results(m, a) == {i \in DOMAIN m : a \in Parent(m, i)}

\* What has to be added together with i: for an assistant message only the first result.
Partner(m, i) ==
    IF m[i].role = "tool" THEN Parent(m, i)
    ELSE {r \in Results(m, i) : \A s \in Results(m, i) : r <= s}

Mandatory(m) == {Len(m)} \cup Partner(m, Len(m))

\* The tokens of i and of its partner, unless that is in K already.
PairSize(m, i, K) ==
    m[i].size + IF Partner(m, i) \subseteq K THEN 0
                ELSE m[CHOOSE p \in Partner(m, i) : p \notin K].size

SizeOf(m, S) == SumFunctionOnSet([i \in DOMAIN m |-> m[i].size], S)

TypeOK ==
    /\ msgs \in Seq(Messages)
    /\ msgs # <<>> => score \in [DOMAIN msgs \ Mandatory(msgs) -> Scores]
    /\ kept \subseteq DOMAIN msgs /\ todo \subseteq DOMAIN msgs
    /\ keptTokens \in Int
    /\ stage \in {"idle", "filling", "done"}

Init ==
    /\ msgs = <<>> /\ score = <<>>
    /\ kept = {} /\ keptTokens = 0 /\ todo = {}
    /\ stage = "idle"

Select(m) ==
    /\ stage = "idle"
    /\ m \in Seq(Messages) /\ m # <<>>
    /\ SizeOf(m, DOMAIN m) > Budget
    /\ msgs' = m
    /\ score' \in [DOMAIN m \ Mandatory(m) -> Scores]
    /\ kept' = Mandatory(m)
    /\ keptTokens' = PairSize(m, Len(m), {})
    /\ todo' = DOMAIN m \ Mandatory(m)
    /\ stage' = "filling"

\* The order of the walk: descending score, the more recent first.
Before(i, j) == score[i] > score[j] \/ (score[i] = score[j] /\ i > j)

Best(i) == i \in todo /\ \A j \in todo \ {i} : Before(i, j)

Added(i) == {i} \cup (Partner(msgs, i) \ kept)

Cost(i) == PairSize(msgs, i, kept)

\* Mutant: the walk goes on with messages of lower value that still fit.
BackFill ==
    /\ stage = "filling"
    /\ \E i \in todo :
          /\ Best(i) /\ i \notin kept
          /\ keptTokens + Cost(i) > Budget
          /\ todo' = todo \ {i}
    /\ UNCHANGED <<msgs, score, kept, keptTokens, stage>>

\* Mutant: the budget is compared with the tokens kept before the message is added.
VisitLate(i) ==
    /\ stage = "filling" /\ Best(i) /\ i \notin kept
    /\ keptTokens <= Budget
    /\ kept' = kept \cup Added(i)
    /\ keptTokens' = keptTokens + Cost(i)
    /\ todo' = todo \ {i}
    /\ UNCHANGED <<msgs, score, stage>>

Visit(i) ==
    /\ stage = "filling" /\ Best(i)
    /\ \/ i \in kept /\ UNCHANGED <<kept, keptTokens>>
       \/ /\ i \notin kept
          /\ keptTokens + Cost(i) <= Budget
          /\ kept' = kept \cup Added(i)
          /\ keptTokens' = keptTokens + Cost(i)
    /\ todo' = todo \ {i}
    /\ UNCHANGED <<msgs, score, stage>>

\* No candidate is left, or the first one that does not fit ends the walk.
Stop ==
    /\ stage = "filling"
    /\ \A i \in todo : Best(i) => i \notin kept /\ keptTokens + Cost(i) > Budget
    /\ stage' = "done"
    /\ UNCHANGED <<msgs, score, kept, keptTokens, todo>>

Fill == Stop \/ \E i \in todo : Visit(i)

\* The caller has taken the plan, or is gone.
Leave ==
    /\ msgs' = <<>> /\ score' = <<>>
    /\ kept' = {} /\ keptTokens' = 0 /\ todo' = {}
    /\ stage' = "idle"

Next == Fill \/ Leave \/ Select(msgs')

Spec == Init /\ [][Next]_selection

-----------------------------------------------------------------------------
\* A tool result only stays together with the assistant message it answers:
\* the model never sees a result without its call.
ResultsKeepTheirCall ==
    \A i \in kept : Parent(msgs, i) \subseteq kept

\* The walk counts what it keeps, a pair together and none of it twice; what is kept
\* is over the budget only if it is no more than what must be kept.
KeptFits ==
    /\ keptTokens = SizeOf(msgs, kept)
    /\ keptTokens > Budget => kept = Mandatory(msgs)

\* A dropped message is never worth more than one that was kept on its merits:
\* whatever is neither mandatory nor the partner of such a message.
ValueThreshold ==
    stage # "idle" =>
        \A i \in kept \ Mandatory(msgs), j \in DOMAIN msgs \ kept :
            \/ Before(i, j)
            \/ \E k \in kept \ Mandatory(msgs) : i \in Partner(msgs, k) /\ Before(k, j)

\* headroom.rs, select_by_importance: tool/assistant pairs are never split, which
\* would break the function-calling contract of the model.
PairsStayWhole ==
    stage = "done" => \A a \in kept : Results(msgs, a) \subseteq kept
=============================================================================

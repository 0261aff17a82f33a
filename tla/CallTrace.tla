------------------------------ MODULE CallTrace ------------------------------
(***************************************************************************)
(* One transaction as it is executed: process_message starts the top level *)
(* instructions one after the other, the programs call each other, and the *)
(* runtime leaves two records of it, the instruction trace and the log     *)
(* lines.  The log collector may lose lines.  CpiTree reads both records.  *)
(*                                                                         *)
(* How programs are run is the runtime's business (external): which lines  *)
(* it writes and when, that only BPF programs report compute units, that   *)
(* precompiles write no line, that a failing callee fails its caller.      *)
(***************************************************************************)
EXTENDS CpiTree

CONSTANTS
    Bpf, Native, Precompile,   \* the programs of a message, by kind
    Batches,                   \* the messages: sequences of programs
    Budget,                    \* compute units of a transaction
    MaxCalls, MaxHeight,       \* calls in a transaction, and their depth
    Chatter, MaxChatter,       \* lines a program writes, and how many
    MaxSkipped,                \* single lines the collector may lose, by message
    ForeignLines, MaxForeign   \* log lines from elsewhere, and how many

VARIABLES
    message,      \* the programs of the top level instructions
    next,         \* the top level instruction to start next
    result,       \* "ok" so far, or "failed" (at instruction `next')
    accumulated_consumed_units,
    meter,        \* compute units left
    trace,        \* the instruction trace
    calls,        \* the running instructions: trace index, units at the start
    failing,      \* a callee failed: its callers are failing too
    frames,       \* what was really invoked, in order
    collector,    \* log lines; whether the rest is cut off; lines skipped
    chatter       \* lines programs have written so far

vars == <<message, next, result, accumulated_consumed_units, meter, trace,
          calls, failing, frames, collector, chatter>>

\* Each instruction uses one unit for itself.
Cost == 1

(***************************************************************************)
(* The log collector keeps a line, loses this one, or has reached its      *)
(* limit and loses this and every later one.                               *)
(***************************************************************************)
Collections(c, line) ==
    IF c.cut THEN {c}
    ELSE {[c EXCEPT !.logs = Append(@, line)],
          [c EXCEPT !.logs = Append(@, Line("other", "Log truncated", {})),
                    !.cut = TRUE]}
         \cup (IF c.skipped < MaxSkipped[message]
               THEN {[c EXCEPT !.skipped = @ + 1]} ELSE {})

CollectionsOf(c, lines) ==
    FoldLeft(LAMBDA cs, line : UNION {Collections(d, line) : d \in cs},
             {c}, lines)

Init ==
    /\ message \in Batches
    /\ next = 1 /\ result = "ok" /\ accumulated_consumed_units = 0
    /\ meter = Budget
    \* prepare_top_level_instructions configures all of them
    /\ trace = [i \in DOMAIN message |->
                   [program |-> message[i], height |-> 1, caller |-> 0]]
    /\ calls = <<>> /\ failing = FALSE /\ frames = <<>> /\ chatter = 0
    /\ collector = [logs |-> <<>>, cut |-> FALSE, skipped |-> 0]

\* Instruction i of the trace starts at height h.
Begin(i, p, h) ==
    /\ calls' = Append(calls, [index |-> i, frame |-> Len(frames) + 1,
                               start |-> meter])
    /\ meter' = meter - Cost
    /\ frames' = Append(frames, [program |-> p, height |-> h,
                                 outcome |-> "Truncated", units |-> {}])
    /\ collector' \in CollectionsOf(collector, <<Line("invoke", p, {h})>>)

StartInstruction ==
    /\ result = "ok" /\ calls = <<>> /\ next \in DOMAIN message
    /\ message[next] \notin Precompile
    /\ Begin(next, message[next], 1)
    /\ UNCHANGED <<message, next, result, accumulated_consumed_units, trace,
                   failing, chatter>>

\* A precompile is verified without a frame, and costs nothing.
ProcessPrecompile ==
    /\ result = "ok" /\ calls = <<>> /\ next \in DOMAIN message
    /\ message[next] \in Precompile
    /\ \/ next' = next + 1 /\ UNCHANGED result
       \/ result' = "failed" /\ UNCHANGED next
    /\ UNCHANGED <<message, accumulated_consumed_units, meter, trace, calls,
                   failing, frames, collector, chatter>>

Running == trace[Last(calls).index].program

Call(p) ==
    /\ calls # <<>> /\ ~failing /\ Running \in Bpf
    /\ Len(trace) < Len(message) + MaxCalls /\ Len(calls) < MaxHeight
    /\ trace' = Append(trace, [program |-> p, height |-> Len(calls) + 1,
                               caller |-> Last(calls).index])
    /\ Begin(Len(trace) + 1, p, Len(calls) + 1)
    /\ UNCHANGED <<message, next, result, accumulated_consumed_units, failing,
                   chatter>>

Write(line) ==
    /\ calls # <<>> /\ ~failing /\ Running \in Bpf /\ chatter < MaxChatter
    /\ collector' \in CollectionsOf(collector, <<line>>)
    /\ chatter' = chatter + 1
    /\ UNCHANGED <<message, next, result, accumulated_consumed_units, meter,
                   trace, calls, failing, frames>>

\* The lines at the end of the running instruction.
Closing(outcome) ==
    LET used == Last(calls).start - meter
    IN  (IF Running \in Bpf
         THEN <<Line("consumed", Running,
                     {[consumed |-> used,
                       available_at_start |-> Last(calls).start]})>>
         ELSE <<>>)
        \o <<IF outcome = "Success" THEN Line("success", Running, {})
             ELSE Line("failed", Running, {"error"})>>

End(outcome) ==
    LET used == Last(calls).start - meter
    IN  /\ failing => outcome = "Failed"
        /\ calls' = Front(calls)
        /\ frames' = [frames EXCEPT
                        ![Last(calls).frame].outcome = outcome,
                        ![Last(calls).frame].units =
                            IF Running \in Bpf
                            THEN {[consumed |-> used,
                                   available_at_start |-> Last(calls).start]}
                            ELSE {}]
        /\ collector' \in CollectionsOf(collector, Closing(outcome))
        /\ UNCHANGED <<message, meter, trace, chatter>>

Return(outcome) ==
    /\ Len(calls) > 1 /\ End(outcome)
    /\ failing' = (outcome = "Failed")
    /\ UNCHANGED <<next, result, accumulated_consumed_units>>

\* process_message counts the units of an instruction also when it fails,
\* and stops at the first that does.
FinishInstruction(outcome) ==
    /\ Len(calls) = 1 /\ End(outcome)
    /\ accumulated_consumed_units' =
           accumulated_consumed_units + (Last(calls).start - meter)
    /\ failing' = FALSE
    /\ IF outcome = "Failed" THEN result' = "failed" /\ UNCHANGED next
                             ELSE next' = next + 1 /\ UNCHANGED result

\* cpi_tree is public: its lines may come from anywhere.
Foreign(line) ==
    /\ message = <<>> /\ Len(collector.logs) < MaxForeign
    /\ collector' = [collector EXCEPT !.logs = Append(@, line)]
    /\ UNCHANGED <<message, next, result, accumulated_consumed_units, meter,
                   trace, calls, failing, frames, chatter>>

Next ==
    \/ StartInstruction \/ ProcessPrecompile
    \/ \E p \in Bpf \cup Native : Call(p)
    \/ \E line \in Chatter : Write(line)
    \/ \E outcome \in {"Success", "Failed"} :
          Return(outcome) \/ FinishInstruction(outcome)
    \/ \E line \in ForeignLines : Foreign(line)

Spec == Init /\ [][Next]_vars

Tree == cpi_tree(collector.logs)
LogIsComplete == ~collector.cut /\ collector.skipped = 0

(***************************************************************************)
(* For any lines whatsoever, lost, foreign or malformed ones included, the *)
(* automaton of cpi_tree builds the frames the lines describe: one frame   *)
(* per well-formed invoke, in order, nested by the brackets, closed by its *)
(* own bracket, holding exactly the lines written while it was innermost.  *)
(***************************************************************************)
TreeIsWhatTheLogsSay ==
    LET described == FramesOf(collector.logs)
        preorder == Flatten(Tree, 1)
    IN  /\ Len(preorder) = Len(described)
        /\ \A i \in DOMAIN described :
              LET f == preorder[i].frame
              IN  described[i] =
                    [program_id |-> f.program_id, outcome |-> f.outcome,
                     compute_units |-> f.compute_units,
                     instruction_name |-> f.instruction_name,
                     logs |-> f.logs, depth |-> preorder[i].depth]

(***************************************************************************)
(* If the collector loses nothing but the end of the log, the tree is the  *)
(* execution as far as the log goes: frames, nesting, and no frame shown   *)
(* with an outcome it did not have; Truncated exactly where the outcome    *)
(* was lost or is not known yet.                                           *)
(***************************************************************************)
TreeIsTheExecution ==
    collector.skipped = 0 /\ message # <<>> =>
      LET preorder == Flatten(Tree, 1)
      IN
        /\ Len(preorder) <= Len(frames)
        /\ ~collector.cut => Len(preorder) = Len(frames)
        /\ \A i \in DOMAIN preorder :
              LET f == preorder[i].frame
              IN  /\ f.program_id = frames[i].program
                  /\ preorder[i].depth = frames[i].height
                  /\ f.outcome.is \in {"Truncated", frames[i].outcome}
                  /\ f.compute_units \in {{}, frames[i].units}
                  /\ ~collector.cut =>
                        /\ f.outcome.is = frames[i].outcome
                        /\ f.compute_units = frames[i].units

(***************************************************************************)
(* The two records of one execution agree: the inner instructions listed   *)
(* for a top level instruction are the frames below its root in the CPI    *)
(* tree, in the same order and at the same depths.  Precompiles have an    *)
(* entry in the trace and no root.                                         *)
(***************************************************************************)
InnerInstructionsAreTheTree ==
    LET roots == SelectSeq([i \in DOMAIN message |-> i],
                           LAMBDA i : message[i] \notin Precompile)
        inner == inner_instructions_list(trace)
        tree == Tree
    IN  LogIsComplete /\ message # <<>> =>
          /\ Len(inner) = Len(message)
          /\ \A r \in DOMAIN tree :
                LET below == Flatten(tree[r].children, 2)
                IN  inner[roots[r]] =
                      [i \in DOMAIN below |->
                         [program |-> below[i].frame.program_id,
                          stack_height |-> IF below[i].depth > U8Max THEN U8Max
                                           ELSE below[i].depth]]

(***************************************************************************)
(* The units of the CPI tree's header and those of the transaction's       *)
(* metadata differ by exactly the top level native instructions, which     *)
(* report none, whether or not the transaction failed.                     *)
(***************************************************************************)
UnitsDifferByTheNativeOnes ==
    LET native == {i \in DOMAIN frames : frames[i].height = 1
                                          /\ frames[i].program \in Native}
        first == {i \in DOMAIN frames : frames[i].height = 1
                                         /\ frames[i].program \in Bpf}
    IN  LogIsComplete /\ calls = <<>> /\ message # <<>> =>
          IF first = {}
          THEN /\ transaction_total_cu(Tree) = {}
               /\ accumulated_consumed_units = Cardinality(native) * Cost
          ELSE /\ transaction_total_cu(Tree) =
                    {accumulated_consumed_units - Cardinality(native) * Cost}
               /\ transaction_compute_budget(Tree) =
                    {Budget - Cardinality({i \in native : i < Min(first)}) * Cost}

(***************************************************************************)
(* The box art can be read back: a bar goes on downwards exactly where a   *)
(* later frame hangs on it, with no frame further to the left in between.  *)
(* (write_frame passes the prefix down and avoids a dangling bar.)         *)
(***************************************************************************)
BarsLeadToFrames ==
    LET rows == format_cpi_tree(Tree)
        hangs(i, l) ==
            \E j \in i+1..Len(rows) :
                /\ rows[j].is_frame /\ Len(rows[j].bars) = l
                /\ \A k \in i+1..j-1 : rows[k].is_frame => Len(rows[k].bars) >= l
    IN  \A i \in DOMAIN rows : \A l \in DOMAIN rows[i].bars :
            rows[i].bars[l] <=> hangs(i, l)
=============================================================================

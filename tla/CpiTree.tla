------------------------------- MODULE CpiTree -------------------------------
(***************************************************************************)
(* The CPI tree that crates/cpi-tree reads from a transaction's log lines  *)
(* and the inner instructions that litesvm reads from the runtime's        *)
(* instruction trace.  Both are pure functions of a sequence.              *)
(*                                                                         *)
(* A log line is a record of what the lexer looks at: its form, the name   *)
(* between "Program" and the keyword, and the payload (the depth of an     *)
(* invoke, the message of a failure, the units consumed).  An absent value *)
(* is the empty set, a present one a singleton; an invoke or a consumed    *)
(* line without payload is one whose bracket or numbers do not parse.      *)
(***************************************************************************)
EXTENDS Integers, FiniteSets, Sequences, SequencesExt

CONSTANTS
    Address,      \* names that parse as a program id
    U8Max         \* largest stack height an inner instruction can carry

Line(form, name, payload) == [form |-> form, name |-> name, payload |-> payload]

(***************************************************************************)
(* The lexer: what a line is to the automaton.                             *)
(***************************************************************************)
ParseDepthDigit(line) == line.payload # {} /\ \A k \in line.payload : k < 3

parse_depth_bracket(line) == line.payload # {}

classify(line) ==
    IF \/ line.form = "invoke" /\ ~parse_depth_bracket(line)
       \/ line.form = "consumed" /\ line.payload = {}
    THEN "other" ELSE line.form

Statuses == {"success", "failed"}
Messages == {"log", "other"}

(***************************************************************************)
(* The pushdown automaton: a stack of open frames and the closed roots.    *)
(***************************************************************************)
CpiFrame(p) ==
    [program_id |-> p, outcome |-> [is |-> "Truncated", message |-> {}],
     compute_units |-> {}, instruction_name |-> {}, logs |-> <<>>,
     children |-> <<>>]

push_into_parent_or_roots(frame, stack, roots) ==
    IF stack = <<>>
    THEN [stack |-> stack, roots |-> Append(roots, frame)]
    ELSE [stack |-> [stack EXCEPT ![Len(stack)].children = Append(@, frame)],
          roots |-> roots]

Pop(pda, outcome) ==
    push_into_parent_or_roots([Last(pda.stack) EXCEPT !.outcome = outcome],
                              Front(pda.stack), pda.roots)

NameFrameClearing(frame, name) ==
    [frame EXCEPT !.logs = <<>>,
                  !.instruction_name = IF @ = {} THEN {name} ELSE @]

\* An Instruction line drops the messages so far, keeps the data, and names
\* the frame unless it has a name.
NameFrame(frame, name) ==
    [frame EXCEPT !.logs = SelectSeq(@, LAMBDA entry : entry.is = "Data"),
                  !.instruction_name = IF @ = {} THEN {name} ELSE @]

MutateTop(frame, line) ==
    CASE classify(line) = "instruction" -> NameFrame(frame, line.name)
      [] classify(line) = "data"     ->
            [frame EXCEPT !.logs = Append(@, [is |-> "Data", text |-> line.name])]
      [] classify(line) = "consumed" ->
            [frame EXCEPT !.compute_units = line.payload]
      [] classify(line) \in Messages ->
            [frame EXCEPT !.logs = Append(@, [is |-> "Msg", text |-> line.name])]

\* A status closes the frame on top, whatever program its line names.
Transition(pda, line) ==
    CASE classify(line) = "invoke" ->
            IF line.name \in Address
            THEN [pda EXCEPT !.stack = Append(@, CpiFrame(line.name))]
            ELSE pda
      [] classify(line) # "invoke" /\ pda.stack = <<>> -> pda
      [] classify(line) = "success" /\ pda.stack # <<>> ->
            Pop(pda, [is |-> "Success", message |-> {}])
      [] classify(line) = "failed" /\ pda.stack # <<>> ->
            Pop(pda, [is |-> "Failed", message |-> line.payload])
      [] OTHER ->
            [pda EXCEPT !.stack[Len(pda.stack)] = MutateTop(@, line)]

\* The end of the logs: every open frame is popped as it is.
Drain(pda) ==
    FoldLeft(LAMBDA rest, frame : Pop(rest, Last(rest.stack).outcome),
             pda, pda.stack)

cpi_tree(logs) ==
    LET pda[i \in 0..Len(logs)] ==
            IF i = 0 THEN [stack |-> <<>>, roots |-> <<>>]
            ELSE Transition(pda[i - 1], logs[i])
    IN  Drain(pda[Len(logs)]).roots

(***************************************************************************)
(* Compute units of a transaction: only the roots count, because a frame's *)
(* units include those of its callees.                                     *)
(***************************************************************************)
Metered(frames) == SelectSeq(frames, LAMBDA f : f.compute_units # {})

Units(frame) == CHOOSE cu \in frame.compute_units : TRUE

RECURSIVE Flatten(_, _)
Flatten(frames, depth) ==
    FoldLeft(LAMBDA seen, f : seen \o <<[frame |-> f, depth |-> depth]>>
                                   \o Flatten(f.children, depth + 1),
             <<>>, frames)

SumConsumed(frames) ==
    FoldLeft(LAMBDA sum, f : sum + Units(f).consumed, 0, frames)

\* A plausible slip: the units of the last root only.
transaction_total_cu_last(frames) ==
    IF Metered(frames) = <<>> THEN {} ELSE {Units(Last(Metered(frames))).consumed}

transaction_total_cu(frames) ==
    IF Metered(frames) = <<>> THEN {} ELSE {SumConsumed(Metered(frames))}

transaction_compute_budget(frames) ==
    IF Metered(frames) = <<>> THEN {}
    ELSE {Units(Head(Metered(frames))).available_at_start}

(***************************************************************************)
(* Rendering: the rows of format_cpi_tree, each with the bars to its left. *)
(* A bar is TRUE where the glyph goes on downwards (branch or spine) and   *)
(* FALSE where it ends.                                                    *)
(***************************************************************************)
ChildPrefixAlways(prefix, is_last) == Append(prefix, TRUE)

ChildPrefix(prefix, is_last) == Append(prefix, ~is_last)

LogRows(frame, prefix) ==
    [i \in DOMAIN frame.logs |->
        [is_frame |-> FALSE, bars |-> Append(prefix, frame.children # <<>>)]]

RECURSIVE WriteFrames(_, _)
write_frame(frame, prefix, is_last) ==
    <<[is_frame |-> TRUE, bars |-> Append(prefix, ~is_last)]>>
        \o LogRows(frame, ChildPrefix(prefix, is_last))
        \o WriteFrames(frame.children, ChildPrefix(prefix, is_last))
WriteFrames(frames, prefix) ==
    FlattenSeq([i \in DOMAIN frames |->
                   write_frame(frames[i], prefix, i = Len(frames))])

format_cpi_tree(frames) == WriteFrames(frames, <<>>)

(***************************************************************************)
(* What the logs say, without a stack: a frame is the number of its invoke *)
(* line, closed by the first later status that is not used up by frames    *)
(* opened in between; a line belongs to the innermost frame open there.    *)
(***************************************************************************)
Opens(logs)  == {i \in DOMAIN logs : classify(logs[i]) = "invoke"
                                      /\ logs[i].name \in Address}
Closes(logs) == {i \in DOMAIN logs : classify(logs[i]) \in Statuses}

\* The members of a set of line numbers, in order.
InOrder(lines, logs) ==
    SelectSeq([i \in DOMAIN logs |-> i], LAMBDA i : i \in lines)

\* Statuses in lines k+1 .. j outnumber the invokes there.
Outnumbered(logs, k, j) ==
    Cardinality(Closes(logs) \cap (k+1)..j)
        > Cardinality(Opens(logs) \cap (k+1)..j)

ClosedBy(logs, k) ==
    LET js == {j \in k+1..Len(logs) : Outnumbered(logs, k, j)}
    IN  IF js = {} THEN {} ELSE {Min(js)}

Spans(logs) == {[open |-> k, close |-> ClosedBy(logs, k)] : k \in Opens(logs)}

\* The frames open just before line i.
OpenAt(spans, i) ==
    {s.open : s \in {t \in spans : t.open < i /\ \A j \in t.close : j >= i}}

\* The lines of these forms written while frame k was innermost.
Belonging(logs, spans, k, forms) ==
    {i \in k+1..Len(logs) : /\ classify(logs[i]) \in forms
                            /\ LET open == OpenAt(spans, i)
                               IN  k \in open /\ k = Max(open)}

OutcomeOf(logs, k) ==
    LET close == ClosedBy(logs, k)
    IN  IF close = {} THEN [is |-> "Truncated", message |-> {}]
        ELSE IF logs[Min(close)].form = "success"
             THEN [is |-> "Success", message |-> {}]
             ELSE [is |-> "Failed", message |-> logs[Min(close)].payload]

\* Data, and the messages after the last Instruction line.
LogsOf(logs, spans, k) ==
    LET renames == Belonging(logs, spans, k, {"instruction"})
        kept == Belonging(logs, spans, k, {"data"}) \cup
                {i \in Belonging(logs, spans, k, Messages) :
                    \A r \in renames : r < i}
        order == InOrder(kept, logs)
    IN  [n \in DOMAIN order |->
            [is |-> IF logs[order[n]].form = "data" THEN "Data" ELSE "Msg",
             text |-> logs[order[n]].name]]

FrameOf(logs, spans, k) ==
    LET units == Belonging(logs, spans, k, {"consumed"})
        names == Belonging(logs, spans, k, {"instruction"})
    IN  [program_id |-> logs[k].name,
         outcome |-> OutcomeOf(logs, k),
         compute_units |-> IF units = {} THEN {} ELSE logs[Max(units)].payload,
         instruction_name |-> IF names = {} THEN {} ELSE {logs[Min(names)].name},
         logs |-> LogsOf(logs, spans, k),
         depth |-> Cardinality(OpenAt(spans, k)) + 1]

\* The frames of the logs in the order in which they were opened.
FramesOf(logs) ==
    LET order == InOrder(Opens(logs), logs)
        spans == Spans(logs)
    IN  [n \in DOMAIN order |-> FrameOf(logs, spans, order[n])]

(***************************************************************************)
(* inner_instructions_list_from_instruction_trace.  An entry of the trace  *)
(* has a program, a stack height and the index of its caller (0: none).    *)
(***************************************************************************)
NumTopLevel(trace) ==
    Max({n \in 0..Len(trace) : \A i \in 1..n : trace[i].height = 1})

\* A plausible slip: calls are taken for those of the last instruction.
TopLevelAncestor_Last(trace) ==
    [i \in DOMAIN trace |-> IF i <= NumTopLevel(trace) THEN i ELSE NumTopLevel(trace)]

\* 0 stands for usize::MAX, the ancestor of an entry whose caller is unknown.
TopLevelAncestor(trace) ==
    LET ancestor[i \in DOMAIN trace] ==
            IF i <= NumTopLevel(trace) THEN i
            ELSE IF trace[i].caller \in 1..i-1 THEN ancestor[trace[i].caller]
            ELSE 0
    IN  ancestor

InnerInstruction(entry) ==
    [program |-> entry.program,
     stack_height |-> IF entry.height > U8Max THEN U8Max ELSE entry.height]

inner_instructions_list(trace) ==
    LET ancestor == TopLevelAncestor(trace)
        below(k) == SelectSeq([i \in DOMAIN trace |-> i],
                              LAMBDA i : i > NumTopLevel(trace) /\ ancestor[i] = k)
    IN  [k \in 1..NumTopLevel(trace) |->
            [n \in DOMAIN below(k) |-> InnerInstruction(trace[below(k)[n]])]]
=============================================================================

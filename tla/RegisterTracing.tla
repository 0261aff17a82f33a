--------------------------- MODULE RegisterTracing ---------------------------
(***************************************************************************)
(* Register tracing (crates/litesvm/src/register_tracing.rs and the        *)
(* callback's two calls in process_transaction).  One filter is asked      *)
(* twice: before a transaction runs, about all the programs it might       *)
(* invoke, to decide whether the debugger is attached; and after it ran,   *)
(* about each invocation, to decide whether its trace is written.          *)
(***************************************************************************)
EXTENDS TraceFilter

CONSTANTS
    Filters,         \* what SBF_TRACE_FILTER may hold
    Transactions,    \* [signatures, instructions : sequence of [program, accounts]]
    Executable,      \* the addresses of executable accounts
    NoCpi,           \* the loaders and the system program
    Digest,          \* what traces hash to
    NoTrace,         \* the digest of an empty trace
    NoTransaction,
    MaxInvocations   \* bound: invocations of a transaction

VARIABLES
    callback,   \* "empty" or "default"
    filter,     \* sbf_trace_filter of the default callback
    tx,         \* the transaction that runs, or ran last
    running,
    debug_port, \* set for the transaction
    vm_traces,  \* its invocations so far: [program, trace]
    files       \* program_id files, by the digest they are named after

tracingVars == <<callback, filter, tx, running, debug_port, vm_traces, files>>

\* A filter that does not parse matches everything.
MatchFilter(signatures, program_ids) ==
    LET e == Expr(filter)
    IN  e.ok => Eval(e.ast, [txsig |-> signatures, program_id |-> program_ids])

Instructions(t) == {t.instructions[i] : i \in DOMAIN t.instructions}

\* A plausible slip: only the programs of the instructions count.
ProgramIds_TopLevel(t) == {ix.program : ix \in Instructions(t)}

\* The programs of the instructions and those they may invoke.
ProgramIds(t) ==
    {ix.program : ix \in Instructions(t)}
        \cup UNION {ix.accounts \cap Executable :
                       ix \in {ix \in Instructions(t) : ix.program \notin NoCpi}}

TracingInit ==
    /\ callback = "default" /\ filter \in Filters
    /\ tx = NoTransaction /\ running = FALSE /\ debug_port = FALSE
    /\ vm_traces = <<>>
    /\ files = [d \in Digest |-> {}]

\* before_invocation, with SBF_DEBUG_PORT set.
BeforeInvocation(t) ==
    /\ ~running
    /\ tx' = t /\ running' = TRUE /\ vm_traces' = <<>>
    /\ debug_port' = (callback = "default" /\ MatchFilter(t.signatures, ProgramIds(t)))
    /\ UNCHANGED <<callback, filter, files>>

\* What the runtime executes (external): a program invokes executable
\* accounts of its instruction; loaders and the system program are builtins,
\* which leave no trace and invoke nothing.
Invocable(t) ==
    UNION {{ix.program} \cup (ix.accounts \cap Executable) :
              ix \in {ix \in Instructions(t) : ix.program \notin NoCpi}} \ NoCpi

Invocation(p, trace) ==
    /\ running /\ Len(vm_traces) < MaxInvocations
    /\ p \in Invocable(tx)
    /\ vm_traces' = Append(vm_traces, [program |-> p, trace |-> trace])
    /\ UNCHANGED <<callback, filter, tx, running, debug_port, files>>

\* The invocations whose traces post_handler writes.
Collected ==
    {i \in DOMAIN vm_traces : /\ vm_traces[i].trace # NoTrace
                              /\ MatchFilter(tx.signatures, {vm_traces[i].program})}

\* The files are named after the trace: equal traces share them, and the last
\* one stays.
Written(d) ==
    LET same == {i \in Collected : vm_traces[i].trace = d}
    IN  IF same = {} THEN files[d]
        ELSE {vm_traces[CHOOSE i \in same : \A j \in same : j <= i].program}

\* after_invocation.
AfterInvocation ==
    /\ running /\ running' = FALSE
    /\ files' = IF callback = "default" THEN [d \in Digest |-> Written(d)] ELSE files
    /\ UNCHANGED <<callback, filter, tx, debug_port, vm_traces>>

\* Tracing is switched off and on again by replacing the callback.
SetCallback(c) ==
    /\ ~running
    /\ callback' = c
    /\ UNCHANGED <<filter, tx, running, debug_port, vm_traces, files>>

TracingNext ==
    \/ \E t \in Transactions : BeforeInvocation(t)
    \/ \E p \in Executable, d \in Digest \cup {NoTrace} : Invocation(p, d)
    \/ AfterInvocation
    \/ \E c \in {"empty", "default"} : SetCallback(c)

TracingSpec == TracingInit /\ [][TracingNext]_tracingVars

-----------------------------------------------------------------------------
(* Properties.                                                             *)

Rows ==
    [txsig : SUBSET UNION {t.signatures : t \in Transactions},
     program_id : SUBSET Executable]

\* The parser accepts exactly the filters that are well formed when they are
\* cut at their outermost operators, `||` before `&&`, and what it makes of
\* them evaluates, on every row, to what the cut parts mean.
FilterMeansWhatItSays ==
    tx = NoTransaction =>
        /\ Expr(filter).ok <=> (filter = <<>> \/ WellFormed(filter))
        /\ WellFormed(filter) =>
              \A row \in Rows : Eval(Expr(filter).ast, row) = Means(filter, row)

Negated(ts) == \E i \in DOMAIN ts : ts[i].is = "cond" /\ ts[i].op = "!="

\* Attaching the debugger "may produce false positives", not misses: when the
\* trace of an invocation is written, the debugger was attached to its
\* transaction.  Filters with != are an exception: they ask about all programs
\* of the transaction first and about one afterwards.
TracedIsDebugged ==
    [][files' # files /\ ~Negated(filter) => debug_port]_tracingVars

=============================================================================

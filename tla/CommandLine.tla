----------------------------- MODULE CommandLine -----------------------------
(***************************************************************************)
(* The hand-rolled command lines of the binaries under                     *)
(* crates/coral_node/src/bin: what each makes of its argv.  A token is a   *)
(* string the parsers compare, never taken apart: "8" and "0" are the      *)
(* tokens that parse as numbers.  Every refusal exits alike, so a parse    *)
(* keeps whether something was refused and not what.  Then the files a     *)
(* command line may name.                                                  *)
(***************************************************************************)
EXTENDS Naturals, Sequences, SequencesExt, Functions, FiniteSets

Help == {"-h", "--help"}
Separator == "--"

\* The Vendor enum, by its command-line names.
Vendor == {"anthropic", "cohere"}

\* Flags that take the token after them as their value.
ValueFlags ==
    [model_call |-> {"--vendor", "--model", "--system", "--max-tokens", "--prompt"},
     node_run_llm |-> {"--vendor", "--model", "--max-tokens", "--temperature"}]

\* Flags that stand alone.
Switches == [model_call |-> {"--from-stdin"}, node_run_llm |-> {}]

\* Tokens that begin with `--`.
DashedTokens ==
    UNION {ValueFlags[p] \cup Switches[p] : p \in DOMAIN ValueFlags}
        \cup {Separator, "--help", "--from-file"}
Dashed(token) == token \in DashedTokens

\* parse_vendor, and the checks of the two numeric flags; any other value will do.
ValidValue(flag, value) ==
    /\ flag = "--vendor" => value \in Vendor
    /\ flag = "--max-tokens" => value = "8"
    /\ flag = "--temperature" => value \in {"0", "8"}

\* What a pass over the flags has gathered: the flag that waits for its value, the
\* options given, the positional arguments, and whether something was refused.
NoFlag == "none"
Nothing == [waits |-> NoFlag, given |-> <<>>, positional |-> 0, refused |-> FALSE]

Give(gathered, flag, value) ==
    [waits |-> NoFlag,
     given |-> [f \in DOMAIN gathered.given \cup {flag} |->
                   IF f = flag THEN value ELSE gathered.given[f]],
     positional |-> gathered.positional,
     refused |-> \/ gathered.refused \/ flag \in DOMAIN gathered.given
                 \/ ~ValidValue(flag, value)]

\* A token that is not the value of the flag before it.
TakeFlag(program, gathered, token) ==
    IF token \in ValueFlags[program] THEN [gathered EXCEPT !.waits = token]
    ELSE IF token \in Switches[program] THEN Give(gathered, token, token)
    ELSE IF program = "node_run_llm" /\ ~Dashed(token) THEN [gathered EXCEPT !.positional = @ + 1]
    ELSE [gathered EXCEPT !.refused = TRUE]

\* Fault: a flag given again replaces its first value.
TakeLast(program, gathered, token) ==
    IF gathered.waits # NoFlag
    THEN [Give(gathered, gathered.waits, token) EXCEPT
             !.refused = gathered.refused \/ ~ValidValue(gathered.waits, token)]
    ELSE TakeFlag(program, gathered, token)

\* One token of the loop over argv.
Take(program, gathered, token) ==
    IF gathered.waits # NoFlag THEN Give(gathered, gathered.waits, token)
    ELSE TakeFlag(program, gathered, token)

\* The loop: what it has gathered after each token.
Gathered(program, argv) ==
    LET after[i \in 0 .. Len(argv)] ==
            IF i = 0 THEN Nothing ELSE Take(program, after[i - 1], argv[i])
    IN after
Gather(program, argv) == Gathered(program, argv)[Len(argv)]

\* The loop ended without refusal, on a flag that has its value.
Complete(gathered) == ~gathered.refused /\ gathered.waits = NoFlag

\* The first `--` divides argv into coral's arguments and the spawn command.
SeparatorAt(argv) == CHOOSE i \in DOMAIN argv :
    argv[i] = Separator /\ \A j \in 1 .. (i - 1) : argv[j] # Separator
Before(argv) == SubSeq(argv, 1, SeparatorAt(argv) - 1)
Spawn(argv) == SubSeq(argv, SeparatorAt(argv) + 1, Len(argv))
HasSpawn(argv) == Separator \in Range(argv) /\ Spawn(argv) # <<>>

\* node-run: three paths, or the usage and exit code 2.
ParseNodeRun(argv) == IF Len(argv) = 3 THEN "ok" ELSE "usage"

\* node-run-mcp: three paths and a spawn command.
ParseNodeRunMcp(argv) ==
    IF HasSpawn(argv) /\ Len(Before(argv)) = 3 THEN "ok" ELSE "error"

\* node-run-llm: flags and three paths in any order, and a spawn command.
ParseNodeRunLlm(argv) ==
    IF /\ HasSpawn(argv)
       /\ LET gathered == Gather("node_run_llm", Before(argv))
          IN Complete(gathered) /\ "--vendor" \in DOMAIN gathered.given
                                /\ gathered.positional = 3
    THEN "ok" ELSE "error"

\* model-call: a vendor and one source of the prompt.
ParseModelCall(argv) ==
    LET gathered == Gather("model_call", argv)
    IN IF /\ Complete(gathered) /\ "--vendor" \in DOMAIN gathered.given
          /\ Cardinality({"--prompt", "--from-stdin"} \cap DOMAIN gathered.given) = 1
       THEN "ok" ELSE "error"

\* compute-evidence-id: a script to audit, or a triple to hash.
ParseComputeEvidenceId(argv) ==
    CASE Len(argv) = 2 /\ argv[1] = "--from-file" -> "ok"
      [] Len(argv) = 3 -> "ok"
      [] OTHER -> "usage"

\* What a program makes of argv; a help flag anywhere comes first, in the spawn
\* command too.
ParseArgs(program, argv) ==
    IF Help \cap Range(argv) # {} THEN "help"
    ELSE CASE program = "node_run" -> ParseNodeRun(argv)
           [] program = "node_run_mcp" -> ParseNodeRunMcp(argv)
           [] program = "node_run_llm" -> ParseNodeRunLlm(argv)
           [] program = "model_call" -> ParseModelCall(argv)
           [] program = "compute_evidence_id" -> ParseComputeEvidenceId(argv)

\* The vendor of an accepted node-run-llm or model-call.
VendorOf(program, argv) ==
    IF program \in DOMAIN ValueFlags
    THEN Gather(program, IF program = "node_run_llm" THEN Before(argv) ELSE argv).given["--vendor"]
    ELSE NoFlag

-----------------------------------------------------------------------------
(* The USAGE texts, declaratively: argv is divided into flags, the values  *)
(* next to them and the rest, each flag at most once.                      *)

\* `flags` are the positions of the value flags of a well-formed argv.
Divides(program, argv, flags) ==
    LET values == {p + 1 : p \in flags}
        rest == DOMAIN argv \ (flags \cup values)
        options == flags \cup {p \in rest : argv[p] \in Switches[program]}
    IN /\ values \subseteq DOMAIN argv /\ values \cap flags = {}
       /\ \A p \in flags : ValidValue(argv[p], argv[p + 1])
       /\ \A p, q \in options : argv[p] = argv[q] => p = q
       /\ {"--vendor"} \subseteq {argv[p] : p \in flags}
       /\ IF program = "node_run_llm"
          THEN Cardinality(rest) = 3 /\ \A p \in rest : ~Dashed(argv[p])
          ELSE /\ rest \subseteq options
               /\ Cardinality({argv[p] : p \in options} \cap {"--prompt", "--from-stdin"}) = 1

FlagLike(program, argv) == {p \in DOMAIN argv : argv[p] \in ValueFlags[program]}
Divisible(program, argv) ==
    \E flags \in SUBSET FlagLike(program, argv) : Divides(program, argv, flags)

WellFormed(program, argv) ==
    CASE program = "model_call" -> Divisible(program, argv)
      [] program = "node_run_llm" -> HasSpawn(argv) /\ Divisible(program, Before(argv))
      [] program = "node_run_mcp" -> HasSpawn(argv) /\ SeparatorAt(argv) = 4
      [] program = "node_run" -> Len(argv) = 3
      [] program = "compute_evidence_id" ->
            Len(argv) = 3 \/ (Len(argv) = 2 /\ argv[1] = "--from-file")

-----------------------------------------------------------------------------
(* Fixtures: the JSONL files of the node-run binaries and of               *)
(* compute-evidence-id.  A line has a kind: "skip" (blank, or a # comment),*)
(* "bad" (not the JSON that is wanted, or a file that cannot be read) or   *)
(* "record".                                                               *)

Skip == [kind |-> "skip"]
Bad == [kind |-> "bad"]

\* TriggerLine: an envelope with its delay, or a bare trigger.
Envelope(trigger, delay) == [kind |-> "record", trigger |-> trigger, delay |-> delay]
BareTrigger(trigger) == Envelope(trigger, 0)

Records(file) == SelectSeq(file, LAMBDA line : line.kind = "record")
Readable(file) == \A i \in DOMAIN file : file[i].kind # "bad"

\* load_triggers: a script without a trigger is good.
TriggersLoad(file) == Readable(file)

\* load_decisions: an empty script is an error.
DecisionsLoad(file) == Readable(file) /\ Records(file) # <<>>

-----------------------------------------------------------------------------
(* compute-evidence-id --from-file: a line has the type of a decision and  *)
(* names its tool, or cites something or nothing.                          *)

Line(type, names) == [kind |-> "record", type |-> type, names |-> names]

NoCall == "no preceding call_tool seen"

\* The walk keeps the last call_tool, and the call each output was reported with.
AuditLine(walk, line) ==
    CASE line.type = "call_tool" -> [walk EXCEPT !.last = line.names]
      [] line.type = "write_output" /\ line.names # <<>> ->
            [last |-> NoCall, reported |-> Append(walk.reported, walk.last)]
      [] OTHER -> walk

Audit(file) == FoldLeft(AuditLine, [last |-> NoCall, reported |-> <<>>], Records(file))

\* audit_file: every line was read, and an output that cites was met.
AuditPasses(file) == Readable(file) /\ Audit(file).reported # <<>>
=============================================================================

----------------------------- MODULE LlmDecide -----------------------------
(***************************************************************************)
(* One decision: the activity decide_step of                               *)
(* crates/coral_temporal/src/activities.rs around LlmDecide of             *)
(* crates/coral_node/src/decide_llm/llm_decide.rs.  The activity renders   *)
(* the session, asks the model, and asks again with a correction when the  *)
(* response does not parse.  Temporal runs it again, from its start, after *)
(* a failure that is marked retryable.                                     *)
(***************************************************************************)
EXTENDS ModelWire, DecisionSchema

CONSTANTS
    Boots,          \* [registry, name, woken]: what a worker is booted with, the model
                    \* a mandate names, and whether triggers wake the agent's cycles
    Contents        \* contents of responses: a tool call in them has no id yet

MAX_DECISION_RETRIES == 1

ASSUME ContentAssumption == \A c \in Contents : c \in Seq(ToSet(c))

VARIABLES
    boot,           \* one of Boots, for good
    talk,           \* the conversation of the attempt that runs, or NoTalk
    reply,          \* what the activity returned to the workflow, or NoReply
    heard           \* history: the last answers of the vendor to this decision
decide == <<boot, talk, reply, heard>>

NoTalk == [on |-> FALSE]
NoReply == [kind |-> "none"]
Failed == [kind |-> "failed"]

DecideInit ==
    /\ boot \in Boots
    /\ talk = NoTalk /\ reply = NoReply /\ heard = <<>>

Client == ProviderOf(boot.registry, boot.name)

\* The request that is with the vendor.
Request ==
    [model |-> BareModel(boot.name), body |-> Body(Client, talk.messages)]

\* LlmDecide::decide up to its first call.
Ask(steps) ==
    /\ talk = NoTalk /\ reply = NoReply
    /\ IF Resolves(boot.registry, boot.name)
       THEN /\ talk' = [on |-> TRUE, messages |-> Render(boot.woken, steps), attempt |-> 1]
            /\ UNCHANGED <<reply, heard>>
       ELSE /\ reply' = Failed /\ heard' = <<"unresolved">>
            /\ UNCHANGED talk
    /\ UNCHANGED boot

-----------------------------------------------------------------------------
(* An answer is the status, 0 when the transport failed, and the content of *)
(* a response; it is not legible when the body is not what the adapter      *)
(* expects.  A vendor gives each call of a response an id of its own.       *)

Number(content) ==
    [i \in DOMAIN content |->
        IF content[i].type = "tool_use"
        THEN ToolUse(<<talk.attempt, i>>, content[i].name, content[i].arguments)
        ELSE content[i]]

Answers ==
    {[status |-> 200, legible |-> TRUE, content |-> Number(c)] : c \in Contents}
    \cup {[status |-> s, legible |-> FALSE, content |-> <<>>] :
             s \in {0, 200, 400, 401, 429, 503}}

Remember(answer) ==
    heard' = LET h == Append(heard, IF ~IsResponse(answer) THEN ErrorOf(answer)
                                    ELSE IF Parses(ToolCalls(answer.content)) THEN "decision"
                                    ELSE "unparsed")
             IN IF Len(h) > MAX_DECISION_RETRIES + 1 THEN Tail(h) ELSE h

\* Fault: a vendor that asks for patience gets none.
OnlyTransport(error) == error = "Transport"

\* classify_decide_error.
Retryable(error) == error \in {"Transport", "RateLimit"}

-----------------------------------------------------------------------------
(* The corrective turns.                                                   *)

\* Fault: no results for the calls of the bad turn.
EchoOnly(content) == <<Message("assistant", content), Message("system", <<Text>>)>>

Correction(content) ==
    LET ids == Ids(OfType(content, "tool_use"))
    IN <<Message("assistant", content)>>
       \o (IF ids # <<>>
           THEN <<Message("tool", [i \in DOMAIN ids |-> ToolResult(ids[i])])>>
           ELSE <<>>)
       \o <<Message("system", <<Text>>)>>

Decide(answer) ==
    /\ reply' = [kind |-> "decision", decision |-> Decision(ToolCalls(answer.content))]
    /\ talk' = NoTalk

AskAgain(answer) ==
    /\ talk.attempt <= MAX_DECISION_RETRIES
    /\ talk' = [talk EXCEPT !.messages = @ \o Correction(answer.content), !.attempt = @ + 1]
    /\ UNCHANGED reply

GiveUp ==
    /\ talk.attempt > MAX_DECISION_RETRIES
    /\ talk' = NoTalk /\ reply' = Failed

\* The response is off the wire: parse it, and decide, correct or give up.
HearResponse(answer) ==
    /\ IsResponse(answer) /\ Remember(answer)
    /\ IF Parses(ToolCalls(answer.content)) THEN Decide(answer) ELSE AskAgain(answer) \/ GiveUp
    /\ UNCHANGED boot

\* A vendor's error ends the attempt at once.  A retryable one makes Temporal
\* schedule the activity again; its conversation is lost.
HearError(answer) ==
    /\ ~IsResponse(answer) /\ Remember(answer)
    /\ talk' = NoTalk
    /\ reply' = IF Retryable(ErrorOf(answer)) THEN reply ELSE Failed
    /\ UNCHANGED boot

\* The attempt is lost with its worker, or runs into the start-to-close timeout;
\* what it hears after that nobody waits for.
LoseAttempt ==
    /\ talk # NoTalk /\ talk' = NoTalk
    /\ UNCHANGED <<boot, reply, heard>>

\* The workflow takes the reply.
TakeReply ==
    /\ reply # NoReply /\ reply' = NoReply /\ heard' = <<>>
    /\ UNCHANGED <<boot, talk>>

-----------------------------------------------------------------------------
(* What the vendors ask of a request (llm_decide.rs 186-194).              *)

\* The order of the places of a request, and the place that follows another.
Before(p, q) == p[1] < q[1] \/ (p[1] = q[1] /\ p[2] < q[2])
Follows(body, q, p) == Before(p, q) /\ ~\E r \in DOMAIN body : Before(p, r) /\ Before(r, q)

AnswersUses(client, body) ==
    \A p \in DOMAIN body : body[p].uses # <<>> =>
        LET ids == body[p].uses
        IN IF client = "anthropic"
           THEN \E q \in DOMAIN body :
                   /\ Follows(body, q, p) /\ body[q].role = "user"
                   /\ ToSet(body[q].results) = ToSet(ids)
           ELSE \E at \in [0 .. Len(ids) -> DOMAIN body] :
                   /\ at[0] = p
                   /\ \A k \in 1 .. Len(ids) :
                         /\ Follows(body, at[k], at[k - 1]) /\ body[at[k]].role = "tool"
                         /\ body[at[k]].results = <<ids[k]>>
=============================================================================

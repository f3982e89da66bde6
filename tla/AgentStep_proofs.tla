-------------------------- MODULE AgentStep_proofs --------------------------
(***************************************************************************)
(* Machine-checked proofs about AgentStep, for every graph of tools, every *)
(* grant, size of a batch, number of tries, set of contents and fault      *)
(* bound.                                                                  *)
(*                                                                         *)
(* The argument has four parts that do not depend on each other.  The      *)
(* registry: whoever holds the mutex is building, so one registry is built *)
(* at a time, and what it attributes to a name are the defs of the server  *)
(* that serves it.  The evidence: an attempt only ever knows of records    *)
(* that were put, and none is removed.  The decision: a conversation that  *)
(* has come to its correction last heard a response that did not parse.    *)
(* The requests: every turn that calls tools is followed by their results, *)
(* and each adapter puts the two on the wire where its vendor looks.       *)
(***************************************************************************)
EXTENDS AgentStep, FiniteSetTheorems, SequenceTheorems, TLAPS

-----------------------------------------------------------------------------
(* The inductive invariant.                                                *)

Recording == {"lags", "rebuild", "record", "get", "put"}

\* What an attempt carries at each of its steps.
Shaped(job) ==
    \/ job \in {Resting, Failure}
    \/ job = [pc |-> "registry", call |-> job.call]
    \/ job = [pc |-> "build", call |-> job.call, next |-> job.next, order |-> job.order,
              registry |-> job.registry]
    \/ job = [pc |-> "allowed", call |-> job.call]
    \/ job = [pc |-> "call", call |-> job.call, tries |-> job.tries]
    \/ job = [pc |-> "list", call |-> job.call, record |-> job.record]
    \/ /\ job = [pc |-> job.pc, call |-> job.call, record |-> job.record, seen |-> job.seen]
       /\ job.pc \in Recording
    \/ job = [pc |-> "success", path |-> job.path]

\* What Remember keeps of an answer, and Ask of a name that does not resolve.
ErrorKind == {"Transport", "Auth", "RateLimit", "Parse", "Other"}
Heard == ErrorKind \cup {"unresolved", "decision", "unparsed"}

TypeOK ==
    /\ lock \in Job \cup {NoJob}
    /\ procs \in [Servers -> Nat]
    /\ DOMAIN jobs = Job /\ \A j \in Job : Shaped(jobs[j])
    /\ phase \in {"rest", "deciding", "dispatching", "failed"}
    /\ heard \in Seq(Heard) /\ Len(heard) <= MAX_DECISION_RETRIES + 1

\* A name is attributed to the defs of the server that serves it.
Defs(server) == IF server = Builtin THEN EchoDefIds ELSE DefIds(server)
WellOwned(registry) ==
    /\ registry = [built |-> TRUE, tools |-> registry.tools, owners |-> registry.owners]
    /\ DOMAIN registry.owners = DOMAIN registry.tools
    /\ \A n \in DOMAIN registry.tools : registry.owners[n] = Defs(registry.tools[n])

Building(j) == At(j, "build")

\* The mutex is held by a build, and there is no other.
MutexIsHeld ==
    /\ lock # NoJob => Building(lock)
    /\ \A j \in Job : Building(j) =>
        /\ lock = j /\ cache = NoRegistry
        /\ jobs[j].order \in Orders /\ jobs[j].next \in Nat \ {0}

RegistryIsTrue ==
    /\ cache # NoRegistry => WellOwned(cache)
    /\ \A j \in Job :
        /\ Building(j) => WellOwned(jobs[j].registry)
        /\ jobs[j].pc \in {"allowed", "call"} => cache # NoRegistry
        /\ At(j, "call") => IsCallAllowed(jobs[j].call.tool)

\* The servers that a build has connected, or that the cached registry needs.
Connected(j, s) == \E i \in 1 .. jobs[j].next - 1 : jobs[j].order[i] = s
Needed(s) == cache # NoRegistry \/ (lock # NoJob /\ Connected(lock, s))

\* A server runs once, and only for the registry that is built or cached.
NoOrphanServer == \A s \in Servers : procs[s] <= IF Needed(s) THEN 1 ELSE 0

\* The sidecar, the attempts and the observation know of records that are there.
EvidenceIsThere ==
    /\ tail \subseteq files
    /\ \A j \in Job :
        /\ jobs[j].pc \in Recording => jobs[j].seen \subseteq files
        /\ jobs[j].pc \in {"get", "put"} => Path(jobs[j]) \in files
        /\ At(j, "success") => jobs[j].path \in files
    /\ \A i \in DOMAIN steps : steps[i].cited \subseteq files

\* An attempt goes on from a listing that has the records from before its batch, and
\* once the sidecar has them too from one that has them still.
BatchIsListed ==
    /\ before \subseteq files
    /\ ~late => \A j \in Job :
        /\ jobs[j].pc \in {"lags", "rebuild", "put"} => before \subseteq jobs[j].seen
        /\ jobs[j].pc \in {"record", "get", "put", "success"} => before \subseteq tail

\* A decision is made, or a batch runs, or neither; a workflow that failed stays so.
OneAtATime ==
    /\ phase \in {"rest", "dispatching"} => talk = NoTalk /\ reply = NoReply
    /\ phase # "dispatching" => \A j \in Slot : jobs[j] = Resting
    /\ talk # NoTalk => reply = NoReply
    /\ phase = "failed" => reply = Failed

LastHeard == heard[Len(heard)]

\* A conversation is at its first request, or at its correction.
TalkIsTrue == talk # NoTalk =>
    /\ talk = [on |-> TRUE, messages |-> talk.messages, attempt |-> talk.attempt]
    /\ talk.attempt \in {1, 2}
    /\ talk.attempt = 2 => heard # <<>> /\ LastHeard = "unparsed"

\* A list is a sequence of what it lists.
IsList(s) == s \in Seq(ToSet(s))

Uses(m) == Ids(OfType(m.content, "tool_use"))

\* The results of tool calls, as Correction makes them.
Results(ids) == [k \in DOMAIN ids |-> ToolResult(ids[k])]

\* A turn that calls tools is the model's, and the next one has the results; a tool turn
\* has nothing else, and no other calls tools.
Answered(messages) ==
    /\ IsList(messages)
    /\ \A i \in DOMAIN messages :
        LET m == messages[i]
        IN /\ IsList(m.content)
           /\ m.role = "tool" => \E ids : IsList(ids) /\ m.content = Results(ids)
           /\ Uses(m) # <<>> =>
                /\ m.role = "assistant" /\ i + 1 \in DOMAIN messages
                /\ messages[i + 1] = Message("tool", Results(Uses(m)))

\* No call is without its answer, whatever turns the conversation has come to.
TalkIsAnswered == talk # NoTalk => Answered(talk.messages)

StepInv ==
    /\ MutexIsHeld /\ RegistryIsTrue /\ OnlyGrantedRun /\ NoOrphanServer
    /\ EvidenceIsThere /\ BatchIsListed /\ OneAtATime
    /\ TalkIsTrue /\ TalkIsAnswered /\ FailsForCause

-----------------------------------------------------------------------------
(* Types.                                                                  *)

\* What an attempt carries, from where it is.
LEMMA Shapes ==
    ASSUME TypeOK, NEW j \in Job
    PROVE  /\ At(j, "registry") => jobs[j] = [pc |-> "registry", call |-> jobs[j].call]
           /\ At(j, "build") => jobs[j] = [pc |-> "build", call |-> jobs[j].call,
                                           next |-> jobs[j].next, order |-> jobs[j].order,
                                           registry |-> jobs[j].registry]
           /\ At(j, "allowed") => jobs[j] = [pc |-> "allowed", call |-> jobs[j].call]
           /\ At(j, "call") =>
                jobs[j] = [pc |-> "call", call |-> jobs[j].call, tries |-> jobs[j].tries]
           /\ At(j, "list") =>
                jobs[j] = [pc |-> "list", call |-> jobs[j].call, record |-> jobs[j].record]
           /\ jobs[j].pc \in Recording =>
                jobs[j] = [pc |-> jobs[j].pc, call |-> jobs[j].call,
                           record |-> jobs[j].record, seen |-> jobs[j].seen]
           /\ At(j, "success") => jobs[j] = [pc |-> "success", path |-> jobs[j].path]
           /\ At(j, "failure") => jobs[j] = Failure
           /\ At(j, "rest") => jobs[j] = Resting
           /\ jobs[j] = Resting => At(j, "rest")
BY DEF TypeOK, Shaped, At, Recording, Resting, Failure

LEMMA StrayIsNoSlot == Stray \in Job /\ NoJob \notin Job /\ Slot \subseteq Job /\ Stray \notin Slot
BY BatchAssumption DEF Stray, Job, Slot, NoJob

\* The two updates of more than one field.
LEMMA NextAndRegistry ==
    ASSUME NEW job, NEW m, NEW new,
           job = [pc |-> "build", call |-> job.call, next |-> job.next,
                  order |-> job.order, registry |-> job.registry]
    PROVE  [job EXCEPT !.next = m, !.registry = new] =
                [pc |-> "build", call |-> job.call, next |-> m, order |-> job.order,
                 registry |-> new]
<1>1. PICK half : half = [job EXCEPT !.next = m]
  OBVIOUS
<1>2. half = [pc |-> "build", call |-> job.call, next |-> m, order |-> job.order,
              registry |-> job.registry]
  BY <1>1
<1>3. [half EXCEPT !.registry = new] =
            [pc |-> "build", call |-> job.call, next |-> m, order |-> job.order,
             registry |-> new]
  BY <1>2
<1> QED BY <1>1, <1>3, Zenon

LEMMA PcAndSeen ==
    ASSUME NEW job, NEW new,
           job = [pc |-> "get", call |-> job.call, record |-> job.record, seen |-> job.seen]
    PROVE  [job EXCEPT !.pc = "put", !.seen = new] =
                [pc |-> "put", call |-> job.call, record |-> job.record, seen |-> new]
<1>1. PICK half : half = [job EXCEPT !.pc = "put"]
  OBVIOUS
<1>2. half = [pc |-> "put", call |-> job.call, record |-> job.record, seen |-> job.seen]
  BY <1>1
<1>3. [half EXCEPT !.seen = new] =
            [pc |-> "put", call |-> job.call, record |-> job.record, seen |-> new]
  BY <1>2
<1> QED BY <1>1, <1>3, Zenon

LEMMA ToolsAndOwners ==
    ASSUME NEW registry, NEW tools, NEW owners,
           registry = [built |-> registry.built, tools |-> registry.tools,
                       owners |-> registry.owners]
    PROVE  [registry EXCEPT !.tools = tools, !.owners = owners] =
                [built |-> registry.built, tools |-> tools, owners |-> owners]
<1>1. PICK half : half = [registry EXCEPT !.tools = tools]
  OBVIOUS
<1>2. half = [built |-> registry.built, tools |-> tools, owners |-> registry.owners]
  BY <1>1
<1>3. [half EXCEPT !.owners = owners] =
            [built |-> registry.built, tools |-> tools, owners |-> owners]
  BY <1>2
<1> QED BY <1>1, <1>3, Zenon

\* A conversation is a record of three fields, so that updating two of them
\* leaves the third.
IsTalkRecord(t) == t = [on |-> t.on, messages |-> t.messages, attempt |-> t.attempt]

\* An answer that is asked again changes the messages and the attempt, and leaves on.
LEMMA MessagesAndAttempt ==
    ASSUME NEW t, NEW messages, NEW attempt, IsTalkRecord(t)
    PROVE  [t EXCEPT !.messages = messages, !.attempt = attempt] =
                [on |-> t.on, messages |-> messages, attempt |-> attempt]
<1>1. PICK half : half = [t EXCEPT !.messages = messages]
  OBVIOUS
<1>2. half = [on |-> t.on, messages |-> messages, attempt |-> t.attempt]
  BY <1>1 DEF IsTalkRecord
<1>3. [half EXCEPT !.attempt = attempt] =
            [on |-> t.on, messages |-> messages, attempt |-> attempt]
  BY <1>2
<1> QED BY <1>1, <1>3, Zenon

LEMMA Updates ==
    ASSUME TypeOK, NEW j \in Job
    PROVE  /\ ConnectServer(j) =>
                LET s == jobs[j].order[jobs[j].next]
                IN jobs' = [jobs EXCEPT ![j] =
                    [pc |-> "build", call |-> jobs[j].call, next |-> jobs[j].next + 1,
                     order |-> jobs[j].order,
                     registry |-> Register(jobs[j].registry, s, DefIds(s), Advertises[s])]]
           /\ GetTail(j) => jobs' = [jobs EXCEPT ![j] =
                [pc |-> "put", call |-> jobs[j].call, record |-> jobs[j].record,
                 seen |-> tail]]
<1>1. At(j, "build") => \A m, new : [jobs[j] EXCEPT !.next = m, !.registry = new] =
            [pc |-> "build", call |-> jobs[j].call, next |-> m, order |-> jobs[j].order,
             registry |-> new]
  <2> HAVE At(j, "build")
  <2>1. jobs[j] = [pc |-> "build", call |-> jobs[j].call, next |-> jobs[j].next,
                   order |-> jobs[j].order, registry |-> jobs[j].registry]
    BY Shapes DEF At
  <2> QED BY <2>1, NextAndRegistry, Zenon
<1>2. At(j, "get") => \A new : [jobs[j] EXCEPT !.pc = "put", !.seen = new] =
            [pc |-> "put", call |-> jobs[j].call, record |-> jobs[j].record, seen |-> new]
  <2> HAVE At(j, "get")
  <2>1. jobs[j] = [pc |-> "get", call |-> jobs[j].call, record |-> jobs[j].record,
                   seen |-> jobs[j].seen]
    BY Shapes DEF At, Recording
  <2> QED BY <2>1, PcAndSeen, Zenon
<1>3. ConnectServer(j) =>
        LET s == jobs[j].order[jobs[j].next]
        IN jobs' = [jobs EXCEPT ![j] = [jobs[j] EXCEPT !.next = @ + 1,
                !.registry = Register(@, s, DefIds(s), Advertises[s])]]
  BY DEF ConnectServer, Put
<1>4. GetTail(j) => jobs' = [jobs EXCEPT ![j] = [jobs[j] EXCEPT !.pc = "put", !.seen = tail]]
  BY DEF GetTail, Put
<1>5. (ConnectServer(j) => At(j, "build")) /\ (GetTail(j) => At(j, "get"))
  BY DEF ConnectServer, GetTail
<1> QED BY <1>1, <1>2, <1>3, <1>4, <1>5, Zenon

\* What one attempt does by itself, or a fault of its own.
Attempts(j) ==
    JobStep(j) \/ ToolRefuses(j) \/ BuildFails(j) \/ StorageFails(j)
    \/ (j = Stray /\ StrayEnds)

LEMMA OthersStay ==
    ASSUME TypeOK, NEW j \in Job, Attempts(j)
    PROVE  /\ DOMAIN jobs' = Job
           /\ \A k \in Job \ {j} : jobs'[k] = jobs[k]
           /\ Shaped(jobs'[j])
<1> USE DEF TypeOK, Put
<1>1. CASE UseCached(j)
  BY <1>1, Shapes DEF UseCached, Shaped
<1>2. CASE StartBuild(j)
  BY <1>2 DEF StartBuild, Shaped
<1>3. CASE ConnectServer(j)
  BY <1>3, Updates DEF Shaped
<1>4. CASE FinishBuild(j)
  BY <1>4 DEF FinishBuild, Shaped
<1>5. CASE CheckAllowed(j)
  BY <1>5 DEF CheckAllowed, Shaped
<1>6. CASE ToolReturns(j)
  BY <1>6 DEF ToolReturns, Shaped
<1>7. CASE ToolUnreachable(j)
  BY <1>7, Shapes DEF ToolUnreachable, Shaped
<1>8. CASE ListEvidence(j)
  BY <1>8 DEF ListEvidence, Shaped, Recording
<1>9. CASE CheckTail(j)
  BY <1>9, Shapes DEF CheckTail, Shaped, Recording, At
<1>10. CASE RebuildTail(j)
  BY <1>10, Shapes DEF RebuildTail, Shaped, Recording, At
<1>11. CASE RecordEvidence(j)
  BY <1>11, Shapes DEF RecordEvidence, Shaped, Recording, At, Success
<1>12. CASE GetTail(j)
  BY <1>12, Updates DEF Shaped, Recording
<1>13. CASE PutTail(j)
  BY <1>13 DEF PutTail, Shaped, Success
<1>14. CASE ToolRefuses(j)
  BY <1>14 DEF ToolRefuses, Shaped
<1>15. CASE BuildFails(j)
  BY <1>15 DEF BuildFails, Shaped
<1>16. CASE StorageFails(j)
  BY <1>16 DEF StorageFails, Shaped, Attempt
<1>17. CASE j = Stray /\ StrayEnds
  BY <1>17 DEF StrayEnds, Shaped
<1> QED
  BY <1>1, <1>2, <1>3, <1>4, <1>5, <1>6, <1>7, <1>8, <1>9, <1>10, <1>11, <1>12, <1>13,
     <1>14, <1>15, <1>16, <1>17 DEF Attempts, JobStep

\* A step of the whole system, from where the proofs look at it.
DecideStep ==
    /\ StartDecide \/ Hear \/ Fail \/ EndCycle \/ Fuse \/ ExecuteOther \/ DecideFault
    /\ UNCHANGED dispatch

LEMMA NextCases ==
    ASSUME Next
    PROVE  \/ DecideStep \/ BuildSeed \/ Dispatch \/ Observe \/ WorkerFault
           \/ /\ UNCHANGED <<decide, agent>>
              /\ \/ \E j \in Job : Attempts(j) \/ TimeOut(j)
                 \/ \E s \in DOMAIN procs : ServerDies(s)
<1>1. CASE StartDecide \/ Hear \/ Fail \/ EndCycle \/ Fuse \/ ExecuteOther \/ DecideFault
  BY <1>1 DEF DecideStep, StartDecide, Hear, Fail, EndCycle, Fuse, ExecuteOther, DecideFault
<1>2. CASE RunJob
  BY <1>2 DEF RunJob, Attempts
<1>3. CASE EndStray
  BY <1>3, StrayIsNoSlot DEF EndStray, Attempts
<1>4. CASE DispatchFault
  BY <1>4 DEF DispatchFault, Attempts
<1> QED BY <1>1, <1>2, <1>3, <1>4 DEF Next

\* A build connects every server once.
LEMMA OrderIsOnce ==
    ASSUME NEW o \in Orders
    PROVE  /\ Len(o) \in Nat /\ o \in [1 .. Len(o) -> Servers]
           /\ \A i, k \in 1 .. Len(o) : i # k => o[i] # o[k]
<1>1. Cardinality(Servers) \in Nat
  BY FS_CardinalityType, ServerAssumption
<1> QED BY <1>1 DEF Orders, SetToSeqs

LEMMA NextServer ==
    ASSUME MutexIsHeld, NEW j \in Job, Building(j), jobs[j].next <= Len(jobs[j].order)
    PROVE  jobs[j].order[jobs[j].next] \in Servers
BY OrderIsOnce DEF MutexIsHeld

LEMMA ProcsStay ==
    ASSUME TypeOK, MutexIsHeld, Next
    PROVE  procs' \in [Servers -> Nat]
<1>1. ASSUME NEW j \in Job, Attempts(j) PROVE procs' \in [Servers -> Nat]
  <2>1. CASE ConnectServer(j)
    <3>1. PICK s \in Servers : procs' = [procs EXCEPT ![s] = @ + 1]
      BY <2>1, NextServer DEF ConnectServer, Building
    <3> QED BY <3>1 DEF TypeOK
  <2>2. CASE BuildFails(j)
    BY <2>2 DEF BuildFails, Disconnected, TypeOK
  <2>3. CASE ~ConnectServer(j) /\ ~BuildFails(j)
    BY <1>1, <2>3
       DEF Attempts, JobStep, UseCached, StartBuild, FinishBuild, CheckAllowed, ToolReturns,
           ToolUnreachable, ListEvidence, CheckTail, RebuildTail, RecordEvidence, GetTail,
           PutTail, ToolRefuses, StorageFails, StrayEnds, worker, TypeOK
  <2> QED BY <2>1, <2>2, <2>3
<1>2. ASSUME NEW j \in Job, TimeOut(j) PROVE procs' \in [Servers -> Nat]
  BY <1>2 DEF TimeOut, TypeOK
<1>3. ASSUME NEW s \in DOMAIN procs, ServerDies(s) PROVE procs' \in [Servers -> Nat]
  BY <1>3 DEF ServerDies, TypeOK
<1>4. CASE DecideStep \/ BuildSeed \/ Dispatch \/ Observe
  BY <1>4 DEF DecideStep, BuildSeed, Dispatch, StartBatch, Observe, CollectBatch, dispatch,
              worker, TypeOK
<1>5. CASE WorkerFault
  BY <1>5 DEF WorkerFault, RestartWorker, TypeOK
<1> QED BY <1>1, <1>2, <1>3, <1>4, <1>5, NextCases

LEMMA JobsStay ==
    ASSUME TypeOK, Next
    PROVE  /\ lock' \in Job \cup {NoJob}
           /\ DOMAIN jobs' = Job /\ \A j \in Job : Shaped(jobs'[j])
<1> DEFINE Goal == /\ lock' \in Job \cup {NoJob}
                   /\ DOMAIN jobs' = Job /\ \A j \in Job : Shaped(jobs'[j])
<1>1. ASSUME NEW j \in Job, Attempts(j) PROVE Goal
  <2>1. DOMAIN jobs' = Job /\ \A k \in Job : Shaped(jobs'[k])
    BY <1>1, OthersStay DEF TypeOK
  <2>2. lock' \in Job \cup {NoJob}
    BY <1>1
       DEF Attempts, JobStep, UseCached, StartBuild, FinishBuild, CheckAllowed, ToolReturns,
           ToolUnreachable, ListEvidence, CheckTail, RebuildTail, RecordEvidence, GetTail,
           PutTail, ToolRefuses, StorageFails, StrayEnds, ConnectServer, BuildFails, worker,
           TypeOK
  <2> QED BY <2>1, <2>2
<1>2. ASSUME NEW j \in Job, TimeOut(j) PROVE Goal
  BY <1>2, StrayIsNoSlot DEF TimeOut, TypeOK, Attempt, Shaped
<1>3. ASSUME NEW s \in DOMAIN procs, ServerDies(s) PROVE Goal
  BY <1>3 DEF ServerDies, TypeOK
<1>4. CASE DecideStep \/ BuildSeed
  BY <1>4 DEF DecideStep, BuildSeed, dispatch, worker, TypeOK
<1>5. CASE Dispatch
  BY <1>5 DEF Dispatch, StartBatch, worker, TypeOK, Attempt, Shaped
<1>6. CASE Observe
  BY <1>6 DEF Observe, CollectBatch, worker, TypeOK, Shaped
<1>7. CASE WorkerFault
  BY <1>7 DEF WorkerFault, RestartWorker, TypeOK, Attempt, Shaped
<1> QED BY <1>1, <1>2, <1>3, <1>4, <1>5, <1>6, <1>7, NextCases

LEMMA Errors ==
    ASSUME NEW answer
    PROVE  /\ ErrorOf(answer) \in ErrorKind
           /\ ~Retryable(ErrorOf(answer)) => ErrorOf(answer) \in {"Auth", "Parse", "Other"}
<1>1. ErrorOf(answer) \in ErrorKind
  BY ZenonT(60) DEF ErrorOf, ErrorKind
<1> QED BY <1>1 DEF ErrorKind, Retryable

\* Two elements of a sequence are kept.
LEMMA LastTwo ==
    \A h \in Seq(Heard), e \in Heard : \A next :
        Len(h) <= 2 /\ next = (IF Len(Append(h, e)) > 2 THEN Tail(Append(h, e))
                               ELSE Append(h, e))
        => /\ next \in Seq(Heard) /\ Len(next) <= 2 /\ next # <<>> /\ next[Len(next)] = e
           /\ h # <<>> => Len(next) = 2 /\ next[1] = h[Len(h)]
<1> TAKE h \in Seq(Heard), e \in Heard
<1> TAKE next
<1> HAVE /\ Len(h) <= 2
         /\ next = IF Len(Append(h, e)) > 2 THEN Tail(Append(h, e)) ELSE Append(h, e)
<1>1. next \in Seq(Heard)
  OBVIOUS
<1>2. Len(next) <= 2 /\ next # <<>>
  OBVIOUS
<1>3. next[Len(next)] = e
  OBVIOUS
<1>4. ASSUME h # <<>> PROVE Len(next) = 2 /\ next[1] = h[Len(h)]
  <2>1. Len(h) \in Nat /\ Len(h) # 0 /\ Len(h) <= 2
    BY <1>4
  <2>2. \A n \in Nat : n # 0 /\ n <= 2 => n = 1 \/ n = 2
    OBVIOUS
  <2>3. Append(h, e) \in Seq(Heard) /\ Len(Append(h, e)) = Len(h) + 1
    OBVIOUS
  <2>4. CASE Len(h) = 1
    BY <2>3, <2>4
  <2>5. CASE Len(h) = 2
    <3>1. next = Tail(Append(h, e))
      BY <2>3, <2>5
    <3> QED BY <2>3, <2>5, <3>1
  <2> QED BY <2>1, <2>2, <2>4, <2>5
<1> QED BY <1>1, <1>2, <1>3, <1>4

Remembered(answer) ==
    IF ~IsResponse(answer) THEN ErrorOf(answer)
    ELSE IF Parses(ToolCalls(answer.content)) THEN "decision" ELSE "unparsed"

\* The last answers to a decision, at most one for each of its requests.
LEMMA RememberKeepsTwo ==
    ASSUME heard \in Seq(Heard), Len(heard) <= 2, NEW answer, Remember(answer)
    PROVE  /\ heard' \in Seq(Heard) /\ Len(heard') <= 2 /\ heard' # <<>>
           /\ heard'[Len(heard')] = Remembered(answer)
           /\ heard # <<>> => Len(heard') = 2 /\ heard'[1] = LastHeard
<1>1. Remembered(answer) \in Heard
  BY Errors DEF Remembered, Heard
<1>2. heard' = IF Len(Append(heard, Remembered(answer))) > 2
               THEN Tail(Append(heard, Remembered(answer)))
               ELSE Append(heard, Remembered(answer))
  BY DEF Remember, Remembered, MAX_DECISION_RETRIES
<1> QED BY <1>1, <1>2, LastTwo, ZenonT(60) DEF LastHeard

-----------------------------------------------------------------------------
(* The registry.                                                           *)

\* The steps of an attempt that is past the registry, which is not theirs to change.
PastRegistry(j) ==
    CheckAllowed(j) \/ ToolReturns(j) \/ ToolRefuses(j) \/ ToolUnreachable(j)
    \/ ListEvidence(j) \/ CheckTail(j) \/ RebuildTail(j) \/ RecordEvidence(j)
    \/ GetTail(j) \/ PutTail(j) \/ StorageFails(j) \/ (j = Stray /\ StrayEnds)

LEMMA PastRegistryStays ==
    ASSUME TypeOK, NEW j \in Job, PastRegistry(j)
    PROVE  UNCHANGED worker /\ ~Building(j) /\ ~Building(j)'
<1> USE DEF TypeOK, Put, At, Building, PastRegistry
<1>1. CASE CheckAllowed(j)
  BY <1>1 DEF CheckAllowed, Failure
<1>2. CASE ToolReturns(j) \/ ToolRefuses(j)
  BY <1>2 DEF ToolReturns, ToolRefuses, Failure
<1>3. CASE ToolUnreachable(j)
  BY <1>3, Shapes DEF ToolUnreachable, Failure
<1>4. CASE ListEvidence(j)
  BY <1>4 DEF ListEvidence
<1>5. CASE CheckTail(j)
  BY <1>5, Shapes DEF CheckTail, Recording
<1>6. CASE RebuildTail(j)
  BY <1>6, Shapes DEF RebuildTail, Recording
<1>7. CASE RecordEvidence(j)
  BY <1>7, Shapes DEF RecordEvidence, Success, Recording
<1>8. CASE GetTail(j)
  <2>1. At(j, "get") /\ UNCHANGED worker
    BY <1>8 DEF GetTail
  <2>2. jobs'[j].pc = "put"
    BY <1>8, Updates
  <2> QED BY <2>1, <2>2
<1>9. CASE PutTail(j)
  BY <1>9 DEF PutTail, Success
<1>10. CASE StorageFails(j)
  BY <1>10, StrayIsNoSlot DEF StorageFails, Attempt, Resting
<1>11. CASE j = Stray /\ StrayEnds
  BY <1>11, StrayIsNoSlot DEF StrayEnds, Resting
<1> QED BY <1>1, <1>2, <1>3, <1>4, <1>5, <1>6, <1>7, <1>8, <1>9, <1>10, <1>11

LEMMA MutexStep ==
    ASSUME TypeOK, MutexIsHeld, Next
    PROVE  MutexIsHeld'
<1> USE DEF MutexIsHeld, Building, At
<1>1. ASSUME NEW j \in Job, Attempts(j) PROVE MutexIsHeld'
  <2>1. \A k \in Job \ {j} : jobs'[k] = jobs[k]
    BY <1>1, OthersStay
  <2>2. jobs'[j] = [jobs EXCEPT ![j] = jobs'[j]][j] /\ NoJob \notin Job
    BY StrayIsNoSlot DEF TypeOK
  <2>3. CASE PastRegistry(j)
    <3>1. UNCHANGED worker /\ ~Building(j) /\ ~Building(j)'
      BY <2>3, PastRegistryStays
    <3> QED BY <2>1, <2>2, <3>1 DEF worker, TypeOK
  <2>4. CASE UseCached(j)
    <3>1. jobs'[j].pc = "allowed"
      BY <2>4, Shapes DEF UseCached, Put, TypeOK
    <3> QED BY <2>1, <2>2, <2>4, <3>1 DEF UseCached, worker
  <2>5. CASE StartBuild(j)
    <3>1. /\ jobs'[j].pc = "build" /\ jobs'[j].next = 1
          /\ jobs'[j].order \in Orders
      BY <2>5 DEF StartBuild, Put, TypeOK
    <3> QED BY <2>1, <2>2, <2>5, <3>1 DEF StartBuild
  <2>6. CASE ConnectServer(j)
    <3>1. /\ jobs'[j].pc = "build" /\ jobs'[j].next = jobs[j].next + 1
          /\ jobs'[j].order = jobs[j].order
      BY <2>6, Updates DEF TypeOK
    <3>2. Building(j) /\ Building(j)' /\ UNCHANGED <<cache, lock>>
      BY <2>6, <3>1 DEF ConnectServer
    <3>3. \A k \in Job \ {j} : Building(k)' <=> Building(k)
      BY <2>1
    <3> HIDE DEF Building, At
    <3> QED BY <2>1, <3>1, <3>2, <3>3
  <2>7. CASE FinishBuild(j) \/ BuildFails(j)
    <3>1. jobs'[j].pc # "build" /\ lock' = NoJob /\ lock = j
      BY <2>7 DEF FinishBuild, BuildFails, Put, TypeOK, Failure
    <3> QED BY <2>1, <2>2, <3>1
  <2> QED BY <1>1, <2>3, <2>4, <2>5, <2>6, <2>7 DEF Attempts, JobStep, PastRegistry
<1>2. ASSUME NEW j \in Job, TimeOut(j) PROVE MutexIsHeld'
  <2>1. /\ jobs'[Stray] = jobs[j] /\ jobs'[j].pc = "registry" /\ j # Stray
        /\ \A k \in Job \ {j, Stray} : jobs'[k] = jobs[k]
        /\ jobs[Stray].pc = "rest"
    BY <1>2, StrayIsNoSlot DEF TimeOut, Attempt, TypeOK, Resting
  <2>2. cache' = cache /\ lock' = IF lock = j THEN Stray ELSE lock
    BY <1>2 DEF TimeOut
  <2> QED BY <2>1, <2>2, StrayIsNoSlot DEF TypeOK
<1>3. ASSUME NEW s \in DOMAIN procs, ServerDies(s) PROVE MutexIsHeld'
  BY <1>3 DEF ServerDies
<1>4. CASE DecideStep \/ BuildSeed
  BY <1>4 DEF DecideStep, BuildSeed, dispatch, worker
<1>5. CASE Dispatch
  <2>1. /\ UNCHANGED <<cache, lock>> /\ jobs'[Stray] = jobs[Stray]
        /\ \A j \in Slot : jobs[j].pc = "rest" /\ jobs'[j].pc \in {"rest", "registry"}
    BY <1>5, StrayIsNoSlot DEF Dispatch, StartBatch, worker, Attempt, Resting
  <2> QED BY <2>1 DEF Job, TypeOK
<1>6. CASE Observe
  <2>1. /\ UNCHANGED <<cache, lock>> /\ jobs'[Stray] = jobs[Stray]
        /\ \A j \in Slot : jobs[j].pc # "build" /\ jobs'[j].pc = "rest"
    BY <1>6, StrayIsNoSlot
       DEF Observe, CollectBatch, Joined, InFlight, worker, Resting
  <2> QED BY <2>1 DEF Job, TypeOK
<1>7. CASE WorkerFault
  <2>1. lock' = NoJob /\ cache' = NoRegistry /\ \A j \in Job : jobs'[j].pc # "build"
    BY <1>7 DEF WorkerFault, RestartWorker, InFlight, Attempt, Resting
  <2> QED BY <2>1
<1> QED BY <1>1, <1>2, <1>3, <1>4, <1>5, <1>6, <1>7, NextCases

\* Registering a server that is not there under the builtin's name, and the builtin.
LEMMA RegisterKeepsOwners ==
    ASSUME NEW registry, WellOwned(registry), NEW server, NEW names
    PROVE  WellOwned(Register(registry, server, Defs(server), names))
<1> DEFINE tools == registry.tools
           owners == registry.owners
           new == names \ DOMAIN tools
           moreTools == Extended(tools, new, server)
           moreOwners == Extended(owners, new, Defs(server))
<1>1. /\ registry = [built |-> registry.built, tools |-> tools, owners |-> owners]
      /\ registry.built = TRUE
  BY DEF WellOwned
<1>2. Register(registry, server, Defs(server), names) =
        [built |-> TRUE, tools |-> moreTools, owners |-> moreOwners]
  <2>1. [registry EXCEPT !.tools = moreTools, !.owners = moreOwners] =
            [built |-> registry.built, tools |-> moreTools, owners |-> moreOwners]
    <3>1. registry = [built |-> registry.built, tools |-> registry.tools,
                      owners |-> registry.owners]
      BY <1>1
    <3> HIDE DEF moreTools, moreOwners
    <3> QED BY <3>1, ToolsAndOwners
  <2> QED BY <1>1, <2>1, Zenon DEF Register
<1>3. /\ DOMAIN owners = DOMAIN tools
      /\ DOMAIN moreTools = DOMAIN tools \cup new
      /\ DOMAIN moreOwners = DOMAIN owners \cup new
  BY DEF Extended, WellOwned
<1>4. ASSUME NEW n \in DOMAIN tools \cup new
      PROVE  moreOwners[n] = Defs(moreTools[n])
  BY <1>3, <1>4 DEF Extended, WellOwned
<1> HIDE DEF moreTools, moreOwners, new, tools, owners
<1> QED BY <1>2, <1>3, <1>4 DEF WellOwned

LEMMA WellOwnedIsBuilt ==
    ASSUME NEW registry, WellOwned(registry)
    PROVE  registry # NoRegistry
BY DEF WellOwned, NoRegistry

LEMMA RegistryStep ==
    ASSUME TypeOK, MutexIsHeld, RegistryIsTrue, Next
    PROVE  RegistryIsTrue'
<1> USE DEF RegistryIsTrue, Building, At
<1>1. ASSUME NEW j \in Job, Attempts(j) PROVE RegistryIsTrue'
  <2>1. \A k \in Job \ {j} : jobs'[k] = jobs[k]
    BY <1>1, OthersStay
  <2>2. CASE PastRegistry(j)
    <3>1. UNCHANGED worker /\ jobs'[j].pc # "build"
      BY <2>2, PastRegistryStays
    <3>2. /\ jobs'[j].pc # "allowed"
          /\ jobs'[j].pc = "call" => cache # NoRegistry /\ IsCallAllowed(jobs'[j].call.tool)
      <4> USE DEF TypeOK, Put
      <4>1. CASE CheckAllowed(j)
        BY <4>1 DEF CheckAllowed, Failure
      <4>2. CASE ToolUnreachable(j)
        BY <4>2, Shapes DEF ToolUnreachable, Failure
      <4>3. CASE ToolReturns(j) \/ ToolRefuses(j) \/ ListEvidence(j)
        BY <4>3 DEF ToolReturns, ToolRefuses, ListEvidence, Failure
      <4>4. CASE CheckTail(j) \/ RebuildTail(j) \/ RecordEvidence(j) \/ PutTail(j)
        BY <4>4, Shapes DEF CheckTail, RebuildTail, RecordEvidence, PutTail, Success, Recording
      <4>5. CASE GetTail(j)
        <5>1. jobs'[j].pc = "put"
          BY <4>5, Updates
        <5> QED BY <5>1
      <4>6. CASE StorageFails(j) \/ (j = Stray /\ StrayEnds)
        BY <4>6, StrayIsNoSlot DEF StorageFails, StrayEnds, Attempt, Resting
      <4> QED BY <2>2, <4>1, <4>2, <4>3, <4>4, <4>5, <4>6 DEF PastRegistry
    <3> QED BY <2>1, <3>1, <3>2 DEF worker, IsCallAllowed
  <2>3. CASE UseCached(j)
    <3>1. jobs'[j].pc = "allowed"
      BY <2>3, Shapes DEF UseCached, Put, TypeOK
    <3> QED BY <2>1, <2>3, <3>1 DEF UseCached, worker, IsCallAllowed
  <2>4. CASE StartBuild(j)
    <3>1. jobs'[j].pc = "build" /\ jobs'[j].registry = EmptyRegistry
      BY <2>4 DEF StartBuild, Put, TypeOK
    <3>2. WellOwned(EmptyRegistry)
      BY DEF WellOwned, EmptyRegistry
    <3> QED BY <2>1, <2>4, <3>1, <3>2 DEF StartBuild, IsCallAllowed
  <2>5. CASE ConnectServer(j)
    <3> DEFINE s == jobs[j].order[jobs[j].next]
    <3>1. /\ jobs'[j].pc = "build"
          /\ jobs'[j].registry = Register(jobs[j].registry, s, DefIds(s), Advertises[s])
      BY <2>5, Updates DEF TypeOK
    <3>2. s \in Servers
      BY <2>5, NextServer DEF ConnectServer
    <3>3. DefIds(s) = Defs(s)
      BY <3>2, ServerAssumption DEF Defs
    <3>4. WellOwned(jobs[j].registry)
      BY <2>5 DEF ConnectServer
    <3>5. WellOwned(jobs'[j].registry)
      BY <3>1, <3>3, <3>4, RegisterKeepsOwners, Zenon
    <3> QED BY <2>1, <2>5, <3>1, <3>5 DEF ConnectServer, IsCallAllowed
  <2>6. CASE FinishBuild(j)
    <3>1. WellOwned(cache')
      <4>1. EchoDefIds = Defs(Builtin)
        BY DEF Defs
      <4>2. WellOwned(jobs[j].registry) /\ cache' = WithEcho(jobs[j].registry)
        BY <2>6 DEF FinishBuild
      <4> QED BY <4>1, <4>2, RegisterKeepsOwners, Zenon DEF WithEcho
    <3>2. jobs'[j].pc = "allowed"
      BY <2>6 DEF FinishBuild, Put, TypeOK
    <3>3. cache = NoRegistry /\ \A k \in Job : k # j => jobs[k].pc # "build"
      BY <2>6 DEF FinishBuild, MutexIsHeld
    <3> QED BY <2>1, <3>1, <3>2, <3>3, WellOwnedIsBuilt
  <2>7. CASE BuildFails(j)
    <3>1. jobs'[j].pc = "failure" /\ UNCHANGED cache
      BY <2>7 DEF BuildFails, Put, TypeOK, Failure
    <3> QED BY <2>1, <3>1 DEF IsCallAllowed
  <2> QED BY <1>1, <2>2, <2>3, <2>4, <2>5, <2>6, <2>7 DEF Attempts, JobStep, PastRegistry
<1>2. ASSUME NEW j \in Job, TimeOut(j) PROVE RegistryIsTrue'
  <2>1. /\ jobs'[Stray] = jobs[j] /\ jobs'[j].pc = "registry"
        /\ \A k \in Job \ {j, Stray} : jobs'[k] = jobs[k]
        /\ UNCHANGED cache
    BY <1>2, StrayIsNoSlot DEF TimeOut, Attempt, TypeOK
  <2> QED BY <2>1 DEF IsCallAllowed
<1>3. ASSUME NEW s \in DOMAIN procs, ServerDies(s) PROVE RegistryIsTrue'
  BY <1>3 DEF ServerDies, IsCallAllowed
<1>4. CASE DecideStep \/ BuildSeed
  BY <1>4 DEF DecideStep, BuildSeed, dispatch, worker, IsCallAllowed
<1>5. CASE Dispatch
  <2>1. /\ UNCHANGED cache /\ jobs'[Stray] = jobs[Stray]
        /\ \A j \in Slot : jobs'[j].pc \in {"rest", "registry"}
    BY <1>5, StrayIsNoSlot DEF Dispatch, StartBatch, worker, Attempt, Resting
  <2> QED BY <2>1 DEF Job, IsCallAllowed
<1>6. CASE Observe
  <2>1. /\ UNCHANGED cache /\ jobs'[Stray] = jobs[Stray]
        /\ \A j \in Slot : jobs'[j].pc = "rest"
    BY <1>6, StrayIsNoSlot DEF Observe, CollectBatch, worker, Resting
  <2> QED BY <2>1 DEF Job, IsCallAllowed
<1>7. CASE WorkerFault
  <2>1. cache' = NoRegistry /\ \A j \in Job : jobs'[j].pc \notin {"build", "allowed", "call"}
    BY <1>7 DEF WorkerFault, RestartWorker, InFlight, Attempt, Resting
  <2> QED BY <2>1
<1> QED BY <1>1, <1>2, <1>3, <1>4, <1>5, <1>6, <1>7, NextCases

\* Only an attempt that was allowed executes a tool.
LEMMA GrantedStep ==
    ASSUME TypeOK, RegistryIsTrue, OnlyGrantedRun, Next
    PROVE  OnlyGrantedRun'
<1>1. ASSUME NEW j \in Job, Attempts(j) PROVE OnlyGrantedRun'
  <2>1. CASE ToolReturns(j) \/ ToolRefuses(j)
    <3> DEFINE tool == jobs[j].call.tool
               server == cache.tools[tool]
    <3>1. ran' = ran \cup {<<server, tool>>} /\ At(j, "call")
      BY <2>1 DEF ToolReturns, ToolRefuses, Executed, Server
    <3>2. /\ tool \in DOMAIN cache.owners /\ cache.owners[tool] \cap Granted # {}
          /\ WellOwned(cache)
      BY <3>1 DEF RegistryIsTrue, IsCallAllowed, At
    <3>3. Granted \cap Defs(server) # {}
      BY <3>2 DEF WellOwned
    <3> HIDE DEF tool, server
    <3> QED BY <3>1, <3>3 DEF OnlyGrantedRun, Defs
  <2>2. CASE ~ToolReturns(j) /\ ~ToolRefuses(j)
    <3>1. ran' = ran
      BY <1>1, <2>2
         DEF Attempts, JobStep, UseCached, StartBuild, ConnectServer, FinishBuild,
             CheckAllowed, ToolUnreachable, ListEvidence, CheckTail, RebuildTail,
             RecordEvidence, GetTail, PutTail, BuildFails, StorageFails, StrayEnds
    <3> QED BY <3>1 DEF OnlyGrantedRun
  <2> QED BY <2>1, <2>2
<1>2. ASSUME ran' = ran PROVE OnlyGrantedRun'
  BY <1>2 DEF OnlyGrantedRun
<1>3. CASE (\E j \in Job : TimeOut(j)) \/ (\E s \in DOMAIN procs : ServerDies(s))
  BY <1>2, <1>3 DEF TimeOut, ServerDies
<1>4. CASE DecideStep \/ BuildSeed \/ Dispatch \/ Observe \/ WorkerFault
  BY <1>2, <1>4 DEF DecideStep, BuildSeed, Dispatch, StartBatch, Observe, CollectBatch,
                    WorkerFault, RestartWorker, dispatch
<1> QED BY <1>1, <1>3, <1>4, NextCases

-----------------------------------------------------------------------------
(* The servers.                                                            *)

LEMMA NoneConnects ==
    ASSUME NoOrphanServer, cache' = cache, lock' = lock, lock # NoJob => jobs'[lock] = jobs[lock],
           \A s \in Servers : procs'[s] <= procs[s], TypeOK, procs' \in [Servers -> Nat]
    PROVE  NoOrphanServer'
<1>1. ASSUME NEW s \in Servers PROVE Needed(s)' = Needed(s)
  BY DEF Needed, Connected
<1>2. \A s \in Servers : procs[s] \in Nat /\ procs'[s] \in Nat
  BY DEF TypeOK
<1> QED BY <1>1, <1>2 DEF NoOrphanServer

LEMMA ServersStep ==
    ASSUME TypeOK, MutexIsHeld, RegistryIsTrue, NoOrphanServer, Next
    PROVE  NoOrphanServer'
<1>1. procs' \in [Servers -> Nat] /\ procs \in [Servers -> Nat]
  BY ProcsStay DEF TypeOK
<1>2. ASSUME NEW j \in Job, Attempts(j) PROVE NoOrphanServer'
  <2>1. \A k \in Job \ {j} : jobs'[k] = jobs[k]
    BY <1>2, OthersStay
  <2>2. CASE PastRegistry(j) \/ UseCached(j)
    <3>1. UNCHANGED worker /\ (lock # NoJob => lock # j)
      BY <2>2, PastRegistryStays DEF UseCached, MutexIsHeld, Building
    <3> QED BY <1>1, <2>1, <3>1, NoneConnects DEF worker, TypeOK
  <2>3. CASE StartBuild(j)
    <3>1. \A s \in Servers : procs[s] <= 0
      BY <2>3 DEF StartBuild, NoOrphanServer, Needed
    <3> QED BY <1>1, <2>3, <3>1 DEF StartBuild, NoOrphanServer
  <2>4. CASE ConnectServer(j)
    <3> DEFINE order == jobs[j].order
               next == jobs[j].next
    <3>1. /\ lock = j /\ lock' = j /\ cache = NoRegistry /\ cache' = NoRegistry
          /\ order \in Orders /\ next \in Nat \ {0} /\ next <= Len(order)
          /\ procs' = [procs EXCEPT ![order[next]] = @ + 1]
      BY <2>4 DEF ConnectServer, MutexIsHeld, Building
    <3>2. jobs'[j].order = order /\ jobs'[j].next = next + 1
      BY <2>4, Updates DEF TypeOK
    <3>3. /\ Len(order) \in Nat /\ order \in [1 .. Len(order) -> Servers]
          /\ \A i, k \in 1 .. Len(order) : i # k => order[i] # order[k]
      BY <3>1, OrderIsOnce
    <3>4. /\ j # NoJob
          /\ \A s \in Servers : Needed(s) <=> \E i \in 1 .. next - 1 : order[i] = s
      BY <3>1, StrayIsNoSlot DEF Needed, Connected
    <3>5. \A s \in Servers : Needed(s)' <=> \E i \in 1 .. next : order[i] = s
      BY <3>1, <3>2, <3>4 DEF Needed, Connected
    <3>6. ~Needed(order[next]) /\ order[next] \in Servers
      BY <3>1, <3>3, <3>4
    <3>7. procs[order[next]] <= 0 /\ \A s \in Servers : Needed(s) => Needed(s)'
      BY <3>1, <3>4, <3>5, <3>6 DEF NoOrphanServer
    <3> HIDE DEF order, next
    <3>8. ASSUME NEW s \in Servers
          PROVE  procs'[s] <= IF Needed(s)' THEN 1 ELSE 0
      <4>1. CASE s = order[next]
        BY <4>1, <1>1, <3>1, <3>7, <3>5, <3>6
      <4>2. CASE s # order[next]
        BY <4>2, <1>1, <3>1, <3>7 DEF NoOrphanServer
      <4> QED BY <4>1, <4>2
    <3> QED BY <3>8 DEF NoOrphanServer
  <2>5. CASE FinishBuild(j)
    <3>1. cache' # NoRegistry
      <4>1. RegistryIsTrue'
        BY RegistryStep
      <4>2. jobs'[j].pc = "allowed"
        BY <2>5 DEF FinishBuild, Put, TypeOK
      <4> QED BY <4>1, <4>2 DEF RegistryIsTrue
    <3>2. \A s \in Servers : procs[s] <= 1 /\ procs'[s] = procs[s]
      BY <1>1, <2>5 DEF NoOrphanServer, FinishBuild
    <3> QED BY <3>1, <3>2 DEF NoOrphanServer, Needed
  <2>6. CASE BuildFails(j)
    <3> DEFINE order == jobs[j].order
               next == jobs[j].next
    <3>1. /\ lock = j /\ j # NoJob /\ lock' = NoJob /\ cache = NoRegistry
          /\ order \in Orders /\ next \in Nat \ {0} /\ next <= Len(order)
          /\ procs' = Disconnected(SubSeq(order, 1, next - 1))
      BY <2>6, StrayIsNoSlot DEF BuildFails, MutexIsHeld, Building
    <3>2. Len(order) \in Nat /\ order \in [1 .. Len(order) -> Servers]
      BY <3>1, OrderIsOnce
    <3>3. ASSUME NEW s \in Servers, Connected(j, s)
          PROVE  s \in ToSet(SubSeq(order, 1, next - 1))
      <4>1. PICK i \in 1 .. next - 1 : order[i] = s
        BY <3>3 DEF Connected
      <4>2. /\ DOMAIN SubSeq(order, 1, next - 1) = 1 .. next - 1
            /\ SubSeq(order, 1, next - 1)[i] = s
        BY <3>1, <3>2, <4>1
      <4> QED BY <4>1, <4>2 DEF ToSet
    <3>4. ASSUME NEW s \in Servers PROVE procs'[s] <= 0
      <4>1. procs'[s] = IF s \in ToSet(SubSeq(order, 1, next - 1)) /\ procs[s] > 0
                        THEN procs[s] - 1 ELSE procs[s]
        BY <1>1, <3>1 DEF Disconnected
      <4>2. procs[s] <= IF Connected(j, s) THEN 1 ELSE 0
        BY <3>1 DEF NoOrphanServer, Needed
      <4> QED BY <1>1, <3>3, <4>1, <4>2
    <3> QED BY <1>1, <3>4 DEF NoOrphanServer
  <2> QED BY <1>2, <2>2, <2>3, <2>4, <2>5, <2>6 DEF Attempts, JobStep, PastRegistry
<1>3. ASSUME NEW j \in Job, TimeOut(j) PROVE NoOrphanServer'
  <2>1. /\ jobs'[Stray] = jobs[j] /\ jobs[Stray].pc = "rest" /\ j # NoJob /\ Stray # NoJob
        /\ \A k \in Job \ {j, Stray} : jobs'[k] = jobs[k]
        /\ cache' = cache /\ procs' = procs /\ lock' = IF lock = j THEN Stray ELSE lock
    BY <1>3, StrayIsNoSlot DEF TimeOut, TypeOK, Resting
  <2>2. lock \in Job \cup {NoJob} /\ (lock # NoJob => lock # Stray)
    BY <2>1 DEF MutexIsHeld, Building, At, TypeOK
  <2>3. \A s \in Servers : Needed(s)' <=> Needed(s)
    BY <2>1, <2>2 DEF Needed, Connected
  <2> QED BY <2>1, <2>3 DEF NoOrphanServer
<1>4. ASSUME NEW s \in DOMAIN procs, ServerDies(s) PROVE NoOrphanServer'
  BY <1>1, <1>4, NoneConnects DEF ServerDies
<1>5. CASE DecideStep \/ BuildSeed
  BY <1>1, <1>5, NoneConnects DEF DecideStep, BuildSeed, dispatch, worker
<1>6. CASE Dispatch \/ Observe
  <2>1. UNCHANGED worker /\ jobs'[Stray] = jobs[Stray]
    BY <1>6, StrayIsNoSlot DEF Dispatch, StartBatch, Observe, CollectBatch
  <2>2. \A j \in Slot : jobs[j].pc # "build"
    BY <1>6 DEF Dispatch, StartBatch, Observe, CollectBatch, Joined, InFlight, Resting
  <2>3. lock # NoJob => lock = Stray
    BY <2>2 DEF MutexIsHeld, Building, At, TypeOK, Job
  <2> QED BY <1>1, <2>1, <2>3, NoneConnects DEF worker
<1>7. CASE WorkerFault
  BY <1>1, <1>7 DEF WorkerFault, RestartWorker, NoOrphanServer
<1> QED BY <1>2, <1>3, <1>4, <1>5, <1>6, <1>7, NextCases

-----------------------------------------------------------------------------
(* The evidence.                                                           *)

\* What attempt j knows of the evidence, in a file system with these records.
Knows(job, records) ==
    /\ job.pc \in Recording => job.seen \subseteq records
    /\ job.pc \in {"get", "put"} => Path(job) \in records
    /\ job.pc = "success" => job.path \in records

LEMMA KnowsMore ==
    ASSUME NEW job, NEW old, NEW new, old \subseteq new, Knows(job, old)
    PROVE  Knows(job, new)
BY DEF Knows

\* A record is put before the sidecar or an outcome names it.
LEMMA AttemptKnows ==
    ASSUME TypeOK, EvidenceIsThere, NEW j \in Job, Attempts(j)
    PROVE  /\ files \subseteq files' /\ tail' \subseteq files'
           /\ Knows(jobs'[j], files')
<1> USE DEF TypeOK, Put, At
<1>1. Knows(jobs[j], files) /\ tail \subseteq files
  BY DEF EvidenceIsThere, Knows
<1>2. CASE UseCached(j) \/ StartBuild(j) \/ FinishBuild(j) \/ BuildFails(j)
           \/ CheckAllowed(j) \/ ToolReturns(j) \/ ToolRefuses(j) \/ ToolUnreachable(j)
  <2>1. UNCHANGED fs /\ jobs'[j].pc \in {"allowed", "build", "failure", "call", "list"}
    BY <1>2, Shapes DEF UseCached, StartBuild, FinishBuild, BuildFails, CheckAllowed,
                        ToolReturns, ToolRefuses, ToolUnreachable, Failure
  <2> QED BY <1>1, <2>1 DEF Knows, Recording, fs
<1>3. CASE ConnectServer(j)
  <2>1. jobs'[j].pc = "build"
    BY <1>3, Updates
  <2> QED BY <1>1, <1>3, <2>1 DEF ConnectServer, Knows, Recording, fs
<1>4. CASE ListEvidence(j)
  BY <1>1, <1>4 DEF ListEvidence, Knows, Recording, fs
<1>5. CASE CheckTail(j)
  BY <1>1, <1>5, Shapes DEF CheckTail, Knows, Recording, fs
<1>6. CASE RebuildTail(j)
  BY <1>1, <1>6, Shapes DEF RebuildTail, Knows, Recording
<1>7. CASE RecordEvidence(j)
  <2>1. jobs[j] = [pc |-> "record", call |-> jobs[j].call, record |-> jobs[j].record,
                   seen |-> jobs[j].seen]
    BY <1>7, Shapes DEF RecordEvidence, Recording
  <2>2. CASE Path(jobs[j]) \in files
    BY <1>1, <1>7, <2>1, <2>2 DEF RecordEvidence, Success, Knows, Recording
  <2>3. CASE Path(jobs[j]) \notin files
    <3>1. jobs'[j] = [pc |-> "get", call |-> jobs[j].call, record |-> jobs[j].record,
                      seen |-> jobs[j].seen]
      BY <1>7, <2>1, <2>3 DEF RecordEvidence
    <3>2. Path(jobs'[j]) = Path(jobs[j])
      BY <3>1 DEF Path
    <3> QED BY <1>1, <1>7, <2>1, <3>1, <3>2 DEF RecordEvidence, Knows, Recording
  <2> QED BY <2>2, <2>3
<1>8. CASE GetTail(j)
  <2>1. jobs'[j] = [pc |-> "put", call |-> jobs[j].call, record |-> jobs[j].record,
                    seen |-> tail]
    BY <1>8, Updates
  <2>2. jobs[j].pc = "get" /\ UNCHANGED fs
    BY <1>8 DEF GetTail
  <2>3. Path(jobs'[j]) = Path(jobs[j])
    BY <2>1 DEF Path
  <2> QED BY <1>1, <2>1, <2>2, <2>3 DEF Knows, Recording, fs
<1>9. CASE PutTail(j)
  BY <1>1, <1>9 DEF PutTail, Success, Knows, Recording
<1>10. CASE StorageFails(j)
  BY <1>1, <1>10 DEF StorageFails, Resting, Attempt, Knows, Recording, fs
<1>11. CASE j = Stray /\ StrayEnds
  BY <1>1, <1>11 DEF StrayEnds, Resting, Knows, Recording, fs
<1> QED BY <1>2, <1>3, <1>4, <1>5, <1>6, <1>7, <1>8, <1>9, <1>10, <1>11 DEF Attempts, JobStep

LEMMA EvidenceStep ==
    ASSUME TypeOK, EvidenceIsThere, Next
    PROVE  EvidenceIsThere'
<1>1. /\ tail \subseteq files /\ \A j \in Job : Knows(jobs[j], files)
      /\ \A i \in DOMAIN steps : steps[i].cited \subseteq files
  BY DEF EvidenceIsThere, Knows, At
<1>2. ASSUME files \subseteq files', tail' \subseteq files',
             \A j \in Job : Knows(jobs'[j], files'),
             \A i \in DOMAIN steps' : steps'[i].cited \subseteq files'
      PROVE  EvidenceIsThere'
  BY <1>2 DEF EvidenceIsThere, Knows, At
<1>3. \A job : job.pc \in {"rest", "registry", "failure"} => Knows(job, files)
  BY DEF Knows, Recording
<1>4. ASSUME NEW j \in Job, Attempts(j), UNCHANGED agent PROVE EvidenceIsThere'
  <2>1. \A k \in Job \ {j} : jobs'[k] = jobs[k]
    BY <1>4, OthersStay
  <2>2. files \subseteq files' /\ tail' \subseteq files' /\ Knows(jobs'[j], files')
    BY <1>4, AttemptKnows
  <2>3. \A k \in Job : Knows(jobs'[k], files')
    BY <1>1, <2>1, <2>2, KnowsMore
  <2> QED BY <1>1, <1>2, <1>4, <2>2, <2>3 DEF agent
<1>5. ASSUME NEW j \in Job, TimeOut(j), UNCHANGED agent PROVE EvidenceIsThere'
  <2>1. /\ jobs'[Stray] = jobs[j] /\ jobs'[j].pc = "registry"
        /\ \A k \in Job \ {j, Stray} : jobs'[k] = jobs[k]
        /\ UNCHANGED fs
    BY <1>5, StrayIsNoSlot DEF TimeOut, Attempt, TypeOK
  <2>2. \A k \in Job : Knows(jobs'[k], files)
    BY <1>1, <1>3, <2>1
  <2> QED BY <1>1, <1>2, <1>5, <2>1, <2>2 DEF agent, fs
<1>6. ASSUME NEW s \in DOMAIN procs, ServerDies(s), UNCHANGED agent PROVE EvidenceIsThere'
  BY <1>1, <1>2, <1>6 DEF ServerDies, agent, fs
<1>7. CASE DecideStep
  <2>1. UNCHANGED dispatch
    BY <1>7 DEF DecideStep
  <2>2. \A i \in DOMAIN steps' : steps'[i].cited \subseteq files
    BY <1>1, <1>7 DEF DecideStep, StartDecide, Hear, Fail, EndCycle, Fuse, ExecuteOther,
                      DecideFault, agent
  <2> QED BY <1>1, <1>2, <2>1, <2>2 DEF dispatch
<1>8. CASE BuildSeed
  BY <1>1, <1>2, <1>8 DEF BuildSeed
<1>9. CASE Dispatch
  <2>1. /\ UNCHANGED fs /\ steps' = steps /\ jobs'[Stray] = jobs[Stray]
        /\ \A j \in Slot : jobs'[j].pc \in {"rest", "registry"}
    BY <1>9, StrayIsNoSlot DEF Dispatch, StartBatch, Attempt, Resting
  <2>2. \A j \in Job : Knows(jobs'[j], files)
    BY <1>1, <1>3, <2>1 DEF Job
  <2> QED BY <1>1, <1>2, <2>1, <2>2 DEF fs
<1>10. CASE Observe
  <2>1. /\ UNCHANGED fs /\ steps' = <<Observation>> /\ jobs'[Stray] = jobs[Stray]
        /\ \A j \in Slot : jobs'[j].pc = "rest"
    BY <1>10, StrayIsNoSlot DEF Observe, CollectBatch, Resting
  <2>2. \A j \in Job : Knows(jobs'[j], files)
    BY <1>1, <1>3, <2>1 DEF Job
  <2>3. Observation.cited \subseteq files
    <3>1. CASE \E j \in Batch : At(j, "failure")
      BY <3>1 DEF Observation
    <3>2. CASE \A j \in Batch : ~At(j, "failure")
      <4>1. \A j \in Batch : j \in Job /\ jobs[j].pc = "success"
        BY <1>10, <3>2, StrayIsNoSlot, Shapes
           DEF Batch, Observe, CollectBatch, Joined, InFlight, At
      <4>2. \A j \in Batch : jobs[j].path \in files
        BY <1>1, <4>1 DEF Knows
      <4> QED BY <3>2, <4>2 DEF Observation
    <3> QED BY <3>1, <3>2
  <2> QED BY <1>1, <1>2, <2>1, <2>2, <2>3 DEF fs
<1>11. CASE WorkerFault
  <2>1. /\ UNCHANGED fs /\ steps' = steps
        /\ \A j \in Job : jobs'[j] = jobs[j] \/ jobs'[j].pc \in {"rest", "registry"}
    BY <1>11 DEF WorkerFault, RestartWorker, Attempt, Resting, agent
  <2>2. \A j \in Job : Knows(jobs'[j], files)
    BY <1>1, <1>3, <2>1
  <2> QED BY <1>1, <1>2, <2>1, <2>2 DEF fs
<1> QED BY <1>4, <1>5, <1>6, <1>7, <1>8, <1>9, <1>10, <1>11, NextCases

\* What an attempt knows of the records from before its batch, by a sidecar with these.
Recalls(job, old, listed) ==
    /\ job.pc \in {"lags", "rebuild", "put"} => old \subseteq job.seen
    /\ job.pc \in {"record", "get", "put", "success"} => old \subseteq listed

LEMMA StillRecalls ==
    ASSUME NEW job, NEW old, NEW listed, NEW new, old \subseteq listed => old \subseteq new,
           Recalls(job, old, listed)
    PROVE  Recalls(job, old, new)
BY DEF Recalls

\* An attempt writes no sidecar but one that it has read or rebuilt since.
LEMMA AttemptRecalls ==
    ASSUME TypeOK, NEW j \in Job, Attempts(j), before \subseteq files,
           Recalls(jobs[j], before, tail)
    PROVE  /\ files \subseteq files'
           /\ before \subseteq tail => before \subseteq tail'
           /\ Recalls(jobs'[j], before, tail')
<1> USE DEF TypeOK, Put, At
<1>1. CASE UseCached(j) \/ StartBuild(j) \/ FinishBuild(j) \/ BuildFails(j)
           \/ CheckAllowed(j) \/ ToolReturns(j) \/ ToolRefuses(j) \/ ToolUnreachable(j)
  <2>1. UNCHANGED fs /\ jobs'[j].pc \in {"allowed", "build", "failure", "call", "list"}
    BY <1>1, Shapes DEF UseCached, StartBuild, FinishBuild, BuildFails, CheckAllowed,
                        ToolReturns, ToolRefuses, ToolUnreachable, Failure
  <2> QED BY <2>1 DEF Recalls, fs
<1>2. CASE ConnectServer(j)
  <2>1. jobs'[j].pc = "build"
    BY <1>2, Updates
  <2> QED BY <1>2, <2>1 DEF ConnectServer, Recalls, fs
<1>3. CASE ListEvidence(j)
  BY <1>3 DEF ListEvidence, Recalls, fs
<1>4. CASE CheckTail(j)
  <2>1. /\ jobs[j] = [pc |-> "lags", call |-> jobs[j].call, record |-> jobs[j].record,
                      seen |-> jobs[j].seen]
        /\ UNCHANGED fs
    BY <1>4, Shapes DEF CheckTail, Recording
  <2>2. before \subseteq jobs[j].seen
    BY <2>1 DEF Recalls
  <2>3. CASE jobs[j].seen \subseteq tail
    BY <1>4, <2>1, <2>2, <2>3 DEF CheckTail, Recalls, fs
  <2>4. CASE ~(jobs[j].seen \subseteq tail)
    BY <1>4, <2>1, <2>2, <2>4 DEF CheckTail, Recalls, fs
  <2> QED BY <2>3, <2>4
<1>5. CASE RebuildTail(j)
  <2>1. jobs[j] = [pc |-> "rebuild", call |-> jobs[j].call, record |-> jobs[j].record,
                   seen |-> jobs[j].seen]
    BY <1>5, Shapes DEF RebuildTail, Recording
  <2> QED BY <1>5, <2>1 DEF RebuildTail, Recalls
<1>6. CASE RecordEvidence(j)
  <2>1. before \subseteq tail /\ tail' = tail /\ files \subseteq files'
    BY <1>6 DEF RecordEvidence, Recalls
  <2>2. jobs'[j].pc \in {"success", "get"}
    <3>1. jobs[j] = [pc |-> "record", call |-> jobs[j].call, record |-> jobs[j].record,
                     seen |-> jobs[j].seen]
      BY <1>6, Shapes DEF RecordEvidence, Recording
    <3> QED BY <1>6, <3>1 DEF RecordEvidence, Success
  <2> QED BY <2>1, <2>2 DEF Recalls
<1>7. CASE GetTail(j)
  <2>1. jobs'[j].pc = "put" /\ jobs'[j].seen = tail
    BY <1>7, Updates
  <2> QED BY <1>7, <2>1 DEF GetTail, Recalls, fs
<1>8. CASE PutTail(j)
  <2>1. before \subseteq tail' /\ files' = files /\ jobs'[j].pc = "success"
    BY <1>8 DEF PutTail, Success, Recalls
  <2> QED BY <2>1 DEF Recalls
<1>9. CASE StorageFails(j)
  BY <1>9 DEF StorageFails, Resting, Attempt, Recalls, fs
<1>10. CASE j = Stray /\ StrayEnds
  BY <1>10 DEF StrayEnds, Resting, Recalls, fs
<1> QED BY <1>1, <1>2, <1>3, <1>4, <1>5, <1>6, <1>7, <1>8, <1>9, <1>10 DEF Attempts, JobStep

LEMMA ListedStep ==
    ASSUME TypeOK, BatchIsListed, Next
    PROVE  BatchIsListed'
<1>1. /\ before \subseteq files
      /\ ~late => \A j \in Job : Recalls(jobs[j], before, tail)
  BY DEF BatchIsListed, Recalls
<1>2. ASSUME before' \subseteq files',
             ~late' => \A j \in Job : Recalls(jobs'[j], before', tail')
      PROVE  BatchIsListed'
  BY <1>2 DEF BatchIsListed, Recalls
<1>3. \A job, old, listed : job.pc \in {"rest", "registry", "failure"} =>
                                Recalls(job, old, listed)
  BY DEF Recalls
<1>4. ASSUME NEW j \in Job, Attempts(j), UNCHANGED agent PROVE BatchIsListed'
  <2>1. \A k \in Job \ {j} : jobs'[k] = jobs[k]
    BY <1>4, OthersStay
  <2>2. UNCHANGED <<before, late>>
    BY <1>4 DEF agent, batch
  <2>3. CASE late
    <3>1. files \subseteq files'
      BY <1>4 DEF Attempts, JobStep, UseCached, StartBuild, ConnectServer, FinishBuild,
                  CheckAllowed, ToolReturns, ToolUnreachable, ListEvidence, CheckTail,
                  RebuildTail, RecordEvidence, GetTail, PutTail, ToolRefuses, BuildFails,
                  StorageFails, StrayEnds, fs
    <3> QED BY <1>1, <1>2, <2>2, <2>3, <3>1
  <2>4. CASE ~late
    <3>1. /\ files \subseteq files' /\ Recalls(jobs'[j], before, tail')
          /\ before \subseteq tail => before \subseteq tail'
      BY <1>1, <1>4, <2>4, AttemptRecalls
    <3>2. ASSUME NEW k \in Job PROVE Recalls(jobs'[k], before, tail')
      <4>1. Recalls(jobs[k], before, tail')
        BY <1>1, <2>4, <3>1, StillRecalls
      <4> QED BY <2>1, <3>1, <4>1
    <3> QED BY <1>1, <1>2, <2>2, <3>1, <3>2
  <2> QED BY <2>3, <2>4
<1>5. ASSUME NEW j \in Job, TimeOut(j), UNCHANGED agent PROVE BatchIsListed'
  <2>1. /\ jobs'[Stray] = jobs[j] /\ jobs'[j].pc = "registry"
        /\ \A k \in Job \ {j, Stray} : jobs'[k] = jobs[k]
        /\ UNCHANGED fs
    BY <1>5, StrayIsNoSlot DEF TimeOut, Attempt, TypeOK
  <2>2. UNCHANGED <<before, late>>
    BY <1>5 DEF agent, batch
  <2>3. ~late => \A k \in Job : Recalls(jobs'[k], before, tail)
    BY <1>1, <1>3, <2>1
  <2> QED BY <1>1, <1>2, <2>1, <2>2, <2>3 DEF fs
<1>6. ASSUME UNCHANGED <<jobs, fs, batch>> PROVE BatchIsListed'
  BY <1>1, <1>2, <1>6 DEF fs, batch
<1>7. ASSUME NEW s \in DOMAIN procs, ServerDies(s), UNCHANGED agent PROVE BatchIsListed'
  BY <1>6, <1>7 DEF ServerDies, agent
<1>8. CASE DecideStep
  BY <1>6, <1>8 DEF DecideStep, dispatch, fs, StartDecide, Hear, Fail, EndCycle, Fuse,
                    ExecuteOther, DecideFault, agent
<1>9. CASE BuildSeed
  <2>1. UNCHANGED <<jobs, files, before, late>>
    BY <1>9 DEF BuildSeed, batch
  <2>2. before \subseteq tail => before \subseteq tail'
    BY <1>1, <1>9 DEF BuildSeed
  <2>3. ~late => \A k \in Job : Recalls(jobs[k], before, tail')
    BY <1>1, <2>2, StillRecalls
  <2> QED BY <1>1, <1>2, <2>1, <2>3
<1>10. CASE Dispatch
  <2>1. /\ UNCHANGED fs /\ before' = files /\ late' = (jobs[Stray] # Resting)
        /\ jobs'[Stray] = jobs[Stray]
        /\ \A j \in Slot : jobs'[j].pc \in {"rest", "registry"}
    BY <1>10, StrayIsNoSlot DEF Dispatch, StartBatch, Attempt, Resting
  <2>2. ASSUME ~late' PROVE jobs'[Stray].pc = "rest"
    <3>1. jobs[Stray] = Resting
      BY <2>1, <2>2
    <3> QED BY <2>1, <3>1 DEF Resting
  <2>3. ~late' => \A j \in Job : Recalls(jobs'[j], before', tail')
    BY <1>3, <2>1, <2>2 DEF Job
  <2> QED BY <1>2, <2>1, <2>3 DEF fs
<1>11. CASE Observe
  <2>1. before' = {}
    BY <1>11 DEF Observe
  <2> QED BY <1>2, <2>1 DEF Recalls
<1>12. CASE WorkerFault
  <2>1. /\ UNCHANGED <<fs, batch>>
        /\ \A j \in Job : jobs'[j] = jobs[j] \/ jobs'[j].pc \in {"rest", "registry"}
    BY <1>12 DEF WorkerFault, RestartWorker, Attempt, Resting, agent
  <2>2. ~late => \A j \in Job : Recalls(jobs'[j], before, tail)
    BY <1>1, <1>3, <2>1
  <2> QED BY <1>1, <1>2, <2>1, <2>2 DEF fs, batch
<1> QED BY <1>4, <1>5, <1>7, <1>8, <1>9, <1>10, <1>11, <1>12, NextCases

-----------------------------------------------------------------------------
(* The decision.                                                           *)

\* An attempt that rests does nothing by itself.
LEMMA RestingRests ==
    ASSUME NEW j \in Job, Attempts(j) \/ TimeOut(j)
    PROVE  jobs[j] # Resting
<1>1. jobs[j] = Resting => jobs[j].pc = "rest"
  BY DEF Resting
<1> QED BY <1>1
       DEF Attempts, JobStep, UseCached, StartBuild, ConnectServer, FinishBuild, CheckAllowed,
           ToolReturns, ToolUnreachable, ListEvidence, CheckTail, RebuildTail, RecordEvidence,
           GetTail, PutTail, ToolRefuses, BuildFails, StorageFails, StrayEnds, TimeOut,
           InFlight, At

LEMMA PhaseStep ==
    ASSUME TypeOK, OneAtATime, Next
    PROVE  OneAtATime'
<1> USE DEF OneAtATime
<1>1. ASSUME UNCHANGED <<decide, agent>>, \A j \in Slot : jobs[j] = Resting => jobs'[j] = Resting
      PROVE  OneAtATime'
  BY <1>1 DEF decide, agent
<1>2. ASSUME NEW j \in Job, Attempts(j), UNCHANGED <<decide, agent>> PROVE OneAtATime'
  BY <1>1, <1>2, OthersStay, RestingRests, StrayIsNoSlot
<1>3. ASSUME NEW j \in Job, TimeOut(j), UNCHANGED <<decide, agent>> PROVE OneAtATime'
  <2>1. \A k \in Slot \ {j} : jobs'[k] = jobs[k]
    BY <1>3, StrayIsNoSlot DEF TimeOut, TypeOK
  <2> QED BY <1>1, <1>3, <2>1, RestingRests
<1>4. ASSUME NEW s \in DOMAIN procs, ServerDies(s), UNCHANGED <<decide, agent>>
      PROVE  OneAtATime'
  BY <1>1, <1>4 DEF ServerDies
<1>5. CASE DecideStep
  <2>1. UNCHANGED jobs
    BY <1>5 DEF DecideStep, dispatch
  <2>2. CASE StartDecide
    BY <2>1, <2>2 DEF StartDecide, Ask, agent
  <2>3. CASE Hear
    <3>1. talk # NoTalk /\ reply = NoReply /\ UNCHANGED agent
      BY <2>3 DEF Hear
    <3>2. talk' # NoTalk => reply' = NoReply
      BY <2>3, <3>1
         DEF Hear, HearResponse, HearError, Decide, AskAgain, GiveUp
    <3> QED BY <2>1, <3>1, <3>2 DEF agent, NoReply, Failed
  <2>4. CASE Fail
    BY <2>1, <2>4 DEF Fail, decide, NoReply, Failed
  <2>5. CASE EndCycle
    <3>1. talk = NoTalk /\ phase # "dispatching"
      BY <2>5 DEF EndCycle, TakeReply
    <3> QED BY <2>1, <2>5, <3>1 DEF EndCycle, TakeReply
  <2>6. CASE Fuse
    BY <2>1, <2>6 DEF Fuse, decide
  <2>7. CASE ExecuteOther
    BY <2>1, <2>7 DEF ExecuteOther, TakeReply, Decided, Failed
  <2>8. CASE DecideFault
    BY <2>1, <2>8 DEF DecideFault, LoseAttempt, agent
  <2> QED BY <1>5, <2>2, <2>3, <2>4, <2>5, <2>6, <2>7, <2>8 DEF DecideStep
<1>6. CASE BuildSeed
  BY <1>6 DEF BuildSeed, decide
<1>7. CASE Dispatch
  BY <1>7 DEF Dispatch, TakeReply
<1>8. CASE Observe
  BY <1>8, StrayIsNoSlot DEF Observe, CollectBatch, decide
<1>9. CASE WorkerFault
  <2>1. \A j \in Slot : jobs[j] = Resting => jobs'[j] = Resting
    BY <1>9, StrayIsNoSlot DEF WorkerFault, RestartWorker, InFlight, Resting
  <2>2. CASE LoseAttempt
    BY <1>9, <2>1, <2>2 DEF WorkerFault, LoseAttempt, agent
  <2>3. CASE UNCHANGED decide
    BY <1>1, <1>9, <2>1, <2>3 DEF WorkerFault
  <2> QED BY <1>9, <2>2, <2>3 DEF WorkerFault
<1> QED BY <1>2, <1>3, <1>4, <1>5, <1>6, <1>7, <1>8, <1>9, NextCases

\* What a conversation comes to.
HeardOK == heard \in Seq(Heard) /\ Len(heard) <= 2

\* What AskAgain leaves.
LEMMA CorrectionIsAsked ==
    ASSUME TalkIsTrue, talk # NoTalk, NEW answer, AskAgain(answer)
    PROVE  /\ talk.attempt = 1 /\ reply' = reply
           /\ talk' = [on |-> TRUE, messages |-> talk.messages \o Correction(answer.content),
                       attempt |-> 2]
<1>1. /\ talk = [on |-> talk.on, messages |-> talk.messages, attempt |-> talk.attempt]
      /\ talk.on = TRUE /\ talk.attempt \in {1, 2}
  BY DEF TalkIsTrue
<1>2. \A m, n : [talk EXCEPT !.messages = m, !.attempt = n] =
                    [on |-> talk.on, messages |-> m, attempt |-> n]
  <2>1. IsTalkRecord(talk)
    BY <1>1 DEF IsTalkRecord
  <2> QED BY ONLY <2>1, MessagesAndAttempt, ZenonT(60)
<1>3. talk.attempt <= 1 /\ reply' = reply
  BY DEF AskAgain, MAX_DECISION_RETRIES
<1>4. talk' = [talk EXCEPT !.messages = talk.messages \o Correction(answer.content),
                           !.attempt = talk.attempt + 1]
  BY Zenon DEF AskAgain
<1>5. talk' = [on |-> TRUE, messages |-> talk.messages \o Correction(answer.content),
               attempt |-> talk.attempt + 1]
  BY <1>1, <1>2, <1>4, Zenon
<1>6. talk.attempt = 1
  BY <1>1, <1>3
<1> QED BY <1>3, <1>5, <1>6

LEMMA TalkStep ==
    ASSUME TypeOK, OneAtATime, TalkIsTrue, FailsForCause, Next
    PROVE  HeardOK' /\ TalkIsTrue' /\ FailsForCause'
<1> DEFINE Goal == HeardOK' /\ TalkIsTrue' /\ FailsForCause'
<1>1. HeardOK
  BY DEF HeardOK, TypeOK, MAX_DECISION_RETRIES
<1>2. ASSUME UNCHANGED <<talk, reply, heard>> PROVE Goal
  BY <1>1, <1>2 DEF HeardOK, TalkIsTrue, FailsForCause, LastHeard
<1>3. ASSUME talk' = NoTalk, UNCHANGED <<reply, heard>> PROVE Goal
  BY <1>1, <1>3 DEF HeardOK, TalkIsTrue, FailsForCause
<1>4. ASSUME TakeReply PROVE Goal
  <2>1. talk' = talk /\ talk = NoTalk /\ reply' = NoReply /\ heard' = <<>>
    BY <1>4 DEF TakeReply, OneAtATime
  <2> QED BY <2>1 DEF HeardOK, TalkIsTrue, FailsForCause, NoReply, Failed
<1>5. CASE StartDecide
  <2>1. CASE talk' = [on |-> TRUE, messages |-> Render(boot.woken, steps), attempt |-> 1]
             /\ UNCHANGED <<reply, heard>>
    BY <1>1, <2>1 DEF HeardOK, TalkIsTrue, FailsForCause
  <2>2. CASE reply' = Failed /\ heard' = <<"unresolved">> /\ talk' = talk
    <3>1. talk = NoTalk
      BY <1>5 DEF StartDecide, Ask
    <3>2. heard' \in Seq(Heard) /\ Len(heard') = 1 /\ heard'[Len(heard')] = "unresolved"
      BY <2>2 DEF Heard
    <3> QED BY <2>2, <3>1, <3>2 DEF HeardOK, TalkIsTrue, FailsForCause
  <2> QED BY <1>5, <2>1, <2>2 DEF StartDecide, Ask
<1>6. CASE Hear
  <2>1. talk # NoTalk /\ reply = NoReply
    BY <1>6 DEF Hear, OneAtATime
  <2>2. PICK answer : HearResponse(answer) \/ HearError(answer)
    BY <1>6 DEF Hear
  <2>3. /\ HeardOK' /\ heard' # <<>> /\ heard'[Len(heard')] = Remembered(answer)
        /\ heard # <<>> => Len(heard') = 2 /\ heard'[1] = LastHeard
    BY <1>1, <2>2, RememberKeepsTwo DEF HearResponse, HearError, HeardOK
  <2>4. CASE HearError(answer)
    <3>1. Remembered(answer) = ErrorOf(answer) /\ talk' = NoTalk
      BY <2>4 DEF HearError, Remembered
    <3>2. CASE Retryable(ErrorOf(answer))
      BY <2>1, <2>3, <2>4, <3>1, <3>2
         DEF HearError, TalkIsTrue, FailsForCause, NoReply, Failed
    <3>3. CASE ~Retryable(ErrorOf(answer))
      BY <2>3, <3>1, <3>3, Errors DEF TalkIsTrue, FailsForCause
    <3> QED BY <3>2, <3>3
  <2>5. CASE HearResponse(answer) /\ Parses(ToolCalls(answer.content))
    <3>1. talk' = NoTalk /\ reply'.kind = "decision"
      BY <2>5 DEF HearResponse, Decide
    <3> QED BY <2>3, <3>1 DEF TalkIsTrue, FailsForCause, Failed
  <2>6. CASE HearResponse(answer) /\ ~Parses(ToolCalls(answer.content))
    <3>1. Remembered(answer) = "unparsed"
      BY <2>6 DEF HearResponse, Remembered
    <3>2. /\ talk = [on |-> TRUE, messages |-> talk.messages, attempt |-> talk.attempt]
          /\ talk.attempt \in {1, 2}
          /\ talk.attempt = 2 => heard # <<>> /\ LastHeard = "unparsed"
      BY <2>1 DEF TalkIsTrue
    <3>3. CASE AskAgain(answer)
      <4>1. /\ talk.attempt = 1 /\ reply' = NoReply
            /\ talk' = [on |-> TRUE, messages |-> talk.messages \o Correction(answer.content),
                        attempt |-> 2]
        BY <2>1, <3>3, CorrectionIsAsked
      <4> QED BY <2>3, <3>1, <4>1 DEF TalkIsTrue, FailsForCause, LastHeard, NoReply, Failed
    <3>4. CASE GiveUp
      <4>1. talk.attempt = 2 /\ talk' = NoTalk /\ reply' = Failed
        BY <3>2, <3>4 DEF GiveUp, MAX_DECISION_RETRIES
      <4>2. Len(heard') = 2 /\ heard'[1] = "unparsed" /\ heard'[2] = "unparsed"
        BY <2>3, <3>1, <3>2, <4>1
      <4>3. ToSet(heard') = {"unparsed"}
        <5>1. heard' \in Seq(Heard) /\ DOMAIN heard' = {1, 2}
          BY <2>3, <4>2 DEF HeardOK
        <5> QED BY <4>2, <5>1 DEF ToSet
      <4> QED BY <2>3, <4>1, <4>2, <4>3 DEF TalkIsTrue, FailsForCause
    <3> QED BY <2>6, <3>3, <3>4 DEF HearResponse
  <2> QED BY <2>2, <2>4, <2>5, <2>6
<1>7. CASE Fail \/ Fuse \/ BuildSeed \/ Observe
  BY <1>2, <1>7 DEF Fail, Fuse, BuildSeed, Observe, decide
<1>8. CASE EndCycle \/ Dispatch \/ ExecuteOther
  BY <1>4, <1>8 DEF EndCycle, Dispatch, ExecuteOther
<1>9. CASE DecideFault
  BY <1>3, <1>9 DEF DecideFault, LoseAttempt
<1>10. CASE WorkerFault
  BY <1>2, <1>3, <1>10 DEF WorkerFault, LoseAttempt, decide
<1>11. CASE UNCHANGED <<decide, agent>>
  BY <1>2, <1>11 DEF decide
<1> QED BY <1>5, <1>6, <1>7, <1>8, <1>9, <1>10, <1>11, NextCases DEF DecideStep

-----------------------------------------------------------------------------
(* The requests.  What Picked, OfType and Ids are of a list; what the      *)
(* adapters make of a conversation that is answered; and that the prompt   *)
(* and the corrective turns are such.                                      *)

LEMMA ListIs ==
    ASSUME NEW s, IsList(s)
    PROVE  Len(s) \in Nat /\ DOMAIN s = 1 .. Len(s)
BY DEF IsList

\* To pick every place of a list is to take the list.
LEMMA PickedAll ==
    ASSUME NEW s, IsList(s)
    PROVE  Picked(s, DOMAIN s) = s
<1> DEFINE n == Len(s)
<1>1. n \in Nat /\ DOMAIN s = 1 .. n /\ s = [i \in 1 .. n |-> s[i]]
  BY DEF IsList
<1> HIDE DEF n
<1>2. Cardinality(1 .. n) = n
  BY <1>1, FS_Interval
<1>3. \A i \in 1 .. n : Nth(1 .. n, i) = i
  <2>1. \A i \in 1 .. n : Cardinality({j \in 1 .. n : j <= i}) = i
    <3> SUFFICES ASSUME NEW i \in 1 .. n PROVE Cardinality({j \in 1 .. n : j <= i}) = i
      OBVIOUS
    <3>1. {j \in 1 .. n : j <= i} = 1 .. i
      BY <1>1
    <3>2. Cardinality(1 .. i) = i
      BY <1>1, FS_Interval
    <3> QED BY <3>1, <3>2
  <2> SUFFICES ASSUME NEW i \in 1 .. n PROVE Nth(1 .. n, i) = i
    OBVIOUS
  <2> DEFINE Rank(x) == Cardinality({j \in 1 .. n : j <= x})
  <2>2. \A x \in 1 .. n : Rank(x) = x
    BY <2>1
  <2>3. Nth(1 .. n, i) = CHOOSE x \in 1 .. n : Rank(x) = i
    BY DEF Nth
  <2> HIDE DEF Rank
  <2> QED BY <2>2, <2>3
<1>4. Picked(s, 1 .. n) = [i \in 1 .. n |-> s[Nth(1 .. n, i)]]
  BY <1>2 DEF Picked
<1> QED BY <1>1, <1>3, <1>4

LEMMA PickedIs ==
    ASSUME NEW s, IsList(s), NEW S \in SUBSET DOMAIN s
    PROVE  /\ IsList(Picked(s, S))
           /\ S = {} => Picked(s, S) = <<>>
<1>1. IsFiniteSet(S)
  <2>1. IsFiniteSet(DOMAIN s)
    BY ListIs, FS_Interval
  <2> QED BY <2>1, FS_Subset
<1> DEFINE n == Cardinality(S)
           picked == Picked(s, S)
<1>2. n \in Nat
  BY <1>1, FS_CardinalityType
<1>3. picked = [i \in 1 .. n |-> s[Nth(S, i)]]
  BY DEF Picked
<1>4. S = {} => n = 0
  BY FS_EmptySet
<1> HIDE DEF n, picked
<1>5. IsList(picked)
  <2>1. DOMAIN picked = 1 .. n /\ \A i \in 1 .. n : picked[i] \in ToSet(picked)
    BY <1>3 DEF ToSet
  <2>2. picked \in [1 .. n -> ToSet(picked)]
    BY <1>3, <2>1
  <2> QED BY <1>2, <2>2 DEF IsList
<1>6. ASSUME S = {} PROVE picked = <<>>
  <2>1. n = 0
    BY <1>4, <1>6
  <2> QED BY <1>3, <2>1
<1> QED BY <1>5, <1>6 DEF picked

\* What a block list has of one type, if it has nothing else or nothing of it.
LEMMA OfTypeIs ==
    ASSUME NEW content, IsList(content), NEW type
    PROVE  /\ IsList(OfType(content, type))
           /\ (\A i \in DOMAIN content : content[i].type = type) => OfType(content, type) = content
           /\ (\A i \in DOMAIN content : content[i].type # type) => OfType(content, type) = <<>>
<1> DEFINE S == {i \in DOMAIN content : content[i].type = type}
<1>1. OfType(content, type) = Picked(content, S)
  BY DEF OfType
<1>2. (\A i \in DOMAIN content : content[i].type = type) => S = DOMAIN content
  OBVIOUS
<1>3. (\A i \in DOMAIN content : content[i].type # type) => S = {}
  OBVIOUS
<1>4. S \in SUBSET DOMAIN content
  OBVIOUS
<1> HIDE DEF S
<1> QED BY <1>1, <1>2, <1>3, <1>4, PickedAll, PickedIs

LEMMA IdsAre ==
    ASSUME NEW blocks, IsList(blocks)
    PROVE  /\ IsList(Ids(blocks)) /\ Len(Ids(blocks)) = Len(blocks)
           /\ \A i \in 1 .. Len(blocks) : Ids(blocks)[i] = blocks[i].id
           /\ blocks = <<>> => Ids(blocks) = <<>>
<1> DEFINE n == Len(blocks)
           ids == Ids(blocks)
<1>1. n \in Nat /\ DOMAIN blocks = 1 .. n
  BY ListIs
<1>2. ids = [i \in 1 .. n |-> blocks[i].id]
  BY <1>1 DEF Ids
<1>4. blocks = <<>> => n = 0
  OBVIOUS
<1> HIDE DEF n, ids
<1>3. ids \in [1 .. n -> ToSet(ids)]
  BY <1>2 DEF ToSet
<1>5. IsList(ids) /\ Len(ids) = n
  BY <1>1, <1>3 DEF IsList
<1>6. n = 0 => ids = <<>>
  BY <1>2
<1> QED BY <1>1, <1>2, <1>4, <1>5, <1>6 DEF n, ids

LEMMA ResultsAre ==
    ASSUME NEW ids, IsList(ids)
    PROVE  LET content == Results(ids)
           IN  /\ IsList(content) /\ Len(content) = Len(ids)
               /\ \A k \in 1 .. Len(ids) : content[k] = ToolResult(ids[k])
               /\ OfType(content, "tool_result") = content
               /\ OfType(content, "tool_use") = <<>>
               /\ Ids(content) = ids
<1> DEFINE n == Len(ids)
           content == Results(ids)
<1>1. n \in Nat /\ DOMAIN ids = 1 .. n /\ ids = [k \in 1 .. n |-> ids[k]]
  BY DEF IsList
<1>2. content = [k \in 1 .. n |-> ToolResult(ids[k])]
  BY <1>1 DEF Results
<1> HIDE DEF n, content
<1>3. content \in [1 .. n -> ToSet(content)]
  BY <1>2 DEF ToSet
<1>4. IsList(content) /\ Len(content) = n /\ DOMAIN content = 1 .. n
  BY <1>1, <1>3 DEF IsList
<1>5. \A k \in DOMAIN content : content[k].type = "tool_result" /\ content[k].id = ids[k]
  BY <1>2 DEF ToolResult
<1>6. \A k \in DOMAIN content : content[k].type # "tool_use"
  BY <1>5
<1>7. OfType(content, "tool_result") = content /\ OfType(content, "tool_use") = <<>>
  BY <1>4, <1>5, <1>6, OfTypeIs
<1>8. Ids(content) = ids
  BY <1>1, <1>4, <1>5 DEF Ids
<1> QED BY <1>1, <1>2, <1>4, <1>7, <1>8 DEF n, content

LEMMA UsesAre ==
    ASSUME NEW m, IsList(m.content)
    PROVE  IsList(Uses(m))
BY OfTypeIs, IdsAre DEF Uses

\* A tool turn becomes the user turn that follows.
LEMMA AnthropicAnswers ==
    ASSUME NEW messages, Answered(messages)
    PROVE  AnswersUses("anthropic", AnthropicBody(messages))
<1> DEFINE turns == {i \in DOMAIN messages : messages[i].role # "system"}
           body == AnthropicBody(messages)
           RoleOf(i) == IF messages[i].role = "tool" THEN "user" ELSE messages[i].role
<1>1. body = [p \in turns \X {1} |-> OnWire(RoleOf(p[1]), messages[p[1]].content)]
  BY DEF AnthropicBody
<1>2. \A i \in DOMAIN messages : i \in Nat
  BY ListIs DEF Answered
<1> SUFFICES ASSUME NEW p \in DOMAIN body, body[p].uses # <<>>
             PROVE  \E q \in DOMAIN body :
                       /\ Follows(body, q, p) /\ body[q].role = "user"
                       /\ ToSet(body[q].results) = ToSet(body[p].uses)
  BY DEF AnswersUses
<1> HIDE DEF body
<1>3. PICK i \in turns : p = <<i, 1>>
  BY <1>1
<1> DEFINE m == messages[i]
<1>4. body[p].uses = Uses(m)
  BY <1>1, <1>3 DEF OnWire, Uses
<1> DEFINE ids == Uses(m)
           q == <<i + 1, 1>>
<1>5. IsList(ids)
  BY UsesAre DEF Answered
<1>6. i + 1 \in DOMAIN messages /\ messages[i + 1] = Message("tool", Results(ids))
  BY <1>4 DEF Answered
<1> HIDE DEF ids
<1>7. messages[i + 1].role = "tool" /\ messages[i + 1].content = Results(ids)
  BY <1>6 DEF Message
<1>8. q \in DOMAIN body /\ body[q] = OnWire("user", Results(ids))
  BY <1>1, <1>6, <1>7
<1>9. body[q].role = "user" /\ body[q].results = ids
  BY <1>5, <1>8, ResultsAre DEF OnWire
<1>10. Follows(body, q, p)
  <2>1. \A r \in DOMAIN body : \E j \in turns : r = <<j, 1>>
    BY <1>1
  <2>2. i \in Nat
    BY <1>2
  <2>3. ASSUME NEW r \in DOMAIN body, Before(p, r), Before(r, q) PROVE FALSE
    <3>1. PICK j \in turns : r = <<j, 1>>
      BY <2>1
    <3>2. j \in Nat
      BY <1>2
    <3> QED BY <1>3, <2>2, <2>3, <3>1, <3>2 DEF Before
  <2> QED BY <1>3, <2>2, <2>3 DEF Follows, Before
<1> QED BY <1>4, <1>8, <1>9, <1>10 DEF ids

\* A tool turn becomes one message for each result, in the order of the calls.
LEMMA CohereAnswers ==
    ASSUME NEW messages, Answered(messages), NEW client, client # "anthropic"
    PROVE  AnswersUses(client, CohereBody(messages))
<1> DEFINE Found(i) == OfType(messages[i].content, "tool_result")
           tools == {i \in DOMAIN messages : messages[i].role = "tool"}
           results == UNION {{i} \X DOMAIN Found(i) : i \in tools}
           places == ((DOMAIN messages \ tools) \X {1}) \cup results
           body == CohereBody(messages)
<1>1. body = [p \in places |->
                IF p[1] \in tools
                THEN OnWire("tool", <<Found(p[1])[p[2]]>>)
                ELSE OnWire(messages[p[1]].role, messages[p[1]].content)]
  BY DEF CohereBody
<1>2. \A i \in DOMAIN messages : i \in Nat
  BY ListIs DEF Answered
<1>3. ASSUME NEW i \in tools
      PROVE  \E ids : /\ IsList(ids) /\ messages[i].content = Results(ids)
                      /\ Found(i) = Results(ids) /\ DOMAIN Found(i) = 1 .. Len(ids)
                      /\ \A k \in 1 .. Len(ids) : Found(i)[k] = ToolResult(ids[k])
  <2>1. PICK ids : IsList(ids) /\ messages[i].content = Results(ids)
    BY DEF Answered
  <2>2. Found(i) = Results(ids)
    BY <2>1, ResultsAre
  <2>3. DOMAIN Results(ids) = 1 .. Len(ids)
    BY <2>1, ResultsAre, ListIs
  <2> HIDE DEF Found
  <2> QED BY <2>1, <2>2, <2>3, ResultsAre
<1>4. \A p \in places : /\ p = <<p[1], p[2]>> /\ p[1] \in DOMAIN messages
                        /\ p[1] \notin tools => p[2] = 1
                        /\ p[1] \in tools => p[2] \in DOMAIN Found(p[1])
  <2> HIDE DEF Found
  <2> QED OBVIOUS
<1>5. ASSUME NEW b, b.type # "tool_use" PROVE Ids(OfType(<<b>>, "tool_use")) = <<>>
  <2>1. IsList(<<b>>) /\ DOMAIN <<b>> = {1} /\ <<b>>[1] = b
    BY DEF IsList, ToSet
  <2>2. OfType(<<b>>, "tool_use") = <<>>
    BY <1>5, <2>1, OfTypeIs
  <2>3. IsList(<<>>)
    BY DEF IsList
  <2> QED BY <2>2, <2>3, IdsAre
<1>6. \A p \in places : p[1] \in tools => body[p].uses = <<>>
  <2> SUFFICES ASSUME NEW p \in places, p[1] \in tools PROVE body[p].uses = <<>>
    OBVIOUS
  <2>1. PICK ids : /\ DOMAIN Found(p[1]) = 1 .. Len(ids)
                   /\ \A k \in 1 .. Len(ids) : Found(p[1])[k] = ToolResult(ids[k])
    BY <1>3
  <2> HIDE DEF Found, places, tools
  <2>5. p[2] \in DOMAIN Found(p[1])
    BY <1>4
  <2>6. Found(p[1])[p[2]] = ToolResult(ids[p[2]])
    BY <2>1, <2>5
  <2>2. Found(p[1])[p[2]].type = "tool_result"
    BY <2>6 DEF ToolResult
  <2>3. Ids(OfType(<<Found(p[1])[p[2]]>>, "tool_use")) = <<>>
    BY <1>5, <2>2
  <2>4. body[p] = OnWire("tool", <<Found(p[1])[p[2]]>>)
    BY <1>1
  <2> QED BY <2>3, <2>4 DEF OnWire
<1> SUFFICES ASSUME NEW p \in places, body[p].uses # <<>>
             PROVE  \E at \in [0 .. Len(body[p].uses) -> places] :
                       /\ at[0] = p
                       /\ \A k \in 1 .. Len(body[p].uses) :
                             /\ Follows(body, at[k], at[k - 1]) /\ body[at[k]].role = "tool"
                             /\ body[at[k]].results = <<body[p].uses[k]>>
  <2>1. DOMAIN body = places
    BY <1>1
  <2> HIDE DEF body, places
  <2> QED BY <2>1 DEF AnswersUses, body
<1> HIDE DEF body
<1> DEFINE i == p[1]
           ids == Uses(messages[i])
           n == Len(ids)
           at == [k \in 0 .. n |-> IF k = 0 THEN p ELSE <<i + 1, k>>]
<1>7. i \in DOMAIN messages /\ i \notin tools /\ p = <<i, 1>>
  BY <1>4, <1>6
<1>8. body[p].uses = ids
  BY <1>1, <1>7 DEF OnWire, Uses
<1>9. IsList(ids) /\ n \in Nat
  BY <1>7, UsesAre, ListIs DEF Answered
<1>10. i + 1 \in DOMAIN messages /\ messages[i + 1] = Message("tool", Results(ids))
  BY <1>7, <1>8 DEF Answered
<1>11. i \in Nat
  BY <1>2, <1>7
<1>12. i + 1 \in tools /\ messages[i + 1].content = Results(ids)
  BY <1>10 DEF Message
<1> HIDE DEF ids, n, i
<1>13. /\ Found(i + 1) = Results(ids) /\ DOMAIN Found(i + 1) = 1 .. n
       /\ \A k \in 1 .. n : Found(i + 1)[k] = ToolResult(ids[k])
  BY <1>9, <1>12, ResultsAre, ListIs DEF n
<1> HIDE DEF Found
<1>14. \A k \in 1 .. n : <<i + 1, k>> \in places
  <2>1. \A k \in 1 .. n : <<i + 1, k>> \in {i + 1} \X DOMAIN Found(i + 1)
    BY <1>13
  <2> HIDE DEF tools
  <2> QED BY <1>12, <2>1
<1>15. \A k \in 1 .. n : body[<<i + 1, k>>] = OnWire("tool", <<ToolResult(ids[k])>>)
  <2> HIDE DEF places, tools
  <2> QED BY <1>1, <1>12, <1>13, <1>14
<1>16. ASSUME NEW k \in 1 .. n
       PROVE  body[<<i + 1, k>>].role = "tool" /\ body[<<i + 1, k>>].results = <<ids[k]>>
  <2> DEFINE b == ToolResult(ids[k])
  <2>1. IsList(<<b>>) /\ DOMAIN <<b>> = {1} /\ <<b>>[1] = b /\ Len(<<b>>) = 1
    BY DEF IsList, ToSet
  <2>2. b.type = "tool_result" /\ b.id = ids[k]
    BY DEF ToolResult
  <2> HIDE DEF b
  <2>3. OfType(<<b>>, "tool_result") = <<b>>
    BY <2>1, <2>2, OfTypeIs
  <2>4. Ids(<<b>>) = <<ids[k]>>
    BY <2>2 DEF Ids
  <2>5. body[<<i + 1, k>>] = OnWire("tool", <<b>>)
    BY <1>15 DEF b
  <2> QED BY <2>3, <2>4, <2>5 DEF OnWire
<1>17. at \in [0 .. n -> places] /\ at[0] = p /\ \A k \in 1 .. n : at[k] = <<i + 1, k>>
  <2> HIDE DEF places
  <2> QED BY <1>9, <1>14
<1>18. ASSUME NEW r \in places
       PROVE  /\ r = <<r[1], r[2]>> /\ r[1] \in Nat /\ r[2] \in Nat
              /\ r[1] = i => r[2] = 1
              /\ r[2] >= 1
  <2>1. r[1] \in DOMAIN messages
    BY <1>4
  <2>2. CASE r[1] \in tools
    <3>1. PICK others : IsList(others) /\ DOMAIN Found(r[1]) = 1 .. Len(others)
      BY <1>3, <2>2
    <3>2. r[2] \in 1 .. Len(others) /\ Len(others) \in Nat
      BY <1>4, <2>2, <3>1, ListIs
    <3> HIDE DEF tools, places
    <3> QED BY <1>2, <1>4, <1>7, <2>1, <2>2, <3>2
  <2>3. CASE r[1] \notin tools
    BY <1>2, <1>4, <2>1, <2>3
  <2> QED BY <2>2, <2>3
<1>19. ASSUME NEW k \in 1 .. n PROVE Follows(body, at[k], at[k - 1])
  <2>1. at[k] = <<i + 1, k>> /\ at[k - 1] = IF k = 1 THEN <<i, 1>> ELSE <<i + 1, k - 1>>
    BY <1>7, <1>9, <1>17
  <2>2. Before(at[k - 1], at[k])
    BY <1>9, <1>11, <2>1 DEF Before
  <2>3. ASSUME NEW r \in places, Before(at[k - 1], r), Before(r, at[k]) PROVE FALSE
    <3> HIDE DEF at, places
    <3>1. /\ r[1] \in Nat /\ r[2] \in Nat /\ r[2] >= 1 /\ (r[1] = i => r[2] = 1)
      BY <1>18
    <3>2. r[1] < i + 1 \/ (r[1] = i + 1 /\ r[2] < k)
      BY <2>1, <2>3 DEF Before
    <3>3. CASE k = 1
      <4>1. i < r[1] \/ (i = r[1] /\ 1 < r[2])
        BY <2>1, <2>3, <3>3 DEF Before
      <4> QED BY <1>11, <3>1, <3>2, <3>3, <4>1
    <3>4. CASE k # 1
      <4>1. i + 1 < r[1] \/ (i + 1 = r[1] /\ k - 1 < r[2])
        BY <2>1, <2>3, <3>4 DEF Before
      <4>2. k \in Nat
        BY <1>9
      <4> QED BY <1>11, <3>1, <3>2, <4>1, <4>2
    <3> QED BY <3>3, <3>4
  <2>4. DOMAIN body = places
    BY <1>1
  <2> HIDE DEF at, places
  <2> QED BY <2>2, <2>3, <2>4 DEF Follows
<1>20. /\ at \in [0 .. Len(body[p].uses) -> places] /\ at[0] = p
       /\ \A k \in 1 .. Len(body[p].uses) :
             /\ Follows(body, at[k], at[k - 1]) /\ body[at[k]].role = "tool"
             /\ body[at[k]].results = <<body[p].uses[k]>>
  <2> HIDE DEF at, places
  <2> QED BY <1>8, <1>16, <1>17, <1>19 DEF n
<1> HIDE DEF at, places
<1> QED BY <1>20

\* The prompt is texts of the system and of the user.
Plain == {Message("system", <<Text>>), Message("user", <<Text>>)}

LEMMA SeqIsList ==
    ASSUME NEW S, NEW s \in Seq(S)
    PROVE  IsList(s) /\ \A i \in DOMAIN s : s[i] \in S
BY DEF IsList, ToSet

LEMMA NoIds == Ids(<<>>) = <<>>
<1>1. IsList(<<>>)
  BY DEF IsList
<1> QED BY <1>1, IdsAre

\* Where the items of two sequences go that are put together.
IsJoin(S, s, x, y) ==
    /\ s \in Seq(S) /\ Len(s) = Len(x) + Len(y)
    /\ \A i \in 1 .. Len(x) : s[i] = x[i]
    /\ \A i \in 1 .. Len(y) : s[Len(x) + i] = y[i]

\* Putting two sequences together places their items as IsJoin says.
LEMMA JoinHolds ==
    ASSUME NEW S, NEW x \in Seq(S), NEW y \in Seq(S)
    PROVE  IsJoin(S, x \o y, x, y)
<1>1. x \o y \in Seq(S) /\ Len(x \o y) = Len(x) + Len(y)
  OBVIOUS
<1>2. ASSUME NEW i \in 1 .. Len(x) PROVE (x \o y)[i] = x[i]
  OBVIOUS
<1>3. ASSUME NEW i \in 1 .. Len(y) PROVE (x \o y)[Len(x) + i] = y[i]
  OBVIOUS
<1> QED BY <1>1, <1>2, <1>3 DEF IsJoin

\* Two turns, or three.
LEMMA Turns ==
    ASSUME NEW S, NEW x \in Seq(S), NEW y \in Seq(S), NEW z \in Seq(S),
           Len(x) = 1, Len(z) = 1, Len(y) \in {0, 1}
    PROVE  LET all == x \o y \o z
           IN  /\ all \in Seq(S) /\ all[1] = x[1]
               /\ Len(y) = 0 => Len(all) = 2 /\ all[2] = z[1]
               /\ Len(y) = 1 => Len(all) = 3 /\ all[2] = y[1] /\ all[3] = z[1]
<1> DEFINE s == x \o y
           all == s \o z
           n == Len(s)
<1>1. /\ s \in Seq(S) /\ n = 1 + Len(y) /\ n \in Nat /\ s[1] = x[1]
      /\ Len(y) = 1 => s[2] = y[1]
  <2>1. IsJoin(S, s, x, y)
    BY JoinHolds
  <2> HIDE DEF s
  <2>2. s[1] = x[1]
    BY <2>1 DEF IsJoin
  <2>3. ASSUME Len(y) = 1 PROVE s[2] = y[1]
    BY <2>1, <2>3 DEF IsJoin
  <2> QED BY <2>1, <2>2, <2>3 DEF IsJoin
<1> HIDE DEF s
<1>2. /\ all \in Seq(S) /\ Len(all) = n + 1
      /\ all[n + 1] = z[1] /\ \A i \in 1 .. n : all[i] = s[i]
  <2>1. IsJoin(S, all, s, z)
    BY <1>1, JoinHolds
  <2> HIDE DEF all
  <2>2. all[n + 1] = z[1]
    BY <2>1 DEF IsJoin
  <2> QED BY <1>1, <2>1, <2>2 DEF IsJoin
<1> HIDE DEF all, n
<1>3. all[1] = s[1] /\ all[n + 1] = z[1] /\ (n = 2 => all[2] = s[2])
  BY <1>1, <1>2
<1> QED BY <1>1, <1>2, <1>3 DEF all, s

LEMMA PromptIsAnswered ==
    ASSUME NEW woken, NEW told
    PROVE  Answered(Render(woken, told))
<1> DEFINE messages == Render(woken, told)
           content == <<Text>>
<1>1. messages \in Seq(Plain)
  <2>1. /\ <<Message("system", <<Text>>)>> \in Seq(Plain)
        /\ <<Message("user", <<Text>>)>> \in Seq(Plain) /\ <<>> \in Seq(Plain)
    BY DEF Plain
  <2> HIDE DEF messages
  <2> DEFINE first == <<Message("system", <<Text>>)>>
             user == <<Message("user", <<Text>>)>>
             wake == IF woken THEN user ELSE <<>>
             rest == IF told # <<>> THEN user ELSE <<>>
  <2>2. first \in Seq(Plain) /\ user \in Seq(Plain) /\ wake \in Seq(Plain) /\ rest \in Seq(Plain)
    BY <2>1
  <2>3. messages = first \o wake \o user \o rest
    BY DEF Render, messages
  <2> HIDE DEF first, user, wake, rest
  <2> QED BY <2>2, <2>3
<1>2. IsList(messages) /\ \A i \in DOMAIN messages : messages[i] \in Plain
  <2> HIDE DEF messages
  <2> QED BY <1>1, SeqIsList
<1>3. IsList(content) /\ OfType(content, "tool_use") = <<>>
  <2>1. IsList(content) /\ DOMAIN content = {1} /\ content[1].type = "text"
    BY DEF IsList, ToSet, Text
  <2> QED BY <2>1, OfTypeIs
<1>4. Ids(<<>>) = <<>>
  BY NoIds
<1> HIDE DEF messages
<1>5. \A i \in DOMAIN messages : /\ messages[i].content = content
                                 /\ messages[i].role # "tool"
  BY <1>2 DEF Plain, Message
<1> HIDE DEF content
<1> QED BY <1>2, <1>3, <1>4, <1>5 DEF Answered, Uses, messages

\* assistant_echo, synthesized_tool_results and the corrective text.
LEMMA CorrectionIsAnswered ==
    ASSUME NEW messages, Answered(messages), NEW content, IsList(content)
    PROVE  Answered(messages \o Correction(content))
<1> DEFINE ids == Ids(OfType(content, "tool_use"))
           echo == Message("assistant", content)
           tool == Message("tool", Results(ids))
           text == Message("system", <<Text>>)
           n == Len(messages)
           more == Correction(content)
           all == messages \o more
<1>1. messages \in Seq(ToSet(messages)) /\ n \in Nat /\ DOMAIN messages = 1 .. n
  BY DEF Answered, IsList
<1>2. IsList(ids)
  BY OfTypeIs, IdsAre
<1>3. Ids(<<>>) = <<>>
  BY NoIds
<1>4. /\ echo.role = "assistant" /\ echo.content = content /\ Uses(echo) = ids
  BY DEF Message, Uses
<1>5. /\ tool.role = "tool" /\ tool.content = Results(ids) /\ IsList(Results(ids))
      /\ Uses(tool) = <<>>
  BY <1>2, <1>3, ResultsAre DEF Message, Uses
<1>6. text.role = "system" /\ IsList(text.content) /\ Uses(text) = <<>>
  <2> DEFINE c == <<Text>>
  <2>1. IsList(c) /\ DOMAIN c = {1} /\ c[1].type = "text"
    BY DEF IsList, ToSet, Text
  <2>2. OfType(c, "tool_use") = <<>>
    BY <2>1, OfTypeIs
  <2> QED BY <1>3, <2>1, <2>2 DEF Message, Uses
<1>7. more = <<echo>> \o (IF ids # <<>> THEN <<tool>> ELSE <<>>) \o <<text>>
  BY DEF Correction, Results
<1> DEFINE Fine(m, next) ==
        /\ IsList(m.content)
        /\ m.role = "tool" => \E x : IsList(x) /\ m.content = Results(x)
        /\ Uses(m) # <<>> =>
             m.role = "assistant" /\ next = Message("tool", Results(Uses(m)))
<1>8. /\ Fine(echo, tool) /\ \A m : Fine(tool, m) /\ Fine(text, m)
      /\ ids = <<>> => \A m : Fine(echo, m)
  <2> HIDE DEF echo, text
  <2> QED BY <1>2, <1>4, <1>5, <1>6
<1>9. \A i \in 1 .. n : /\ IsList(messages[i].content)
                        /\ messages[i].role = "tool" =>
                             \E x : IsList(x) /\ messages[i].content = Results(x)
                        /\ Uses(messages[i]) # <<>> =>
                             /\ messages[i].role = "assistant" /\ i + 1 \in 1 .. n
                             /\ messages[i + 1] = Message("tool", Results(Uses(messages[i])))
  BY <1>1 DEF Answered
<1> DEFINE S == ToSet(messages) \cup {echo, tool, text}
<1> HIDE DEF echo, tool, text, ids, n, Fine
<1> DEFINE l == Len(more)
<1>10. /\ more \in Seq(S) /\ l \in {2, 3} /\ more[1] = echo
       /\ ids # <<>> => l = 3 /\ more[2] = tool /\ more[3] = text
       /\ ids = <<>> => l = 2 /\ more[2] = text
  <2>1. echo \in S /\ tool \in S /\ text \in S
    OBVIOUS
  <2> HIDE DEF S
  <2> DEFINE x == <<echo>>
             y == IF ids # <<>> THEN <<tool>> ELSE <<>>
             z == <<text>>
  <2>2. /\ x \in Seq(S) /\ y \in Seq(S) /\ z \in Seq(S)
        /\ Len(x) = 1 /\ x[1] = echo /\ Len(z) = 1 /\ z[1] = text
        /\ ids # <<>> => Len(y) = 1 /\ y[1] = tool
        /\ ids = <<>> => Len(y) = 0
    BY <2>1
  <2>3. more = x \o y \o z
    BY <1>7
  <2> HIDE DEF x, y, z, more
  <2>4. Len(y) \in {0, 1}
    BY <2>2
  <2> QED BY <2>2, <2>3, <2>4, Turns
<1>11. messages \in Seq(S)
  <2>1. ToSet(messages) \subseteq S
    OBVIOUS
  <2> HIDE DEF S
  <2> QED BY <1>1, <2>1
<1> HIDE DEF more, all, S
<1>12. /\ all \in Seq(S) /\ DOMAIN all = 1 .. n + l /\ n \in Nat
       /\ \A i \in 1 .. n : all[i] = messages[i]
       /\ \A k \in 1 .. l : all[n + k] = more[k]
  BY <1>1, <1>10, <1>11 DEF all, n
<1> HIDE DEF l
<1>13. IsList(all)
  BY <1>12, SeqIsList
<1>14. ASSUME NEW i \in DOMAIN all
       PROVE  /\ IsList(all[i].content)
              /\ all[i].role = "tool" => \E x : IsList(x) /\ all[i].content = Results(x)
              /\ Uses(all[i]) # <<>> =>
                   /\ all[i].role = "assistant" /\ i + 1 \in DOMAIN all
                   /\ all[i + 1] = Message("tool", Results(Uses(all[i])))
  <2>1. CASE i \in 1 .. n
    <3>1. all[i] = messages[i]
      BY <1>12, <2>1
    <3>2. i + 1 \in 1 .. n => i + 1 \in DOMAIN all /\ all[i + 1] = messages[i + 1]
      BY <1>10, <1>12
    <3> QED BY <1>9, <2>1, <3>1, <3>2
  <2>2. CASE i = n + 1
    <3>1. all[i] = echo
      BY <1>10, <1>12, <2>2
    <3>2. CASE ids # <<>>
      <4>1. i + 1 \in DOMAIN all
        BY <1>10, <1>12, <2>2, <3>2
      <4>2. all[n + 2] = tool /\ i + 1 = n + 2
        BY <1>10, <1>12, <2>2, <3>2
      <4> QED BY <1>8, <3>1, <4>1, <4>2 DEF Fine
    <3>3. CASE ids = <<>>
      BY <1>4, <1>8, <3>1, <3>3 DEF Fine
    <3> QED BY <3>2, <3>3
  <2>3. CASE i \notin 1 .. n /\ i # n + 1
    <3>1. i = n + 2 \/ (i = n + 3 /\ l = 3)
      <4>1. CASE l = 2
        BY <1>12, <2>3, <4>1
      <4>2. CASE l = 3
        BY <1>12, <2>3, <4>2
      <4> QED BY <1>10, <4>1, <4>2
    <3>2. all[n + 2] = more[2] /\ (l = 3 => all[n + 3] = more[3])
      BY <1>10, <1>12
    <3>3. all[i] = tool \/ all[i] = text
      BY <1>10, <3>1, <3>2
    <3>4. Uses(all[i]) = <<>>
      BY <1>5, <1>6, <3>3 DEF tool, text
    <3> QED BY <1>8, <3>3, <3>4 DEF Fine
  <2> QED BY <2>1, <2>2, <2>3
<1> QED BY <1>13, <1>14 DEF Answered, all, more

\* The content of a response; a vendor numbers its calls.
LEMMA AnswersAreLists ==
    ASSUME NEW answer \in Answers
    PROVE  IsList(answer.content)
<1>1. ASSUME NEW c \in Contents PROVE IsList(Number(c))
  <2>1. DOMAIN Number(c) = DOMAIN c /\ DOMAIN c = 1 .. Len(c) /\ Len(c) \in Nat
    BY ContentAssumption DEF Number
  <2> DEFINE numbered == Number(c)
  <2>2. numbered = [i \in 1 .. Len(c) |-> numbered[i]]
    BY <2>1 DEF Number
  <2> HIDE DEF numbered
  <2>3. numbered \in [1 .. Len(c) -> ToSet(numbered)]
    BY <2>2 DEF ToSet
  <2> QED BY <2>1, <2>3 DEF IsList, numbered
<1>2. IsList(<<>>)
  BY DEF IsList
<1> QED BY <1>1, <1>2 DEF Answers

\* A conversation begins with the prompt and goes on with a correction.
LEMMA MessagesStep ==
    ASSUME TypeOK, TalkIsTrue, TalkIsAnswered, Next
    PROVE  TalkIsAnswered'
<1>1. ASSUME talk' = talk \/ talk' = NoTalk PROVE TalkIsAnswered'
  BY <1>1 DEF TalkIsAnswered
<1>2. CASE StartDecide
  <2>1. CASE talk' = [on |-> TRUE, messages |-> Render(boot.woken, steps), attempt |-> 1]
    BY <2>1, PromptIsAnswered DEF TalkIsAnswered
  <2> QED BY <1>1, <1>2, <2>1 DEF StartDecide, Ask
<1>3. CASE Hear
  <2>1. PICK answer \in Answers : HearResponse(answer) \/ HearError(answer)
    BY <1>3 DEF Hear
  <2>2. CASE AskAgain(answer)
    <3>1. talk # NoTalk
      BY <1>3 DEF Hear
    <3>2. talk'.messages = talk.messages \o Correction(answer.content)
      <4>1. talk' = [on |-> TRUE, messages |-> talk.messages \o Correction(answer.content),
                     attempt |-> 2]
        BY <2>2, <3>1, CorrectionIsAsked, Zenon
      <4> QED BY <4>1, Zenon
    <3>3. Answered(talk.messages \o Correction(answer.content))
      BY <3>1, AnswersAreLists, CorrectionIsAnswered DEF TalkIsAnswered
    <3> QED BY <3>2, <3>3 DEF TalkIsAnswered
  <2>3. CASE ~AskAgain(answer)
    BY <1>1, <2>1, <2>3 DEF HearResponse, HearError, Decide, GiveUp
  <2> QED BY <2>2, <2>3
<1>4. CASE UNCHANGED talk
  BY <1>1, <1>4
<1>5. CASE Fail \/ EndCycle \/ Fuse \/ ExecuteOther \/ Dispatch \/ BuildSeed \/ Observe
  BY <1>4, <1>5
     DEF Fail, EndCycle, Fuse, ExecuteOther, Dispatch, BuildSeed, Observe, TakeReply, decide
<1>6. CASE DecideFault \/ WorkerFault
  BY <1>1, <1>6 DEF DecideFault, WorkerFault, LoseAttempt, decide
<1>7. CASE UNCHANGED <<decide, agent>>
  BY <1>4, <1>7 DEF decide
<1> QED BY <1>2, <1>3, <1>5, <1>6, <1>7, NextCases DEF DecideStep

-----------------------------------------------------------------------------
(* The theorems.                                                           *)

LEMMA InitTypeOK == Init => TypeOK
BY BatchAssumption
   DEF Init, DispatchInit, DecideInit, TypeOK, Shaped, MAX_DECISION_RETRIES

LEMMA InitStepInv == Init => StepInv
<1> SUFFICES ASSUME Init PROVE StepInv
  OBVIOUS
<1>1. /\ cache = NoRegistry /\ lock = NoJob /\ \A j \in Job : jobs[j] = Resting
      /\ \A s \in Servers : procs[s] = 0
      /\ ran = {} /\ files = {} /\ tail = {} /\ before = {}
      /\ steps = <<>> /\ phase = "rest"
      /\ talk = NoTalk /\ reply = NoReply /\ Slot \subseteq Job
  BY DEF Init, DispatchInit, DecideInit, Job
<1>2. MutexIsHeld /\ RegistryIsTrue
  BY <1>1 DEF MutexIsHeld, RegistryIsTrue, Building, At, Resting
<1>3. OnlyGrantedRun /\ NoOrphanServer
  BY <1>1 DEF OnlyGrantedRun, NoOrphanServer
<1>4. EvidenceIsThere /\ BatchIsListed
  BY <1>1 DEF EvidenceIsThere, BatchIsListed, At, Resting, Recording
<1>5. OneAtATime /\ TalkIsTrue /\ TalkIsAnswered /\ FailsForCause
  BY <1>1 DEF OneAtATime, TalkIsTrue, TalkIsAnswered, FailsForCause, NoReply, Failed
<1> QED BY <1>2, <1>3, <1>4, <1>5 DEF StepInv

LEMMA PhaseTypes ==
    ASSUME TypeOK, Next
    PROVE  phase' \in {"rest", "deciding", "dispatching", "failed"}
<1>1. CASE DecideStep
  BY <1>1 DEF DecideStep, StartDecide, Hear, Fail, EndCycle, Fuse, ExecuteOther, DecideFault,
              agent, TypeOK
<1>2. CASE BuildSeed \/ Dispatch \/ Observe \/ WorkerFault
  BY <1>2 DEF BuildSeed, Dispatch, Observe, WorkerFault, agent, TypeOK
<1> QED BY <1>1, <1>2, NextCases DEF agent, TypeOK

LEMMA StepInvariant ==
    ASSUME TypeOK, StepInv, [Next]_vars
    PROVE  TypeOK' /\ StepInv'
<1>1. CASE Next
  <2> USE <1>1 DEF StepInv
  <2>1. HeardOK' /\ TalkIsTrue' /\ FailsForCause'
    BY TalkStep
  <2>2. TypeOK'
    BY <2>1, JobsStay, ProcsStay, PhaseTypes DEF TypeOK, HeardOK, MAX_DECISION_RETRIES
  <2> QED
    BY <2>1, <2>2, MutexStep, RegistryStep, GrantedStep, ServersStep, EvidenceStep, ListedStep,
       PhaseStep, MessagesStep
<1>2. CASE UNCHANGED vars
  <2> USE <1>2 DEF vars, decide, dispatch, agent
  <2>1. TypeOK'
    BY DEF TypeOK
  <2>2. MutexIsHeld' /\ RegistryIsTrue' /\ OnlyGrantedRun' /\ NoOrphanServer'
    BY DEF StepInv, MutexIsHeld, RegistryIsTrue, OnlyGrantedRun, NoOrphanServer, Building, At,
           IsCallAllowed, Needed, Connected
  <2>3. EvidenceIsThere' /\ BatchIsListed' /\ OneAtATime'
    BY DEF StepInv, EvidenceIsThere, BatchIsListed, OneAtATime, At, batch
  <2>4. TalkIsTrue' /\ TalkIsAnswered' /\ FailsForCause'
    BY DEF StepInv, TalkIsTrue, TalkIsAnswered, FailsForCause, LastHeard
  <2> QED BY <2>1, <2>2, <2>3, <2>4 DEF StepInv
<1> QED BY <1>1, <1>2

\* Types and the inductive invariant, of every reachable state.
THEOREM StepsAreSound == Spec => [](TypeOK /\ StepInv)
<1> USE DEF StepInv
<1>1. Init => TypeOK /\ StepInv
  BY InitTypeOK, InitStepInv
<1>2. TypeOK /\ StepInv /\ [Next]_vars => (TypeOK /\ StepInv)'
  BY StepInvariant
<1> QED BY <1>1, <1>2, PTL DEF Spec

\* A tool is executed by a server of a def the agent was granted, whatever other
\* server advertises its name (is_call_allowed, tool_provider.rs 79-86).
THEOREM GrantsAreKept == Spec => []OnlyGrantedRun
<1>1. StepInv => OnlyGrantedRun
  BY DEF StepInv
<1> QED BY <1>1, StepsAreSound, PTL

\* A workflow is failed only by what another attempt would not mend (decide and
\* classify_decide_error).
THEOREM FailuresHaveACause == Spec => []FailsForCause
<1>1. StepInv => FailsForCause
  BY DEF StepInv
<1> QED BY <1>1, StepsAreSound, PTL

\* Every request, first or corrective, whichever adapter puts it on the wire and
\* whatever the model's last turn held, has the result of each tool call where the
\* vendor looks for it (synthesized_tool_results, llm_decide.rs).
THEOREM RequestsAreAnswered == Spec => []ToolUsesAnswered
<1>1. StepInv => ToolUsesAnswered
  <2> SUFFICES ASSUME StepInv, talk # NoTalk
               PROVE  AnswersUses(Client, Request.body)
    BY DEF ToolUsesAnswered
  <2> DEFINE messages == talk.messages
  <2>1. Answered(messages)
    BY DEF StepInv, TalkIsAnswered
  <2>2. Request.body = Body(Client, messages)
    BY DEF Request
  <2> HIDE DEF messages
  <2>3. CASE Client = "anthropic"
    BY <2>1, <2>2, <2>3, AnthropicAnswers DEF Body
  <2>4. CASE Client # "anthropic"
    BY <2>1, <2>2, <2>4, CohereAnswers DEF Body
  <2> QED BY <2>3, <2>4
<1> QED BY <1>1, StepsAreSound, PTL

\* The registry of a graph is built by one attempt at a time, which holds the mutex;
\* and a server runs at most once, for the registry that is built or cached: a build
\* that fails leaves none behind, nor does an attempt that times out
\* (registry_for_graph, tool_provider.rs).
BuildsAreExclusive ==
    /\ \A j, k \in Job : Building(j) /\ Building(k) => j = k
    /\ NoOrphanServer
THEOREM ServersRunOnce == Spec => []BuildsAreExclusive
<1>1. StepInv => BuildsAreExclusive
  BY DEF StepInv, MutexIsHeld, BuildsAreExclusive
<1> QED BY <1>1, StepsAreSound, PTL

\* Neither the sidecar nor an observation that the model is shown ever names a record
\* that is not there, however the attempts that write it interleave, fail and run on
\* (record_evidence and append_to_tail of fs.rs).
NamedIsThere ==
    /\ tail \subseteq files
    /\ \A i \in DOMAIN steps : steps[i].cited \subseteq files
THEOREM EvidenceIsNeverInvented == Spec => []NamedIsThere
<1>1. StepInv => NamedIsThere
  BY DEF StepInv, EvidenceIsThere, NamedIsThere
<1> QED BY <1>1, StepsAreSound, PTL

\* The calls of a batch lose no entry of the sidecar but each other's, whatever earlier
\* batches had lost and however the attempts interleave, fail and run on: each opens the
\* file system first, which mends the sidecar (reconcile_tail and append_to_tail, fs.rs).
THEOREM OldRecordsAreKept == Spec => []OldRecordsStayListed
<1>1. StepInv => OldRecordsStayListed
  BY DEF StepInv, BatchIsListed, OldRecordsStayListed
<1> QED BY <1>1, StepsAreSound, PTL
=============================================================================

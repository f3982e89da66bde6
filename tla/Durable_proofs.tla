--------------------------- MODULE Durable_proofs ---------------------------
(***************************************************************************)
(* Proofs about what outlives a worker: the files and pages of             *)
(* LocalStorage implement KeyStore, a tick of AgentGit holds what the keys *)
(* Payloads of every durable type are read as they were written, or as     *)
(* what is safe if an older release wrote them, whatever they hold.        *)
(***************************************************************************)
EXTENDS AgentGit, StructuralDb, DurablePayloads, TLAPS

-----------------------------------------------------------------------------
(* Calls.                                                                  *)

Stages(op) ==
    CASE op = "put" -> {"start", "created", "written", "synced", "ok", "error"}
      [] op = "put_if_absent" -> {"start", "created", "written", "ok", "existed", "error"}
      [] op = "delete" -> {"start", "ok", "error"}

\* A call that is in progress has its request, and is at a step of its operation.
CallIsWhole(call) ==
    /\ call = [req |-> call.req, op |-> call.op, at |-> call.at]
    /\ call.req \in Request /\ call.op = call.req.op
    /\ call.at \in Stages(call.op)

CallsAreWhole ==
    /\ calls = [c \in Caller |-> calls[c]]
    /\ \A c \in Caller : calls[c] # Idle => CallIsWhole(calls[c])

\* A temporary file that has been written holds the value of its call: nobody else
\* has a file of that name.
TmpIsWritten ==
    \A c \in Caller :
        calls[c] # Idle /\ calls[c].op = "put" /\ calls[c].at \in {"written", "synced"} =>
            TmpPathFor(c) \in DOMAIN disk /\ disk[TmpPathFor(c)] = calls[c].req.value

\* What requests are about.
LEMMA Requests ==
    ASSUME NEW r \in Request
    PROVE  /\ r.op \in {"put", "put_if_absent", "delete"} /\ r.key \in Key
           /\ r.op = "put_if_absent" <=> r.key \in Creates
           /\ r \in Contract!Request
BY StorageAssumption DEF Request, Contract!Request

LEMMA StagesOf ==
    /\ Stages("put") = {"start", "created", "written", "synced", "ok", "error"}
    /\ Stages("put_if_absent") = {"start", "created", "written", "ok", "existed", "error"}
    /\ Stages("delete") = {"start", "ok", "error"}
BY Zenon DEF Stages

\* A call moves on, and the others stay.
LEMMA GoEffect ==
    ASSUME CallsAreWhole, NEW c \in Caller, calls[c] # Idle, NEW step,
           step \in Stages(calls[c].op), Go(c, step)
    PROVE  /\ calls'[c] = [req |-> calls[c].req, op |-> calls[c].op, at |-> step]
           /\ calls'[c].req = calls[c].req /\ calls'[c].op = calls[c].op /\ calls'[c].at = step
           /\ calls'[c] # Idle
           /\ \A d \in Caller \ {c} : calls'[d] = calls[d]
           /\ CallsAreWhole'
<1>1. calls[c] = [req |-> calls[c].req, op |-> calls[c].op, at |-> calls[c].at]
      /\ calls = [d \in Caller |-> calls[d]] /\ CallIsWhole(calls[c])
  BY DEF CallsAreWhole, CallIsWhole
<1>2. /\ calls'[c] = [calls[c] EXCEPT !.at = step]
      /\ \A d \in Caller \ {c} : calls'[d] = calls[d]
      /\ calls' = [d \in Caller |-> calls'[d]]
  BY <1>1 DEF Go
<1>3. /\ calls'[c] = [req |-> calls[c].req, op |-> calls[c].op, at |-> step]
      /\ calls'[c].req = calls[c].req /\ calls'[c].op = calls[c].op /\ calls'[c].at = step
  BY <1>1, <1>2
<1>4. calls'[c] # Idle
  <2>1. calls[c].op \in {"put", "put_if_absent", "delete"}
    BY <1>1, Requests DEF CallIsWhole
  <2> QED BY <1>3, <2>1 DEF Idle
<1>5. CallIsWhole(calls'[c])
  BY <1>1, <1>3 DEF CallIsWhole
<1> QED BY <1>2, <1>3, <1>4, <1>5 DEF CallsAreWhole

-----------------------------------------------------------------------------
(* Files.                                                                  *)

StorageInv == CallsAreWhole /\ TmpIsWritten

LEMMA TmpNames ==
    ASSUME CallsAreWhole, NEW c \in Caller, calls[c] # Idle
    PROVE  /\ calls[c].req.key \in Key
           /\ TmpPathFor(c) \notin Key
           /\ \A d \in Caller : calls[d] # Idle /\ d # c => TmpPathFor(d) # TmpPathFor(c)
BY Requests, NameAssumption DEF CallsAreWhole, CallIsWhole, TmpPathFor

\* The temporary files of the other callers are left alone.
LEMMA TmpStays ==
    ASSUME StorageInv, CallsAreWhole', NEW c \in Caller, NEW p,
           \A d \in Caller \ {c} : calls'[d] = calls[d],
           \A d \in Caller \ {c} : calls[d] # Idle => TmpPathFor(d) # p,
           \A q \in DOMAIN disk \ {p} : q \in DOMAIN disk' /\ disk'[q] = disk[q],
           calls'[c] # Idle /\ calls'[c].op = "put" /\ calls'[c].at \in {"written", "synced"}
             => /\ TmpPathFor(c)' \in DOMAIN disk'
                /\ disk'[TmpPathFor(c)'] = calls'[c].req.value
    PROVE  StorageInv'
<1>1. ASSUME NEW d \in Caller \ {c},
             calls'[d] # Idle, calls'[d].op = "put", calls'[d].at \in {"written", "synced"}
      PROVE  /\ TmpPathFor(d)' \in DOMAIN disk'
             /\ disk'[TmpPathFor(d)'] = calls'[d].req.value
  <2>1. calls'[d] = calls[d] /\ TmpPathFor(d)' = TmpPathFor(d)
    BY DEF TmpPathFor
  <2>2. /\ TmpPathFor(d) \in DOMAIN disk \ {p}
        /\ disk[TmpPathFor(d)] = calls[d].req.value
    BY <1>1, <2>1 DEF StorageInv, TmpIsWritten
  <2> QED BY <2>1, <2>2
<1> QED BY <1>1 DEF StorageInv, TmpIsWritten

LEMMA FileWithEffect ==
    ASSUME NEW p, NEW v, FileWith(p, v)
    PROVE  /\ p \in DOMAIN disk' /\ disk'[p] = v
           /\ \A q \in DOMAIN disk \ {p} : q \in DOMAIN disk' /\ disk'[q] = disk[q]
           /\ p \notin Key => Resolved' = Resolved
           /\ p \in Key => Resolved' = [k \in DOMAIN Resolved \cup {p} |->
                                           IF k = p THEN v ELSE Resolved[k]]
BY DEF FileWith, Resolved

LEMMA RemovedEffect ==
    ASSUME NEW p, disk' = Removed(p)
    PROVE  /\ \A q \in DOMAIN disk \ {p} : q \in DOMAIN disk' /\ disk'[q] = disk[q]
           /\ p \notin Key => Resolved' = Resolved
           /\ p \in Key => Resolved' = [k \in DOMAIN Resolved \ {p} |-> Resolved[k]]
BY DEF Removed, Resolved

-----------------------------------------------------------------------------
(* What a caller sees of a step.                                           *)

LEMMA SeenCall ==
    ASSUME NEW c \in Caller, calls[c] # Idle
    PROVE  CallsSeen[c] = [req |-> calls[c].req, op |-> calls[c].op,
                           result |-> Outcome(calls[c].op, calls[c].at)]
BY DEF CallsSeen

LEMMA SeenStep ==
    ASSUME CallsAreWhole, NEW c \in Caller, calls[c] # Idle, NEW step,
           step \in Stages(calls[c].op), Go(c, step)
    PROVE  /\ CallsSeen' = [CallsSeen EXCEPT ![c].result = Outcome(calls[c].op, step)]
           /\ Outcome(calls[c].op, step) = Outcome(calls[c].op, calls[c].at)
                => CallsSeen' = CallsSeen
<1>1. /\ calls'[c].req = calls[c].req /\ calls'[c].op = calls[c].op /\ calls'[c].at = step
      /\ calls'[c] # Idle /\ \A d \in Caller \ {c} : calls'[d] = calls[d]
  BY GoEffect
<1>2. CallsSeen'[c] = [req |-> calls[c].req, op |-> calls[c].op,
                       result |-> Outcome(calls[c].op, step)]
  BY <1>1 DEF CallsSeen
<1>3. /\ CallsSeen = [d \in Caller |-> CallsSeen[d]] /\ CallsSeen' = [d \in Caller |-> CallsSeen'[d]]
      /\ \A d \in Caller \ {c} : CallsSeen'[d] = CallsSeen[d]
  BY <1>1 DEF CallsSeen
<1>4. CallsSeen'[c] = [CallsSeen[c] EXCEPT !.result = Outcome(calls[c].op, step)]
  <2> DEFINE seen == CallsSeen[c]
  <2>1. seen = [req |-> calls[c].req, op |-> calls[c].op,
                result |-> Outcome(calls[c].op, calls[c].at)]
    BY SeenCall
  <2> HIDE DEF seen
  <2>2. [seen EXCEPT !.result = Outcome(calls[c].op, step)]
          = [req |-> calls[c].req, op |-> calls[c].op, result |-> Outcome(calls[c].op, step)]
    BY <2>1
  <2> QED BY <1>2, <2>2 DEF seen
<1>5. CallsSeen' = [CallsSeen EXCEPT ![c].result = Outcome(calls[c].op, step)]
  <2> HIDE DEF CallsSeen
  <2> QED BY <1>3, <1>4
<1>6. Outcome(calls[c].op, step) = Outcome(calls[c].op, calls[c].at) => CallsSeen' = CallsSeen
  BY <1>2, <1>3, SeenCall
<1> QED BY <1>5, <1>6

\* The contract's actions on one call, without the listing.
Effect(c) ==
    \/ \E r \in Contract!Request : Contract!Invoke(c, r)
    \/ Contract!Put(c) \/ Contract!Delete(c) \/ Contract!PutIfAbsent(c)
    \/ Contract!Claim(c) \/ Contract!Fill(c) \/ Contract!Settle(c) \/ Contract!Unclaim(c)
    \/ Contract!Fail(c) \/ Contract!Return(c)

\* It has an effect, or nobody sees it.
Seen(c) == Effect(c) \/ UNCHANGED <<Resolved, CallsSeen>>

LEMMA Outcomes ==
    /\ \A op : Outcome(op, "ok") = "ok" /\ Outcome(op, "existed") = "existed"
    /\ \A op : Outcome(op, "error") = "error" /\ Outcome(op, "start") = "open"
    /\ \A stage \in {"created", "written", "synced"} : Outcome("put", stage) = "open"
    /\ Outcome("put_if_absent", "created") = "claimed"
    /\ Outcome("put_if_absent", "written") = "filled"
BY DEF Outcome

\* A call as the contract sees it.
LEMMA SeenAwaits ==
    ASSUME CallsAreWhole, NEW c \in Caller, calls[c] # Idle
    PROVE  /\ CallsSeen[c] # Contract!Idle
           /\ Contract!KeyOf(c) = calls[c].req.key
           /\ CallsSeen[c].op = calls[c].op /\ CallsSeen[c].req = calls[c].req
           /\ CallsSeen[c].result = Outcome(calls[c].op, calls[c].at)
<1>1. CallsSeen[c] = [req |-> calls[c].req, op |-> calls[c].op,
                      result |-> Outcome(calls[c].op, calls[c].at)]
  BY SeenCall
<1>2. calls[c].op \in {"put", "put_if_absent", "delete"}
  BY Requests DEF CallsAreWhole, CallIsWhole
<1>3. CallsSeen[c].op = calls[c].op /\ CallsSeen[c].req = calls[c].req
      /\ CallsSeen[c].result = Outcome(calls[c].op, calls[c].at)
  BY <1>1
<1> HIDE DEF CallsSeen
<1> QED BY <1>2, <1>3 DEF Contract!Idle, Contract!KeyOf

-----------------------------------------------------------------------------
(* The steps of the storage.                                               *)

\* A step that moves a call on, and writes a file or takes one away.
LEMMA CallBegins ==
    ASSUME StorageInv, NEW c \in Caller, NEW r \in Request, Call(c, r)
    PROVE  StorageInv' /\ Seen(c)
<1>1. calls[c] = Idle /\ UNCHANGED disk /\ calls = [d \in Caller |-> calls[d]]
  BY DEF Call, StorageInv, CallsAreWhole
<1>2. /\ calls'[c] = [req |-> r, op |-> r.op, at |-> "start"]
      /\ \A d \in Caller \ {c} : calls'[d] = calls[d]
      /\ calls' = [d \in Caller |-> calls'[d]]
  BY <1>1 DEF Call
<1>3. r.op \in {"put", "put_if_absent", "delete"} /\ r \in Contract!Request
  BY Requests
<1>4. calls'[c] # Idle /\ calls'[c].op = r.op /\ calls'[c].at = "start" /\ calls'[c].req = r
  BY <1>2, <1>3 DEF Idle
<1>5. CallIsWhole(calls'[c])
  BY <1>2, <1>3, <1>4, StagesOf DEF CallIsWhole
<1>6. CallsAreWhole'
  BY <1>2, <1>5 DEF StorageInv, CallsAreWhole
<1>7. TmpIsWritten'
  BY <1>1, <1>2, <1>4 DEF StorageInv, TmpIsWritten, TmpPathFor
<1>8. CallsSeen' = [CallsSeen EXCEPT ![c] = [req |-> r, op |-> r.op, result |-> "open"]]
  <2>1. CallsSeen'[c] = [req |-> r, op |-> r.op, result |-> "open"]
    BY <1>4, Outcomes DEF CallsSeen
  <2>2. /\ CallsSeen = [d \in Caller |-> CallsSeen[d]]
        /\ CallsSeen' = [d \in Caller |-> CallsSeen'[d]]
        /\ \A d \in Caller \ {c} : CallsSeen'[d] = CallsSeen[d]
    BY <1>2 DEF CallsSeen
  <2> HIDE DEF CallsSeen
  <2> QED BY <2>1, <2>2
<1>9. CallsSeen[c] = Contract!Idle
  BY <1>1 DEF CallsSeen, Idle, Contract!Idle
<1>10. Resolved' = Resolved
  BY <1>1 DEF Resolved
<1>11. Contract!Invoke(c, r)
  BY <1>8, <1>9, <1>10 DEF Contract!Invoke
<1> QED BY <1>3, <1>6, <1>7, <1>11 DEF Seen, Effect, StorageInv

LEMMA PutSteps ==
    ASSUME StorageInv, NEW c \in Caller,
           CreateTmp(c) \/ (At(c, "put", "created") /\ WriteAll(c))
                        \/ (At(c, "put", "written") /\ SyncAll(c)) \/ Rename(c)
    PROVE  StorageInv' /\ Seen(c)
<1> DEFINE tmp == TmpPathFor(c)
           content == calls[c].req.value
           key == calls[c].req.key
<1>1. /\ calls[c] # Idle /\ calls[c].op = "put" /\ CallsAreWhole
      /\ calls[c].at \in {"start", "created", "written", "synced"}
  BY DEF CreateTmp, SyncAll, Rename, At, StorageInv
<1>2. /\ tmp \notin Key /\ key \in Key
      /\ \A d \in Caller \ {c} : calls[d] # Idle => TmpPathFor(d) # tmp /\ TmpPathFor(d) # key
  <2>1. \A d \in Caller : calls[d] # Idle => TmpPathFor(d) \notin Key
    BY <1>1, TmpNames
  <2> QED BY <1>1, <2>1, TmpNames
<1>3. ASSUME NEW step \in {"created", "written", "synced", "ok"}, Go(c, step)
      PROVE  /\ CallsAreWhole' /\ \A d \in Caller \ {c} : calls'[d] = calls[d]
             /\ calls'[c].at = step /\ calls'[c].op = "put"
             /\ TmpPathFor(c)' = tmp /\ calls'[c].req.value = content
  <2>1. step \in Stages(calls[c].op)
    BY <1>1, StagesOf
  <2> QED BY <1>1, <1>3, <2>1, GoEffect DEF TmpPathFor
<1>4. ASSUME NEW step \in {"created", "written", "synced"}, Go(c, step)
      PROVE  CallsSeen' = CallsSeen
  <2>1. step \in Stages(calls[c].op) /\ Outcome("put", step) = Outcome("put", calls[c].at)
    BY <1>1, StagesOf, Outcomes
  <2> QED BY <1>1, <1>4, <2>1, SeenStep
<1>5. CASE CreateTmp(c)
  <2>1. FileWith(tmp, Torn) /\ Go(c, "created")
    BY <1>5 DEF CreateTmp
  <2>2. /\ \A q \in DOMAIN disk \ {tmp} : q \in DOMAIN disk' /\ disk'[q] = disk[q]
        /\ Resolved' = Resolved
    BY <1>2, <2>1, FileWithEffect
  <2>3. StorageInv'
    BY <1>2, <1>3, <2>1, <2>2, TmpStays
  <2> QED BY <1>4, <2>1, <2>2, <2>3 DEF Seen
<1>6. CASE At(c, "put", "created") /\ WriteAll(c)
  <2>1. FileWith(tmp, content) /\ Go(c, "written")
    BY <1>1, <1>6 DEF WriteAll, Target
  <2>2. /\ \A q \in DOMAIN disk \ {tmp} : q \in DOMAIN disk' /\ disk'[q] = disk[q]
        /\ tmp \in DOMAIN disk' /\ disk'[tmp] = content /\ Resolved' = Resolved
    BY <1>2, <2>1, FileWithEffect
  <2>3. StorageInv'
    BY <1>2, <1>3, <2>1, <2>2, TmpStays
  <2> QED BY <1>4, <2>1, <2>2, <2>3 DEF Seen
<1>7. CASE At(c, "put", "written") /\ SyncAll(c)
  <2>1. UNCHANGED disk /\ Go(c, "synced") /\ calls[c].at = "written"
    BY <1>7 DEF SyncAll, At
  <2>2. tmp \in DOMAIN disk /\ disk[tmp] = content
    BY <1>1, <2>1 DEF StorageInv, TmpIsWritten
  <2>3. StorageInv'
    BY <1>2, <1>3, <2>1, <2>2, TmpStays
  <2>4. Resolved' = Resolved
    BY <2>1 DEF Resolved
  <2> QED BY <1>4, <2>1, <2>3, <2>4 DEF Seen
<1>8. CASE Rename(c)
  <2>1. /\ calls[c].at = "synced" /\ Go(c, "ok")
        /\ disk' = [q \in (DOMAIN disk \ {tmp}) \cup {key} |->
                       IF q = key THEN disk[tmp] ELSE disk[q]]
    BY <1>8 DEF Rename, At
  <2>2. tmp \in DOMAIN disk /\ disk[tmp] = content
    BY <1>1, <2>1 DEF StorageInv, TmpIsWritten
  <2>3. CallsAreWhole' /\ \A d \in Caller \ {c} : calls'[d] = calls[d]
    BY <1>3, <2>1
  <2>4. TmpIsWritten'
    <3>1. ASSUME NEW d \in Caller, calls'[d] # Idle, calls'[d].op = "put",
                 calls'[d].at \in {"written", "synced"}
          PROVE  /\ TmpPathFor(d)' \in DOMAIN disk'
                 /\ disk'[TmpPathFor(d)'] = calls'[d].req.value
      <4>1. d # c
        BY <1>3, <2>1, <3>1
      <4>2. calls'[d] = calls[d] /\ TmpPathFor(d)' = TmpPathFor(d)
        BY <2>3, <4>1 DEF TmpPathFor
      <4>3. TmpPathFor(d) \in DOMAIN disk /\ disk[TmpPathFor(d)] = calls[d].req.value
        BY <3>1, <4>2 DEF StorageInv, TmpIsWritten
      <4>4. TmpPathFor(d) # tmp /\ TmpPathFor(d) # key
        BY <1>2, <3>1, <4>1, <4>2
      <4> QED BY <2>1, <4>2, <4>3, <4>4
    <3> QED BY <3>1 DEF TmpIsWritten
  <2>5. Resolved' = [k \in DOMAIN Resolved \cup {key} |-> IF k = key THEN content ELSE Resolved[k]]
    BY <1>2, <2>1, <2>2 DEF Resolved
  <2>6. "ok" \in Stages(calls[c].op)
    BY <1>1, StagesOf
  <2>7. CallsSeen' = [CallsSeen EXCEPT ![c].result = "ok"]
    BY <1>1, <2>1, <2>6, SeenStep, Outcomes
  <2>8. Contract!Put(c)
    BY <1>1, <2>1, <2>5, <2>7, SeenAwaits, Outcomes
    DEF Contract!Put, Contract!Awaits, Contract!Write, Contract!Answer
  <2> QED BY <2>3, <2>4, <2>8 DEF Seen, Effect, StorageInv
<1> QED BY <1>5, <1>6, <1>7, <1>8

\* put_if_absent, delete, and the answers.
LEMMA OtherSteps ==
    ASSUME StorageInv, NEW c \in Caller,
           CreateNew(c) \/ (At(c, "put_if_absent", "created") /\ WriteAll(c))
              \/ (At(c, "put_if_absent", "written") /\ SyncAll(c)) \/ Delete(c)
    PROVE  StorageInv' /\ Seen(c)
<1> DEFINE content == calls[c].req.value
           key == calls[c].req.key
<1>1. /\ calls[c] # Idle /\ calls[c].op \in {"put_if_absent", "delete"} /\ CallsAreWhole
      /\ calls[c].op = "put_if_absent" => calls[c].at \in {"start", "created", "written"}
      /\ calls[c].op = "delete" => calls[c].at = "start"
  BY DEF CreateNew, SyncAll, Delete, At, StorageInv
<1>2. key \in Key /\ \A d \in Caller \ {c} : calls[d] # Idle => TmpPathFor(d) # key
  BY <1>1, TmpNames
<1>3. ASSUME NEW step \in Stages(calls[c].op), Go(c, step),
             \A q \in DOMAIN disk \ {key} : q \in DOMAIN disk' /\ disk'[q] = disk[q]
      PROVE  /\ StorageInv'
             /\ CallsSeen' = [CallsSeen EXCEPT ![c].result = Outcome(calls[c].op, step)]
  <2>1. /\ CallsAreWhole' /\ \A d \in Caller \ {c} : calls'[d] = calls[d]
        /\ calls'[c].op = calls[c].op
    BY <1>1, <1>3, GoEffect
  <2>2. StorageInv'
    BY <1>1, <1>2, <1>3, <2>1, TmpStays
  <2> QED BY <1>1, <1>3, <2>2, SeenStep
<1>4. /\ CallsSeen[c] # Contract!Idle /\ Contract!KeyOf(c) = key
      /\ CallsSeen[c].op = calls[c].op /\ CallsSeen[c].req = calls[c].req
      /\ CallsSeen[c].result = Outcome(calls[c].op, calls[c].at)
  BY <1>1, SeenAwaits
<1>5. DOMAIN Resolved = Key \cap DOMAIN disk
  BY DEF Resolved
<1>6. CASE CreateNew(c)
  <2>1. calls[c].op = "put_if_absent" /\ calls[c].at = "start"
    BY <1>6 DEF CreateNew, At
  <2>2. {"existed", "created"} \subseteq Stages(calls[c].op)
    BY <2>1, StagesOf
  <2>3. CASE key \in DOMAIN disk
    <3>1. Go(c, "existed") /\ UNCHANGED disk
      BY <1>6, <2>3 DEF CreateNew
    <3>2. StorageInv' /\ CallsSeen' = [CallsSeen EXCEPT ![c].result = "existed"]
      BY <1>3, <2>2, <3>1, Outcomes
    <3>3. Resolved' = Resolved
      BY <3>1 DEF Resolved
    <3>4. Contract!PutIfAbsent(c)
      BY <1>2, <1>4, <1>5, <2>1, <2>3, <3>2, <3>3, Outcomes
      DEF Contract!PutIfAbsent, Contract!Awaits, Contract!Answer
    <3> QED BY <3>2, <3>4 DEF Seen, Effect
  <2>4. CASE key \notin DOMAIN disk
    <3>1. Go(c, "created") /\ FileWith(key, Torn)
      BY <1>6, <2>4 DEF CreateNew
    <3> HIDE DEF key
    <3>2. /\ \A q \in DOMAIN disk \ {key} : q \in DOMAIN disk' /\ disk'[q] = disk[q]
          /\ Resolved' = [k \in DOMAIN Resolved \cup {key} |-> IF k = key THEN Torn ELSE Resolved[k]]
      BY <1>2, <3>1, FileWithEffect
    <3>3. StorageInv' /\ CallsSeen' = [CallsSeen EXCEPT ![c].result = "claimed"]
      BY <1>3, <2>1, <2>2, <3>1, <3>2, Outcomes
    <3>4. Contract!Claim(c)
      BY <1>2, <1>4, <1>5, <2>1, <2>4, <3>2, <3>3, Outcomes
      DEF Contract!Claim, Contract!Awaits, Contract!Answer, Contract!Write
    <3> QED BY <3>3, <3>4 DEF Seen, Effect
  <2> QED BY <2>3, <2>4
<1>7. CASE At(c, "put_if_absent", "created") /\ WriteAll(c)
  <2>1. /\ calls[c].op = "put_if_absent" /\ calls[c].at = "created"
        /\ FileWith(key, content) /\ Go(c, "written")
    BY <1>7 DEF WriteAll, Target, At
  <2> HIDE DEF key, content
  <2>2. /\ \A q \in DOMAIN disk \ {key} : q \in DOMAIN disk' /\ disk'[q] = disk[q]
        /\ Resolved' = [k \in DOMAIN Resolved \cup {key} |-> IF k = key THEN content ELSE Resolved[k]]
    <3>1. \A q \in DOMAIN disk \ {key} : q \in DOMAIN disk' /\ disk'[q] = disk[q]
      BY <2>1, FileWithEffect
    <3>2. Resolved' = [k \in DOMAIN Resolved \cup {key} |-> IF k = key THEN content ELSE Resolved[k]]
      BY <1>2, <2>1 DEF FileWith, Resolved
    <3> QED BY <3>1, <3>2
  <2>3. "written" \in Stages(calls[c].op)
    BY <2>1, StagesOf
  <2>4. StorageInv' /\ CallsSeen' = [CallsSeen EXCEPT ![c].result = "filled"]
    BY <1>3, <2>1, <2>2, <2>3, Outcomes
  <2>5. Contract!Fill(c)
    BY <1>4, <2>1, <2>2, <2>4, Outcomes
    DEF Contract!Fill, Contract!Awaits, Contract!Answer, Contract!Write, content
  <2> QED BY <2>4, <2>5 DEF Seen, Effect
<1>8. CASE At(c, "put_if_absent", "written") /\ SyncAll(c)
  <2>1. /\ calls[c].op = "put_if_absent" /\ calls[c].at = "written"
        /\ Go(c, "ok") /\ UNCHANGED disk
    BY <1>8 DEF SyncAll, At
  <2>2. "ok" \in Stages(calls[c].op) /\ Resolved' = Resolved
    BY <2>1, StagesOf DEF Resolved
  <2>3. StorageInv' /\ CallsSeen' = [CallsSeen EXCEPT ![c].result = "ok"]
    BY <1>3, <2>1, <2>2, Outcomes
  <2>4. Contract!Settle(c)
    BY <1>4, <2>1, <2>2, <2>3, Outcomes
    DEF Contract!Settle, Contract!Awaits, Contract!Answer
  <2> QED BY <2>3, <2>4 DEF Seen, Effect
<1>9. CASE Delete(c)
  <2>1. /\ calls[c].op = "delete" /\ calls[c].at = "start"
        /\ Go(c, "ok") /\ disk' = Removed(key)
    BY <1>9 DEF Delete, At
  <2>2. /\ \A q \in DOMAIN disk \ {key} : q \in DOMAIN disk' /\ disk'[q] = disk[q]
        /\ Resolved' = [k \in DOMAIN Resolved \ {key} |-> Resolved[k]]
    BY <1>2, <2>1, RemovedEffect
  <2>3. "ok" \in Stages(calls[c].op)
    BY <2>1, StagesOf
  <2>4. StorageInv' /\ CallsSeen' = [CallsSeen EXCEPT ![c].result = "ok"]
    BY <1>3, <2>1, <2>2, <2>3, Outcomes
  <2>5. Contract!Delete(c)
    BY <1>4, <2>1, <2>2, <2>4, Outcomes
    DEF Contract!Delete, Contract!Awaits, Contract!Answer, Contract!Erase
  <2> QED BY <2>4, <2>5 DEF Seen, Effect
<1> QED BY <1>6, <1>7, <1>8, <1>9

LEMMA CallEnds ==
    ASSUME StorageInv, NEW c \in Caller, Ack(c)
    PROVE  StorageInv' /\ Seen(c)
<1>1. /\ calls[c] # Idle /\ calls[c].at \in {"ok", "existed", "error"} /\ UNCHANGED disk
      /\ CallsAreWhole /\ calls = [d \in Caller |-> calls[d]]
  BY DEF Ack, StorageInv, CallsAreWhole
<1>2. /\ calls'[c] = Idle /\ \A d \in Caller \ {c} : calls'[d] = calls[d]
      /\ calls' = [d \in Caller |-> calls'[d]]
  BY <1>1 DEF Ack
<1>3. StorageInv'
  BY <1>1, <1>2 DEF StorageInv, CallsAreWhole, TmpIsWritten, TmpPathFor
<1>4. CallsSeen' = [CallsSeen EXCEPT ![c] = Contract!Idle]
  <2>1. CallsSeen'[c] = Contract!Idle
    BY <1>2 DEF CallsSeen, Idle, Contract!Idle
  <2>2. /\ CallsSeen = [d \in Caller |-> CallsSeen[d]]
        /\ CallsSeen' = [d \in Caller |-> CallsSeen'[d]]
        /\ \A d \in Caller \ {c} : CallsSeen'[d] = CallsSeen[d]
    BY <1>2 DEF CallsSeen
  <2> HIDE DEF CallsSeen
  <2> QED BY <2>1, <2>2
<1>5. CallsSeen[c] # Contract!Idle /\ CallsSeen[c].result \in {"ok", "existed", "error"}
  BY <1>1, SeenAwaits, Outcomes
<1>6. Resolved' = Resolved
  BY <1>1 DEF Resolved
<1> QED BY <1>3, <1>4, <1>5, <1>6 DEF Seen, Effect, Contract!Return

LEMMA CallFailed ==
    ASSUME StorageInv, NEW c \in Caller, IoError(c)
    PROVE  StorageInv' /\ Seen(c)
<1> DEFINE op == calls[c].op
           stage == calls[c].at
           file == Target(c)
<1>1. /\ calls[c] # Idle /\ CallsAreWhole /\ Go(c, "error")
      /\ stage \in {"start", "created", "written", "synced"}
      /\ stage = "start" => UNCHANGED disk
      /\ UNCHANGED disk \/ disk' = Removed(file)
  BY DEF IoError, StorageInv
<1>2. /\ op \in {"put", "put_if_absent", "delete"} /\ stage \in Stages(op)
      /\ "error" \in Stages(op)
  BY <1>1, StagesOf, Requests DEF CallsAreWhole, CallIsWhole
<1>3. /\ CallsAreWhole' /\ \A d \in Caller \ {c} : calls'[d] = calls[d]
      /\ calls'[c].at = "error"
      /\ CallsSeen' = [CallsSeen EXCEPT ![c].result = "error"]
  <2>1. /\ CallsAreWhole' /\ \A d \in Caller \ {c} : calls'[d] = calls[d]
        /\ calls'[c].at = "error"
    BY <1>1, <1>2, GoEffect
  <2>2. CallsSeen' = [CallsSeen EXCEPT ![c].result = "error"]
    BY <1>1, <1>2, SeenStep, Outcomes
  <2> QED BY <2>1, <2>2
<1>4. \A q \in DOMAIN disk \ {file} : q \in DOMAIN disk' /\ disk'[q] = disk[q]
  BY <1>1, RemovedEffect
<1>5. \A d \in Caller \ {c} : calls[d] # Idle => TmpPathFor(d) # file
  BY <1>1, TmpNames DEF Target
<1>6. StorageInv'
  BY <1>3, <1>4, <1>5, TmpStays
<1>7. /\ CallsSeen[c] # Contract!Idle /\ Contract!KeyOf(c) = calls[c].req.key
      /\ CallsSeen[c].op = op /\ CallsSeen[c].result = Outcome(op, stage)
  BY <1>1, SeenAwaits
<1>8. CASE op = "put_if_absent" /\ stage # "start"
  <2>1. stage \in {"created", "written"} /\ file = calls[c].req.key /\ file \in Key
    BY <1>1, <1>2, <1>8, StagesOf, TmpNames DEF Target
  <2>2. \/ Resolved' = Resolved
        \/ Resolved' = [k \in DOMAIN Resolved \ {file} |-> Resolved[k]]
    BY <1>1, <2>1, RemovedEffect DEF Resolved
  <2>3. Contract!Unclaim(c)
    BY <1>3, <1>7, <1>8, <2>1, <2>2, Outcomes
    DEF Contract!Unclaim, Contract!Awaits, Contract!Answer, Contract!Erase
  <2> QED BY <1>6, <2>3 DEF Seen, Effect
<1>9. CASE op # "put_if_absent" \/ stage = "start"
  <2>1. Outcome(op, stage) = "open"
    BY <1>1, <1>2, <1>9, StagesOf, Outcomes
  <2>2. Resolved' = Resolved
    <3>1. CASE UNCHANGED disk
      BY <3>1 DEF Resolved
    <3>2. CASE stage # "start" /\ disk' = Removed(file)
      <4>1. op = "put" /\ file \notin Key
        BY <1>1, <1>2, <1>9, <3>2, StagesOf, TmpNames DEF Target
      <4> QED BY <3>2, <4>1, RemovedEffect
    <3> QED BY <1>1, <3>1, <3>2
  <2>3. Contract!Fail(c)
    BY <1>3, <1>7, <2>1, <2>2 DEF Contract!Fail, Contract!Answer
  <2> QED BY <1>6, <2>3 DEF Seen, Effect
<1> QED BY <1>8, <1>9

LEMMA StorageStep ==
    ASSUME StorageInv, NEW c \in Caller,
           (\E r \in Request : Call(c, r)) \/ CallStep(c) \/ IoError(c)
    PROVE  StorageInv' /\ Seen(c)
<1>1. CASE \E r \in Request : Call(c, r)
  BY <1>1, CallBegins
<1>2. CASE WriteAll(c)
  <2>1. At(c, "put", "created") \/ At(c, "put_if_absent", "created")
    BY <1>2 DEF WriteAll
  <2> QED BY <1>2, <2>1, PutSteps, OtherSteps
<1>3. CASE SyncAll(c)
  <2>1. At(c, "put", "written") \/ At(c, "put_if_absent", "written")
    BY <1>3 DEF SyncAll
  <2> QED BY <1>3, <2>1, PutSteps, OtherSteps
<1>4. CASE CreateTmp(c) \/ Rename(c)
  BY <1>4, PutSteps
<1>5. CASE CreateNew(c) \/ Delete(c)
  BY <1>5, OtherSteps
<1> QED BY <1>1, <1>2, <1>3, <1>4, <1>5, CallEnds, CallFailed DEF CallStep

\* The worker dies: only a key that a call was filling may be torn.
LEMMA DeathStep ==
    ASSUME StorageInv, Die
    PROVE  StorageInv' /\ Contract!Crash
<1>1. calls' = [c \in Caller |-> Idle]
  BY DEF Die
<1>2. StorageInv'
  BY <1>1 DEF StorageInv, CallsAreWhole, TmpIsWritten
<1>3. PICK lost \in SUBSET {c \in Caller : Unsynced(c)} :
          disk' = [p \in DOMAIN disk |->
                      IF \E c \in lost : Target(c) = p THEN Torn ELSE disk[p]]
  BY DEF Die
<1> DEFINE torn == {c \in lost : calls[c].op = "put_if_absent"}
<1>4. ASSUME NEW c \in lost
      PROVE  /\ c \in Caller /\ calls[c] # Idle /\ calls[c].at = "written"
             /\ calls[c].op = "put" => Target(c) \notin Key
             /\ calls[c].op = "put_if_absent" => Target(c) = calls[c].req.key
             /\ calls[c].op \in {"put", "put_if_absent"}
  <2>1. c \in Caller /\ Unsynced(c)
    BY <1>3
  <2>2. /\ calls[c] # Idle /\ calls[c].at = "written"
        /\ calls[c].op \in {"put", "put_if_absent"}
    BY <2>1 DEF Unsynced, At
  <2> QED BY <2>1, <2>2, TmpNames DEF Target, StorageInv
<1>5. \A c \in torn : /\ c \in Caller /\ Contract!Awaits(c, "put_if_absent", "filled")
                      /\ Contract!KeyOf(c) = Target(c)
  BY <1>4, SeenAwaits, Outcomes DEF StorageInv, Contract!Awaits
<1>6. Resolved' = [k \in DOMAIN Resolved |->
                      IF \E c \in torn : Contract!KeyOf(c) = k THEN Torn ELSE Resolved[k]]
  <2>1. \A k \in Key : (\E c \in lost : Target(c) = k) <=> \E c \in torn : Contract!KeyOf(c) = k
    BY <1>4, <1>5
  <2> HIDE DEF torn
  <2>2. /\ DOMAIN Resolved = Key \cap DOMAIN disk /\ DOMAIN disk' = DOMAIN disk
        /\ \A k \in Key \cap DOMAIN disk : Resolved[k] = disk[k]
        /\ Resolved' = [k \in Key \cap DOMAIN disk' |-> disk'[k]]
    BY <1>3 DEF Resolved
  <2>3. \A k \in Key \cap DOMAIN disk :
            disk'[k] = IF \E c \in torn : Contract!KeyOf(c) = k THEN Torn ELSE Resolved[k]
    BY <1>3, <2>1, <2>2
  <2> HIDE DEF Resolved
  <2> QED BY <2>2, <2>3
<1>7. CallsSeen' = [c \in Caller |-> Contract!Idle]
  BY <1>1 DEF CallsSeen, Idle, Contract!Idle
<1>8. torn \in SUBSET {c \in Caller : Contract!Awaits(c, "put_if_absent", "filled")}
  BY <1>5
<1> HIDE DEF torn
<1> QED BY <1>2, <1>6, <1>7, <1>8 DEF Contract!Crash

-----------------------------------------------------------------------------
(* The listing.                                                            *)

\* A key that has resolved since the listing began is in a page, or is still to come.
ListingInv ==
    /\ walk = [after |-> walk.after, pages |-> walk.pages, over |-> walk.over]
    /\ walk.over \in BOOLEAN
    /\ steady \subseteq Key \cap DOMAIN disk
    /\ walk = NoWalk => steady = {}
    /\ \A k \in steady \ walk.pages : ~walk.over /\ Rank(k) > walk.after

LEMMA RankIsPositive ==
    ASSUME NEW k \in Key
    PROVE  Rank(k) \in Nat \ {0}
<1>1. \E i \in DOMAIN KeyOrder : KeyOrder[i] = k
  BY DEF Key
<1>2. DOMAIN KeyOrder \subseteq Nat \ {0}
  BY StorageAssumption
<1> QED BY <1>1, <1>2 DEF Rank

\* While files come and go, the listing owes what is still there.
LEMMA ListingAlong ==
    ASSUME ListingInv, UNCHANGED walk, Observed
    PROVE  /\ ListingInv'
           /\ ListingSeen' = [ListingSeen EXCEPT !.owes = @ \cap DOMAIN Resolved']
           /\ Resolved' = Resolved => ListingSeen' = ListingSeen
<1>1. steady' = steady \cap DOMAIN disk' /\ steady' \subseteq Key \cap DOMAIN disk'
  BY DEF Observed, ListingInv
<1>2. DOMAIN Resolved = Key \cap DOMAIN disk /\ DOMAIN Resolved' = Key \cap DOMAIN disk'
  BY DEF Resolved
<1>3. ListingInv'
  BY <1>1 DEF ListingInv, NoWalk
<1>4. steady' \ walk.pages = (steady \ walk.pages) \cap DOMAIN Resolved'
  BY <1>1, <1>2
<1>5. ListingSeen' = [ListingSeen EXCEPT !.owes = @ \cap DOMAIN Resolved']
  BY <1>4 DEF ListingSeen
<1>6. Resolved' = Resolved => steady' = steady
  BY <1>1, <1>2 DEF ListingInv
<1> QED BY <1>3, <1>5, <1>6 DEF ListingSeen

LEMMA PageStep ==
    ASSUME ListingInv, ListPage, UNCHANGED disk, Observed
    PROVE  ListingInv' /\ Contract!ShowPage
<1>1. PICK page \in SUBSET Listed(walk.after), next \in 0 .. Len(KeyOrder) :
          /\ IsPage(page, walk.after) /\ IsCursor(next, page, walk.after)
          /\ walk' = [after |-> next, pages |-> walk.pages \cup page, over |-> next = 0]
  BY DEF ListPage
<1>2. walk' # NoWalk /\ (next = 0) \in BOOLEAN
  BY <1>1 DEF NoWalk
<1>3. steady' = IF walk = NoWalk THEN Key \cap DOMAIN disk ELSE steady
  BY <1>2 DEF Observed, ListingInv
<1>4. ASSUME NEW k \in steady' \ walk'.pages
      PROVE  ~walk'.over /\ Rank(k) > walk'.after
  <2>1. k \in Key \cap DOMAIN disk /\ k \notin page /\ k \notin walk.pages
    BY <1>1, <1>3 DEF ListingInv
  <2>2. Rank(k) > walk.after
    BY <1>3, <2>1, RankIsPositive DEF ListingInv, NoWalk
  <2>3. k \in Listed(walk.after) \ page
    BY <2>1, <2>2 DEF Listed
  <2>4. PICK last \in page : next = Rank(last) /\ Rank(last) < Rank(k)
    BY <1>1, <2>3 DEF IsCursor, IsPage
  <2>5. next # 0
    BY <2>4, RankIsPositive DEF Listed
  <2>6. Rank(k) \in Nat
    BY <2>1, RankIsPositive
  <2> QED BY <1>1, <2>4, <2>5, <2>6
<1>5. ListingInv'
  BY <1>1, <1>2, <1>3, <1>4 DEF ListingInv
<1>6. page \in SUBSET DOMAIN Resolved /\ DOMAIN Resolved = Key \cap DOMAIN disk
  BY <1>1 DEF Listed, Resolved
<1>7. ListingSeen' = [open |-> TRUE,
          owes |-> (IF ListingSeen.open THEN ListingSeen.owes ELSE DOMAIN Resolved) \ page]
  <2>1. ListingSeen' = [open |-> TRUE, owes |-> steady' \ (walk.pages \cup page)]
    BY <1>1, <1>2 DEF ListingSeen
  <2>2. CASE walk = NoWalk
    BY <1>3, <1>6, <2>1, <2>2 DEF ListingSeen, NoWalk
  <2>3. CASE walk # NoWalk
    <3>1. ListingSeen.open = TRUE /\ ListingSeen.owes = steady \ walk.pages
      BY <2>3 DEF ListingSeen
    <3>2. steady' \ (walk.pages \cup page) = (steady \ walk.pages) \ page
      BY <1>3, <2>3
    <3> QED BY <2>1, <3>1, <3>2
  <2> QED BY <2>2, <2>3
<1> QED BY <1>5, <1>6, <1>7 DEF Contract!ShowPage

LEMMA ListingEndStep ==
    ASSUME ListingInv, ListEnds, Observed
    PROVE  ListingInv' /\ Contract!EndListing
<1>1. walk.over /\ walk' = NoWalk /\ steady' = {}
  BY DEF ListEnds, Observed
<1>2. walk # NoWalk /\ steady \ walk.pages = {}
  BY <1>1 DEF ListingInv, NoWalk
<1>3. ListingInv'
  BY <1>1 DEF ListingInv, NoWalk
<1> QED BY <1>1, <1>2, <1>3 DEF Contract!EndListing, Contract!NotListing, ListingSeen, NoWalk

-----------------------------------------------------------------------------
(* The contract is kept.                                                   *)

ContractInv == StorageInv /\ ListingInv

LEMMA ContractStep ==
    ASSUME ContractInv, [Next]_vars
    PROVE  ContractInv' /\ [Contract!KSNext]_<<Resolved, CallsSeen, ListingSeen>>
<1> USE DEF ContractInv
<1>1. ASSUME NEW c \in Caller, (\E r \in Request : Call(c, r)) \/ CallStep(c) \/ IoError(c),
             UNCHANGED walk, Observed
      PROVE  ContractInv' /\ [Contract!KSNext]_<<Resolved, CallsSeen, ListingSeen>>
  <2>1. StorageInv' /\ Seen(c)
    BY <1>1, StorageStep
  <2>2. /\ ListingInv'
        /\ ListingSeen' = [ListingSeen EXCEPT !.owes = @ \cap DOMAIN Resolved']
        /\ Resolved' = Resolved => ListingSeen' = ListingSeen
    BY <1>1, ListingAlong
  <2>3. CASE Effect(c)
    <3>1. Contract!Called(c)
      BY <2>2, <2>3 DEF Effect, Contract!Called
    <3> QED BY <2>1, <2>2, <3>1 DEF Contract!KSNext
  <2> QED BY <2>1, <2>2, <2>3 DEF Seen
<1>2. ASSUME UNCHANGED <<disk, calls>>, ListPage \/ ListEnds, Observed
      PROVE  ContractInv' /\ [Contract!KSNext]_<<Resolved, CallsSeen, ListingSeen>>
  <2>1. StorageInv' /\ UNCHANGED <<Resolved, CallsSeen>>
    BY <1>2 DEF StorageInv, CallsAreWhole, TmpIsWritten, TmpPathFor, Resolved, CallsSeen
  <2>2. ListingInv' /\ (Contract!ShowPage \/ Contract!EndListing)
    BY <1>2, PageStep, ListingEndStep
  <2> QED BY <2>1, <2>2 DEF Contract!KSNext
<1>3. ASSUME UNCHANGED <<disk, calls, walk>>, Observed \/ UNCHANGED vars
      PROVE  ContractInv' /\ [Contract!KSNext]_<<Resolved, CallsSeen, ListingSeen>>
  <2>1. StorageInv' /\ UNCHANGED <<Resolved, CallsSeen>>
    BY <1>3 DEF StorageInv, CallsAreWhole, TmpIsWritten, TmpPathFor, Resolved, CallsSeen
  <2>2. CASE Observed
    BY <1>3, <2>1, <2>2, ListingAlong
  <2>3. CASE UNCHANGED vars
    BY <2>1, <2>3 DEF vars, ListingInv, ListingSeen
  <2> QED BY <1>3, <2>2, <2>3
<1>4. CASE WorkerDies /\ Observed
  <2>1. StorageInv' /\ Contract!Crash
    BY <1>4, DeathStep DEF WorkerDies
  <2>2. walk' = NoWalk /\ steady' = {}
    BY <1>4 DEF WorkerDies, Observed
  <2>3. ListingInv' /\ ListingSeen' = Contract!NotListing
    BY <2>2 DEF ListingInv, NoWalk, ListingSeen, Contract!NotListing
  <2> QED BY <2>1, <2>3 DEF Contract!KSNext
<1>5. CASE Begin /\ Observed
  BY <1>1, <1>2, <1>3, <1>5 DEF Begin, AddAll
<1>6. CASE Proceed /\ Observed
  BY <1>1, <1>2, <1>3, <1>6 DEF Proceed
<1>7. CASE CallFails /\ Observed
  BY <1>1, <1>7 DEF CallFails
<1> QED BY <1>3, <1>4, <1>5, <1>6, <1>7 DEF Next, vars

LEMMA ContractHolds == Spec => []ContractInv
<1>1. Init => ContractInv
  BY DEF Init, LSInit, ContractInv, StorageInv, CallsAreWhole, TmpIsWritten, ListingInv, NoWalk
<1>2. ContractInv /\ [Next]_vars => ContractInv'
  BY ContractStep
<1> QED BY <1>1, <1>2, PTL DEF Spec

\* The disk keeps the promise of the trait: every step of a call, of a listing or of
\* a crash is one of KeyStore's, which knows no temporary files, renames and syncs,
\* or is invisible to it, for any keys, values, callers, sizes of page and faults
\* (local.rs against mod.rs and memory.rs of storage).
THEOREM DiskKeepsContract == Spec => ImplementsKeyStore
<1>1. Init => Contract!KSInit
  <2> SUFFICES ASSUME Init
               PROVE  Contract!KSInit
    OBVIOUS
  <2>1. disk = <<>> /\ calls = [c \in Caller |-> Idle] /\ walk = NoWalk /\ steady = {}
    BY DEF Init, LSInit
  <2>2. Resolved = <<>>
    BY <2>1 DEF Resolved
  <2>3. CallsSeen = [c \in Caller |-> Contract!Idle]
    BY <2>1 DEF CallsSeen, Idle, Contract!Idle
  <2>4. ListingSeen = Contract!NotListing
    BY <2>1 DEF ListingSeen, NoWalk, Contract!NotListing
  <2> QED BY <2>2, <2>3, <2>4 DEF Contract!KSInit
<1>2. ContractInv /\ [Next]_vars => [Contract!KSNext]_<<Resolved, CallsSeen, ListingSeen>>
  BY ContractStep
<1> QED BY <1>1, <1>2, ContractHolds, PTL DEF Spec, ImplementsKeyStore, Contract!KSSpec

-----------------------------------------------------------------------------
(* Ticks.                                                                  *)

\* An attempt has what it has staged, and then the tree it has written: keys alone.
AttemptIsWhole(t) ==
    \/ t = NoCommit
    \/ /\ t.at \in {"added", "locked", "transient"}
       /\ t = [at |-> t.at, idx |-> t.idx] /\ DOMAIN t.idx \subseteq Key
    \/ /\ t.at \in {"staged", "ok", "modified"}
       /\ t = [at |-> t.at, tree |-> t.tree, parent |-> t.parent]

\* What an attempt has staged so far, if no file has changed meanwhile.
SawAll(a) ==
    /\ On(a, "added") => Key \cap DOMAIN disk \subseteq DOMAIN commits[a].idx
    /\ On(a, "locked") => commits[a].idx = Resolved
    /\ On(a, "staged") \/ On(a, "ok") => commits[a].tree = Resolved

CommitInv ==
    /\ DOMAIN index \subseteq Key
    /\ commits = [a \in Commit |-> commits[a]]
    /\ \A a \in Commit : AttemptIsWhole(commits[a])
    /\ quiet \subseteq Commit /\ \A a \in quiet : SawAll(a)

\* One attempt goes on, and no file changes.
LEMMA AttemptStep ==
    ASSUME CommitInv, NEW a \in Commit, AddAll(a) \/ CommitStep(a), UNCHANGED disk
    PROVE  /\ DOMAIN index' \subseteq Key
           /\ commits' = [b \in Commit |-> commits'[b]]
           /\ \A b \in Commit \ {a} : commits'[b] = commits[b]
           /\ AttemptIsWhole(commits'[a])
           /\ a \in quiet \/ commits[a] = NoCommit => SawAll(a)'
<1> DEFINE t == commits[a]
<1>1. /\ DOMAIN index \subseteq Key /\ commits = [b \in Commit |-> commits[b]]
      /\ AttemptIsWhole(t) /\ (a \in quiet => SawAll(a)) /\ Resolved' = Resolved
  BY DEF CommitInv, Resolved
<1>2. CASE AddAll(a)
  <2> DEFINE found == {p \in DOMAIN disk : Staged(p)}
             idx == [p \in found \cup DOMAIN index |-> IF p \in found THEN disk[p] ELSE index[p]]
  <2>1. commits' = [commits EXCEPT ![a] = [at |-> "added", idx |-> idx]] /\ UNCHANGED index
    BY <1>2 DEF AddAll
  <2>2. found = Key \cap DOMAIN disk /\ DOMAIN idx = found \cup DOMAIN index
    BY DEF Staged, IsTempfile
  <2> HIDE DEF idx, found
  <2>3. /\ commits'[a] = [at |-> "added", idx |-> idx]
        /\ commits' = [b \in Commit |-> commits'[b]]
        /\ \A b \in Commit \ {a} : commits'[b] = commits[b]
    BY <1>1, <2>1
  <2>4. commits'[a].at = "added" /\ commits'[a].idx = idx
    BY <2>3
  <2>5. AttemptIsWhole(commits'[a])
    BY <1>1, <2>2, <2>3, <2>4 DEF AttemptIsWhole
  <2>6. SawAll(a)'
    BY <2>2, <2>4, UNCHANGED disk DEF SawAll, On
  <2> QED BY <1>1, <2>1, <2>3, <2>5, <2>6
<1>3. CASE CommitStep(a)
  <2>1. CASE UpdateAll(a)
    <3> DEFINE kept == DOMAIN t.idx \cap DOMAIN disk
               idx == [p \in kept |-> disk[p]]
    <3>1. t.at = "added" /\ t # NoCommit /\ UNCHANGED index /\ DOMAIN t.idx \subseteq Key
          /\ t = [at |-> t.at, idx |-> t.idx]
      BY <1>1, <2>1 DEF UpdateAll, On, NoCommit, AttemptIsWhole
    <3>2. CASE locked
      <4>1. commits' = [commits EXCEPT ![a].at = "transient"]
        BY <2>1, <3>2 DEF UpdateAll, Move
      <4>2. /\ commits'[a] = [t EXCEPT !.at = "transient"]
            /\ commits' = [b \in Commit |-> commits'[b]]
            /\ \A b \in Commit \ {a} : commits'[b] = commits[b]
        BY <1>1, <4>1
      <4>3. /\ commits'[a] = [at |-> "transient", idx |-> t.idx]
            /\ commits'[a].at = "transient" /\ commits'[a].idx = t.idx
        BY <3>1, <4>2
      <4> QED BY <1>1, <3>1, <4>2, <4>3 DEF AttemptIsWhole, SawAll, On
    <3>3. CASE ~locked
      <4>1. commits' = [commits EXCEPT ![a] = [at |-> "locked", idx |-> idx]]
        BY <2>1, <3>3 DEF UpdateAll
      <4>2. DOMAIN idx \subseteq Key
        BY <3>1
      <4>3. a \in quiet => idx = Resolved
        BY <1>1, <3>1 DEF SawAll, On, Resolved
      <4> HIDE DEF idx
      <4>4. /\ commits'[a] = [at |-> "locked", idx |-> idx]
            /\ commits'[a].at = "locked" /\ commits'[a].idx = idx
            /\ commits' = [b \in Commit |-> commits'[b]]
            /\ \A b \in Commit \ {a} : commits'[b] = commits[b]
        BY <1>1, <4>1
      <4>5. AttemptIsWhole(commits'[a])
        BY <4>2, <4>4 DEF AttemptIsWhole
      <4>6. a \in quiet => SawAll(a)'
        BY <1>1, <4>3, <4>4 DEF SawAll, On
      <4> QED BY <1>1, <3>1, <4>4, <4>5, <4>6
    <3> QED BY <3>2, <3>3
  <2>2. CASE WriteIndex(a)
    <3>1. t.at = "locked" /\ t # NoCommit /\ DOMAIN t.idx \subseteq Key
      BY <1>1, <2>2 DEF WriteIndex, On, NoCommit, AttemptIsWhole
    <3>2. index' = t.idx
          /\ commits' = [commits EXCEPT
                            ![a] = [at |-> "staged", tree |-> t.idx, parent |-> Len(head)]]
      BY <2>2 DEF WriteIndex
    <3>3. /\ commits'[a] = [at |-> "staged", tree |-> t.idx, parent |-> Len(head)]
          /\ commits' = [b \in Commit |-> commits'[b]]
          /\ \A b \in Commit \ {a} : commits'[b] = commits[b]
      BY <1>1, <3>2
    <3>4. commits'[a].at = "staged" /\ commits'[a].tree = t.idx /\ commits'[a].parent = Len(head)
      BY <3>3
    <3>5. AttemptIsWhole(commits'[a])
      BY <3>3, <3>4 DEF AttemptIsWhole
    <3>6. a \in quiet => SawAll(a)'
      BY <1>1, <3>1, <3>4 DEF SawAll, On
    <3> QED BY <3>1, <3>2, <3>3, <3>5, <3>6
  <2>3. CASE NoOp(a) \/ CommitHead(a)
    <3>1. PICK step \in {"ok", "modified"} :
              t.at = "staged" /\ Move(a, step) /\ UNCHANGED index
      BY <2>3 DEF NoOp, CommitHead, On
    <3>2. t # NoCommit /\ t = [at |-> t.at, tree |-> t.tree, parent |-> t.parent]
      BY <1>1, <3>1 DEF NoCommit, AttemptIsWhole
    <3>3. /\ commits'[a] = [t EXCEPT !.at = step]
          /\ commits' = [b \in Commit |-> commits'[b]]
          /\ \A b \in Commit \ {a} : commits'[b] = commits[b]
      BY <1>1, <3>1 DEF Move
    <3>4. /\ commits'[a] = [at |-> step, tree |-> t.tree, parent |-> t.parent]
          /\ commits'[a].at = step /\ commits'[a].tree = t.tree /\ commits'[a].parent = t.parent
      BY <3>2, <3>3
    <3>5. AttemptIsWhole(commits'[a])
      BY <3>4 DEF AttemptIsWhole
    <3>6. a \in quiet => SawAll(a)'
      BY <1>1, <3>1, <3>4 DEF SawAll, On
    <3> QED BY <1>1, <3>1, <3>2, <3>3, <3>5, <3>6
  <2>4. CASE Report(a)
    <3>1. /\ t # NoCommit /\ UNCHANGED index
          /\ commits' = [commits EXCEPT ![a] = NoCommit]
      BY <2>4 DEF Report, Answered, NoCommit
    <3>2. /\ commits'[a] = NoCommit /\ commits'[a].at = "none"
          /\ commits' = [b \in Commit |-> commits'[b]]
          /\ \A b \in Commit \ {a} : commits'[b] = commits[b]
      BY <1>1, <3>1 DEF NoCommit
    <3> QED BY <1>1, <3>1, <3>2 DEF AttemptIsWhole, SawAll, On
  <2> QED BY <1>3, <2>1, <2>2, <2>3, <2>4 DEF CommitStep
<1> QED BY <1>2, <1>3

LEMMA TickStep ==
    ASSUME CommitInv, [Next]_vars
    PROVE  CommitInv'
<1>1. CASE UNCHANGED vars
  BY <1>1 DEF vars, git, CommitInv, SawAll, On, Resolved
<1>2. ASSUME UNCHANGED git, Observed
      PROVE  CommitInv'
  <2>1. CASE disk' # disk
    BY <1>2, <2>1 DEF git, CommitInv, Observed
  <2>2. CASE disk' = disk
    <3>1. quiet' \subseteq quiet /\ Resolved' = Resolved
      BY <1>2, <2>2 DEF git, Observed, Resolved
    <3> QED BY <1>2, <2>2, <3>1 DEF git, CommitInv, SawAll, On
  <2> QED BY <2>1, <2>2
<1>3. ASSUME NEW a \in Commit, AddAll(a) \/ CommitStep(a), UNCHANGED disk, Observed
      PROVE  CommitInv'
  <2>1. /\ DOMAIN index' \subseteq Key
        /\ commits' = [b \in Commit |-> commits'[b]]
        /\ \A b \in Commit \ {a} : commits'[b] = commits[b]
        /\ AttemptIsWhole(commits'[a])
        /\ a \in quiet \/ commits[a] = NoCommit => SawAll(a)'
    BY <1>3, AttemptStep
  <2>2. /\ quiet' = {b \in Commit : commits'[b] # NoCommit /\ (b \in quiet \/ commits[b] = NoCommit)}
        /\ Resolved' = Resolved
    BY <1>3 DEF Observed, Resolved
  <2>3. ASSUME NEW b \in quiet' \ {a}
        PROVE  SawAll(b)'
    <3>1. b \in quiet /\ commits'[b] = commits[b]
      BY <2>1, <2>2
    <3> QED BY <1>3, <2>2, <3>1 DEF CommitInv, SawAll, On
  <2>4. \A b \in Commit : AttemptIsWhole(commits'[b])
    BY <2>1 DEF CommitInv
  <2> QED BY <2>1, <2>2, <2>3, <2>4 DEF CommitInv
<1>4. CASE WorkerDies /\ Observed
  <2>1. /\ commits' = [a \in Commit |-> NoCommit] /\ UNCHANGED index
        /\ \A b \in Commit : commits'[b] = NoCommit
    BY <1>4 DEF WorkerDies
  <2>2. quiet' = {}
    BY <1>4, <2>1 DEF Observed
  <2> QED BY <2>1, <2>2 DEF CommitInv, AttemptIsWhole
<1>5. CASE Begin /\ Observed
  BY <1>2, <1>3, <1>5 DEF Begin
<1>6. CASE Proceed /\ Observed
  BY <1>2, <1>3, <1>6 DEF Proceed
<1>7. CASE CallFails /\ Observed
  BY <1>2, <1>7 DEF CallFails
<1> QED BY <1>1, <1>4, <1>5, <1>6, <1>7 DEF Next

\* A tick during which no file changed is what the keys resolved to: every one of
\* them, nothing deleted, and no temporary file, whatever other attempts at a commit
\* have staged, and whatever deaths have left in the index (git.rs commit_blocking).
THEOREM TicksAreSnapshots == Spec => []TickIsSnapshot
<1>1. Init => CommitInv
  BY DEF Init, CommitInv, AttemptIsWhole
<1>2. CommitInv /\ [Next]_vars => CommitInv'
  BY TickStep
<1>3. CommitInv => TickIsSnapshot
  BY DEF CommitInv, SawAll, TickIsSnapshot
<1> QED BY <1>1, <1>2, <1>3, PTL DEF Spec

-----------------------------------------------------------------------------
(* The structural database.                                                *)

\* The statements there are, whatever the agents.
Statement ==
    [op : {"create_graph"}, name : Name]
    \cup [op : {"add_agent", "drop_graph"}, graph : {Root}]
    \cup [op : {"add_edge"}, parent : {Parent}, child : Nat]
    \cup [op : {"register_tool"}, graph : {Root}, def_id : {"search", "mail"}]
    \cup [op : {"set_file_version"}, file : File, sha : Sha]
    \cup [op : {"add_citation"}, citing : {Parent}, version : Sha, cited : File, sha : Sha]

Pending == [at : {"none"}] \cup [at : {"sent", "ok"}, stmt : Statement, id : Nat, now : Nat]

TypeOK ==
    /\ statements \in [Client -> Pending]
    /\ clock \in Nat
    /\ \A a \in agents : a.id \in Nat

\* An id is minted once: those in the tables are older than the clock, and those
\* about to be written are nobody else's.
IdsAreFresh ==
    /\ \A a \in agents : a.id < clock
    /\ \A c \in Client : statements[c].at = "sent" =>
          /\ statements[c].id < clock
          /\ \A a \in agents : a.id # statements[c].id
          /\ \A d \in Client \ {c} : statements[d].at = "sent" => statements[d].id # statements[c].id

AgentIdsUnique == \A a, b \in agents : a.id = b.id => a = b

DbInv == TypeOK /\ IdsAreFresh /\ AgentIdsUnique /\ SchemaHolds

\* The initial state: what one apply, and one output of the parent's, left.
LEMMA DbInitInv == DbInit => DbInv
<1> SUFFICES ASSUME DbInit PROVE DbInv
  OBVIOUS
<1>1. TypeOK /\ IdsAreFresh /\ AgentIdsUnique
  BY DEF DbInit, TypeOK, Pending, Waiting, IdsAreFresh, AgentIdsUnique, Parent, Child, Root
<1>2. GraphIds = {Root} /\ AgentIds = {Parent, Child}
  <2>1. graphs = {[id |-> Root, name |-> "root", created_at |-> 0]}
    BY DEF DbInit
  <2>2. agents = {[id |-> a, graph_id |-> Root, created_at |-> 0] : a \in {Parent, Child}}
    BY DEF DbInit
  <2>3. GraphIds = {Root}
    BY <2>1 DEF GraphIds
  <2>4. \A a \in agents : a.id \in {Parent, Child}
    BY <2>2
  <2>5. ASSUME NEW i \in {Parent, Child} PROVE i \in AgentIds
    <3>1. [id |-> i, graph_id |-> Root, created_at |-> 0] \in agents
      BY <2>2
    <3> QED BY <3>1 DEF AgentIds
  <2> QED BY <2>3, <2>4, <2>5 DEF AgentIds
<1>3. /\ \A a \in agents : a.graph_id \in GraphIds
      /\ \A e \in edges : {e.parent, e.child} \subseteq AgentIds
      /\ \A t \in tools : t.graph_id \in GraphIds
      /\ \A f \in files : f.file.agent \in AgentIds
      /\ \A c \in citations : {c.ends.citing, c.ends.cited.agent} \subseteq AgentIds
  BY <1>2 DEF DbInit, File
<1>4. \A c, d \in citations : c.ends = d.ends => c = d
  <2>1. \A c \in citations : c = [id |-> 0, created_at |-> 1, ends |-> c.ends]
    BY DEF DbInit
  <2> QED BY <2>1
<1>5. /\ \A e, f \in edges : e.parent = f.parent /\ e.child = f.child => e = f
      /\ \A f, g \in files : f.file = g.file => f = g
      /\ \A g, h \in graphs : g.name = h.name => g = h
  BY DEF DbInit
<1>6. SchemaHolds
  BY <1>3, <1>4, <1>5 DEF SchemaHolds
<1> QED BY <1>1, <1>6 DEF DbInv

\* A statement that is sent is one of the store's.
LEMMA SentStatement == ASSUME TypeOK PROVE Statements \subseteq Statement
BY DEF TypeOK, Statements, Statement, AgentIds

-----------------------------------------------------------------------------
(* Statements keep the schema.                                             *)

\* A statement that its keys admit keeps every row hung from a graph and every key
\* unique; drop_graph takes along all that hung from it.
LEMMA ApplyKeepsSchema ==
    ASSUME SchemaHolds, AgentIdsUnique, NEW s \in Statement, NEW id \in Nat, NEW when \in Nat,
           \A a \in agents : a.id # id,
           ForeignKeys(s), UniqueKeys(s), Apply(s, id, when)
    PROVE  SchemaHolds' /\ AgentIdsUnique'
<1>1. CASE s.op = "create_graph"
  BY <1>1
  DEF Apply, CreateGraph, UniqueKeys, SchemaHolds, AgentIdsUnique, GraphIds, AgentIds
<1>2. CASE s.op = "add_agent"
  BY <1>2
  DEF Apply, AddAgent, ForeignKeys, SchemaHolds, AgentIdsUnique, GraphIds, AgentIds
<1>3. CASE s.op = "add_edge"
  BY <1>3
  DEF Apply, AddEdge, ForeignKeys, UniqueKeys, SchemaHolds, AgentIdsUnique, GraphIds,
      AgentIds
<1>4. CASE s.op = "register_tool"
  BY <1>4
  DEF Apply, RegisterTool, ForeignKeys, SchemaHolds, AgentIdsUnique, GraphIds, AgentIds
<1>5. CASE s.op = "set_file_version"
  BY <1>5
  DEF Apply, SetFileVersion, ForeignKeys, SchemaHolds, AgentIdsUnique, GraphIds, AgentIds
<1>6. CASE s.op = "add_citation"
  BY <1>6
  DEF Apply, AddCitation, CitationKept, Ends, ForeignKeys, SchemaHolds, AgentIdsUnique,
      GraphIds, AgentIds
<1>7. CASE s.op = "drop_graph"
  <2> DEFINE left == {a.id : a \in {b \in agents : b.graph_id # s.graph}}
  <2>1. /\ graphs' = {g \in graphs : g.id # s.graph}
        /\ agents' = {a \in agents : a.id \in left}
        /\ edges' = {e \in edges : {e.parent, e.child} \subseteq left}
        /\ tools' = {t \in tools : t.graph_id # s.graph}
        /\ files' = {f \in files : f.file.agent \in left}
        /\ citations' = {c \in citations : {c.ends.citing, c.ends.cited.agent} \subseteq left}
    BY <1>7 DEF Apply, DropGraph, CascadeCitations
  <2>2. \A a \in agents' : a \in agents /\ a.graph_id # s.graph
    BY <2>1 DEF AgentIdsUnique
  <2>3. left \subseteq AgentIds'
    BY <2>1 DEF AgentIds
  <2> HIDE DEF left
  <2>4. \A a \in agents' : a.graph_id \in GraphIds'
    BY <2>1, <2>2 DEF SchemaHolds, GraphIds
  <2>5. \A t \in tools' : t.graph_id \in GraphIds'
    BY <2>1 DEF SchemaHolds, GraphIds
  <2>6. /\ \A e \in edges' : {e.parent, e.child} \subseteq AgentIds'
        /\ \A f \in files' : f.file.agent \in AgentIds'
        /\ \A c \in citations' : {c.ends.citing, c.ends.cited.agent} \subseteq AgentIds'
    BY <2>1, <2>3
  <2>7. /\ \A c, d \in citations' : c.ends = d.ends => c = d
        /\ \A e, f \in edges' : e.parent = f.parent /\ e.child = f.child => e = f
        /\ \A f, g \in files' : f.file = g.file => f = g
        /\ \A g, h \in graphs' : g.name = h.name => g = h
    BY <2>1 DEF SchemaHolds
  <2>8. AgentIdsUnique'
    BY <2>1 DEF AgentIdsUnique
  <2> QED BY <2>4, <2>5, <2>6, <2>7, <2>8 DEF SchemaHolds
<1> QED BY <1>1, <1>2, <1>3, <1>4, <1>5, <1>6, <1>7 DEF Statement

\* What a statement adds to the agents has the id it was sent with.
LEMMA ApplyAddsAgent ==
    ASSUME NEW s \in Statement, NEW id \in Nat, NEW when \in Nat, Apply(s, id, when)
    PROVE  \A a \in agents' : a \in agents \/ a.id = id
<1>1. CASE s.op = "add_agent"
  BY <1>1 DEF Apply, AddAgent
<1>2. CASE s.op = "drop_graph"
  BY <1>2 DEF Apply, DropGraph
<1>3. CASE s.op \notin {"add_agent", "drop_graph"}
  BY <1>3
  DEF Apply, CreateGraph, AddEdge, RegisterTool, SetFileVersion, AddCitation, Statement
<1> QED BY <1>1, <1>2, <1>3

\* What its ends keep in the graph stays cited.
Kept ==
    /\ \A a \in AgentIds', v \in Sha :
          {c \in CitationsFrom(a, v) : c.ends.cited.agent \in AgentIds'} \subseteq CitationsFrom(a, v)'
    /\ \A f \in File : f.agent \in AgentIds' =>
          {c \in CitationsTo(f) : c.ends.citing \in AgentIds'} \subseteq CitationsTo(f)'

LEMMA CitationsGrow == ASSUME citations \subseteq citations' PROVE Kept
BY DEF Kept, CitationsFrom, CitationsTo

LEMMA ApplyKeepsCitations ==
    ASSUME NEW s \in Statement, NEW id \in Nat, NEW when \in Nat, Apply(s, id, when)
    PROVE  Kept
<1>1. CASE s.op = "drop_graph"
  <2> DEFINE left == {a.id : a \in {b \in agents : b.graph_id # s.graph}}
  <2>1. agents' = {a \in agents : a.id \in left} /\ citations' = CascadeCitations(left)
    BY <1>1 DEF Apply, DropGraph
  <2>2. AgentIds' \subseteq left
    BY <2>1 DEF AgentIds
  <2>3. \A c \in citations :
           c.ends.citing \in AgentIds' /\ c.ends.cited.agent \in AgentIds' => c \in citations'
    BY <2>1, <2>2 DEF CascadeCitations
  <2> QED BY <2>3 DEF Kept, CitationsFrom, CitationsTo
<1>2. CASE s.op = "add_citation"
  BY <1>2, CitationsGrow DEF Apply, AddCitation, CitationKept
<1>3. CASE s.op \notin {"add_citation", "drop_graph"}
  BY <1>3, CitationsGrow
  DEF Apply, CreateGraph, AddAgent, AddEdge, RegisterTool, SetFileVersion, Statement
<1> QED BY <1>1, <1>2, <1>3

-----------------------------------------------------------------------------
(* Steps.                                                                  *)

LEMMA DbStep ==
    ASSUME DbInv, [DbNext]_dbvars
    PROVE  DbInv' /\ Kept
<1> USE DEF DbInv
<1>1. ASSUME NEW c \in Client, Send(c) PROVE DbInv' /\ Kept
  <2>1. PICK s \in Statements :
           statements' = [statements EXCEPT
                             ![c] = [at |-> "sent", stmt |-> s, id |-> clock, now |-> clock]]
    BY <1>1 DEF Send
  <2>2. s \in Statement /\ clock' = clock + 1 /\ UNCHANGED tables
    BY <1>1, SentStatement DEF Send
  <2>3. [at |-> "sent", stmt |-> s, id |-> clock, now |-> clock] \in Pending
    BY <2>2 DEF TypeOK, Pending
  <2>4. TypeOK'
    BY <2>1, <2>2, <2>3 DEF TypeOK, tables
  <2>5. IdsAreFresh'
    BY <2>1, <2>2 DEF TypeOK, Pending, IdsAreFresh, tables
  <2>6. SchemaHolds' /\ AgentIdsUnique' /\ Kept
    BY <2>2, CitationsGrow DEF tables, SchemaHolds, AgentIdsUnique, GraphIds, AgentIds
  <2> QED BY <2>4, <2>5, <2>6
<1>2. ASSUME NEW c \in Client, Execute(c) PROVE DbInv' /\ Kept
  <2>1. /\ statements[c] \in [at : {"sent", "ok"}, stmt : Statement, id : Nat, now : Nat]
        /\ statements[c].at = "sent" /\ clock' = clock
    BY <1>2 DEF Execute, TypeOK, Pending
  <2>2. CASE ForeignKeys(statements[c].stmt) /\ UniqueKeys(statements[c].stmt)
    <3>1. /\ Apply(statements[c].stmt, statements[c].id, statements[c].now)
          /\ statements' = [statements EXCEPT ![c].at = "ok"]
      BY <1>2, <2>2 DEF Execute
    <3>2. \A a \in agents' : a \in agents \/ a.id = statements[c].id
      BY <2>1, <3>1, ApplyAddsAgent
    <3>3. SchemaHolds' /\ AgentIdsUnique'
      BY <2>1, <2>2, <3>1, ApplyKeepsSchema DEF IdsAreFresh
    <3>4. /\ statements'[c] \in Pending /\ statements'[c].at = "ok"
          /\ \A d \in Client \ {c} : statements'[d] = statements[d]
      BY <2>1, <3>1 DEF TypeOK, Pending
    <3>5. TypeOK'
      BY <2>1, <3>1, <3>2, <3>4 DEF TypeOK
    <3>6. IdsAreFresh'
      BY <2>1, <3>2, <3>4 DEF TypeOK, IdsAreFresh
    <3>7. Kept
      BY <2>1, <3>1, ApplyKeepsCitations
    <3> QED BY <3>3, <3>5, <3>6, <3>7
  <2>3. CASE ~(ForeignKeys(statements[c].stmt) /\ UniqueKeys(statements[c].stmt))
    <3>1. UNCHANGED tables /\ statements' = [statements EXCEPT ![c] = Waiting]
      BY <1>2, <2>3 DEF Execute
    <3>2. TypeOK' /\ IdsAreFresh'
      BY <2>1, <3>1 DEF TypeOK, Pending, Waiting, IdsAreFresh, tables
    <3>3. SchemaHolds' /\ AgentIdsUnique' /\ Kept
      BY <3>1, CitationsGrow DEF tables, SchemaHolds, AgentIdsUnique, GraphIds, AgentIds
    <3> QED BY <3>2, <3>3
  <2> QED BY <2>2, <2>3
<1>3. ASSUME NEW c \in Client, Answer(c) PROVE DbInv' /\ Kept
  <2>1. TypeOK' /\ IdsAreFresh'
    BY <1>3 DEF Answer, TypeOK, Pending, Waiting, IdsAreFresh, tables
  <2>2. SchemaHolds' /\ AgentIdsUnique' /\ Kept
    BY <1>3, CitationsGrow
    DEF Answer, tables, SchemaHolds, AgentIdsUnique, GraphIds, AgentIds
  <2> QED BY <2>1, <2>2
<1>4. ASSUME NEW c \in Client, Retry(c) PROVE DbInv' /\ Kept
  <2>1. /\ statements[c] \in [at : {"sent", "ok"}, stmt : Statement, id : Nat, now : Nat]
        /\ clock' = clock + 1 /\ UNCHANGED tables
    BY <1>4 DEF Retry, TypeOK, Pending
  <2>2. statements' = [statements EXCEPT ![c].at = "sent", ![c].id = clock, ![c].now = clock]
    BY <1>4 DEF Retry
  <2>3. /\ statements'[c] \in Pending /\ statements'[c].id = clock
        /\ \A d \in Client \ {c} : statements'[d] = statements[d]
    BY <2>1, <2>2 DEF TypeOK, Pending
  <2>4. TypeOK'
    BY <2>1, <2>2, <2>3 DEF TypeOK, tables
  <2>5. IdsAreFresh'
    BY <2>1, <2>3 DEF TypeOK, Pending, IdsAreFresh, tables
  <2>6. SchemaHolds' /\ AgentIdsUnique' /\ Kept
    BY <2>1, CitationsGrow DEF tables, SchemaHolds, AgentIdsUnique, GraphIds, AgentIds
  <2> QED BY <2>4, <2>5, <2>6
<1>5. CASE UNCHANGED dbvars
  BY <1>5, CitationsGrow
  DEF dbvars, tables, TypeOK, IdsAreFresh, SchemaHolds, AgentIdsUnique, GraphIds, AgentIds
<1> QED BY <1>1, <1>2, <1>3, <1>4, <1>5 DEF DbNext

-----------------------------------------------------------------------------
(* The theorems.                                                           *)

LEMMA DbInvariant == DbSpec => []DbInv
<1>1. DbInv /\ [DbNext]_dbvars => DbInv'
  BY DbStep
<1> QED BY <1>1, DbInitInv, PTL DEF DbSpec

\* Whatever is retried and dropped, every row hangs from a graph that is there and
\* no key is used twice, a citation's ends among them.
THEOREM SchemaIsKept == DbSpec => []SchemaHolds
<1>1. DbInv => SchemaHolds
  BY DEF DbInv
<1> QED BY <1>1, DbInvariant, PTL

\* While both agents of a citation are in the graph, no statement, sent once or sent
\* again, loses it or moves its pins.
THEOREM CitationsAreKept == DbSpec => ProvenanceIsKept
<1>1. DbInv /\ [DbNext]_dbvars => Kept
  BY DbStep
<1> QED BY <1>1, DbInvariant, PTL DEF DbSpec, ProvenanceIsKept, Kept

-----------------------------------------------------------------------------
(* Payloads: what they are made of.                                        *)

\* Names that payloads have beside the fields of their types, or that stand for a
\* variant of a default.
Mark == {
    "atom", "items", "members", "null", "variant", "number", "fields", "none", "exactly", "at_least",
    "type", "op", "result", "outcome", "max_ticks", "persistent",
    "recent_outputs", "recent_evidence", "open_claims_max"}

\* What values and payloads are made of: Data has the numbers, the truth values and
\* these names, the sequences of data, and with a record also those with some of its
\* fields and some of these names.  The least set of that kind is a model: the
\* functions of finite domain over names and numbers, built up from them.
DataClosed ==
    /\ Nat \cup BOOLEAN \cup Mark \subseteq Data
    /\ Seq(Data) \subseteq Data
    /\ \A d \in Data : \A x \in DOMAIN d : d[x] \in Data
    /\ \A d \in Data : \A D : D \subseteq DOMAIN d \cup Mark => [D -> Data] \subseteq Data

\* A type whose values are carried: whatever release writes one, it is read, as a
\* value that is kept from then on, and what the current one writes is read as what is
\* kept of it.
Carries(c) ==
    /\ c.values \subseteq Data
    /\ \A v \in c.values : c.kept[v] \in c.values /\ c.kept[c.kept[v]] = c.kept[v]
    /\ \A r \in Release, v \in c.values :
          /\ c.write[r][v] \in Data
          /\ \E w \in c.values : c.kept[w] = w /\ c.read[c.write[r][v]] = <<w>>
    /\ \A v \in c.values : c.read[c.write[Current][v]] = <<c.kept[v]>>

\* A type that has been what it is in every release, and loses nothing.
Exact(c) == \A r \in Release, v \in c.values : c.read[c.write[r][v]] = <<v>>

\* A type whose values are never written as null, so that none is told from them.
Solid(c) == \A r \in Release, v \in c.values : c.write[r][v] # Null

\* A field that can be read: if it may not have been written, something stands for it,
\* and a value that is skipped when it is none is read as none.
FieldCarries(d) ==
    /\ Carries(d.type)
    /\ d.later => d.absent # <<>>
    /\ d.sparse => d.absent = << <<>> >>
    /\ d.absent # <<>> => \E w \in d.type.values : d.type.kept[w] = w /\ d.absent = <<w>>

FieldsCarry(fields) == \A f \in DOMAIN fields : FieldCarries(fields[f])

\* Fields of which none was added later and none loses anything.
FieldsExact(fields) ==
    \A f \in DOMAIN fields : Exact(fields[f].type) /\ ~fields[f].later

LEMMA CurrentIsRelease == Current \in Release
BY DEF Current, Release

\* Records of data with these names are data.
LEMMA MarkedClosed ==
    ASSUME DataClosed, NEW D, D \subseteq Mark
    PROVE  [D -> Data] \subseteq Data
<1>1. 0 \in Data
  BY DEF DataClosed
<1> QED BY <1>1 DEF DataClosed

-----------------------------------------------------------------------------
(* Structs.                                                                *)

\* What is kept of the values of fields is kept.
LEMMA KeptCarries ==
    ASSUME DataClosed, NEW fields, FieldsCarry(fields), NEW v \in Assigned(fields)
    PROVE  /\ KeptOf(fields, v) \in Assigned(fields)
           /\ KeptOf(fields, KeptOf(fields, v)) = KeptOf(fields, v)
<1> DEFINE k == KeptOf(fields, v)
<1>1. v \in Data /\ DOMAIN v = DOMAIN fields
  BY DEF Assigned
<1>2. \A f \in DOMAIN fields :
        k[f] \in fields[f].type.values /\ k[f] \in Data /\ fields[f].type.kept[k[f]] = k[f]
  BY DEF KeptOf, FieldsCarry, FieldCarries, Carries, Assigned
<1>3. k \in [DOMAIN fields -> Data]
  BY <1>2 DEF KeptOf
<1>4. k \in Data
  BY <1>1, <1>3 DEF DataClosed
<1>5. k \in Assigned(fields)
  <2> HIDE DEF k
  <2> QED BY <1>2, <1>3, <1>4 DEF Assigned
<1>6. KeptOf(fields, k) = k
  <2>1. KeptOf(fields, k) = [f \in DOMAIN fields |-> fields[f].type.kept[k[f]]]
    BY DEF KeptOf
  <2>2. k = [f \in DOMAIN fields |-> k[f]]
    BY <1>3
  <2> HIDE DEF k
  <2> QED BY <1>2, <2>1, <2>2
<1> QED BY <1>5, <1>6

\* A field as it is read from what has been written.
ReadOf(r, fields, v, f) ==
    IF f \in Written(r, fields, v) THEN fields[f].type.read[fields[f].type.write[r][v[f]]]
    ELSE fields[f].absent

\* Every field is read, from what was written or from what stands for it.
LEMMA FieldReads ==
    ASSUME NEW fields, FieldsCarry(fields), NEW v \in Assigned(fields), NEW r \in Release,
           NEW f \in DOMAIN fields
    PROVE  /\ \E w \in fields[f].type.values :
                 fields[f].type.kept[w] = w /\ ReadOf(r, fields, v, f) = <<w>>
           /\ r = Current => ReadOf(r, fields, v, f) = <<fields[f].type.kept[v[f]]>>
<1> DEFINE d == fields[f]
<1>1. FieldCarries(d)
  BY DEF FieldsCarry
<1>2. v[f] \in d.type.values
  BY DEF Assigned
<1> HIDE DEF d
<1>3. CASE f \in Written(r, fields, v)
  <2>1. ReadOf(r, fields, v, f) = d.type.read[d.type.write[r][v[f]]]
    BY <1>3 DEF ReadOf, d
  <2>2. Carries(d.type)
    BY <1>1 DEF FieldCarries
  <2>3. /\ \E w \in d.type.values : d.type.kept[w] = w /\ ReadOf(r, fields, v, f) = <<w>>
        /\ r = Current => ReadOf(r, fields, v, f) = <<d.type.kept[v[f]]>>
    <3>0. \E w \in d.type.values : d.type.kept[w] = w /\ d.type.read[d.type.write[r][v[f]]] = <<w>>
      BY <2>2, <1>2 DEF Carries
    <3>1. \E w \in d.type.values : d.type.kept[w] = w /\ ReadOf(r, fields, v, f) = <<w>>
      BY <3>0, <2>1
    <3>2. d.type.read[d.type.write[Current][v[f]]] = <<d.type.kept[v[f]]>>
      BY <2>2, <1>2 DEF Carries
    <3> QED BY <3>1, <3>2, <2>1
  <2> QED BY <2>3 DEF d
<1>4. CASE f \notin Written(r, fields, v)
  <2>1. ReadOf(r, fields, v, f) = d.absent
    BY <1>4 DEF ReadOf, d
  <2>2. (d.sparse /\ v[f] = <<>>) \/ (d.later /\ f \in r)
    BY <1>4 DEF Written, d
  <2>3. d.absent # <<>>
    <3>1. d.sparse => d.absent = << <<>> >>
      BY <1>1 DEF FieldCarries
    <3>2. << <<>> >> # <<>>
      OBVIOUS
    <3>3. d.later => d.absent # <<>>
      BY <1>1 DEF FieldCarries
    <3> QED BY <3>1, <3>2, <3>3, <2>2
  <2>4. PICK w \in d.type.values : d.type.kept[w] = w /\ d.absent = <<w>>
    BY <2>3, <1>1 DEF FieldCarries
  <2>5. ASSUME r = Current PROVE d.absent = <<d.type.kept[v[f]]>>
    <3>1. d.sparse /\ v[f] = <<>>
      BY <2>2, <2>5 DEF Current
    <3>2. d.absent = << <<>> >>
      BY <3>1, <1>1 DEF FieldCarries
    <3>3. w = <<>>
      BY <3>2, <2>4
    <3> QED BY <3>1, <3>2, <3>3, <2>4
  <2> QED BY <2>1, <2>4, <2>5 DEF d
<1> QED BY <1>3, <1>4

\* What MembersRead makes of an object that has the members of v, perhaps others.
Holds(o, r, fields, v) ==
    \A f \in DOMAIN fields :
        /\ f \in DOMAIN o <=> f \in Written(r, fields, v)
        /\ f \in DOMAIN o => o[f] = fields[f].type.write[r][v[f]]

\* An object that holds the members of a value is read, field by field.
LEMMA MembersCarry ==
    ASSUME DataClosed, NEW fields, FieldsCarry(fields), NEW v \in Assigned(fields),
           NEW r \in Release, NEW o, Holds(o, r, fields, v)
    PROVE  \E w \in Assigned(fields) :
              /\ MembersRead(fields, o) = <<w>>
              /\ KeptOf(fields, w) = w
              /\ r = Current => w = KeptOf(fields, v)
              /\ \A f \in DOMAIN fields : <<w[f]>> = ReadOf(r, fields, v, f)
<1> DEFINE w == [f \in DOMAIN fields |-> MemberRead(fields, o, f)[1]]
<1>1. \A f \in DOMAIN fields : MemberRead(fields, o, f) = ReadOf(r, fields, v, f)
  BY DEF Holds, MemberRead, ReadOf
<1>2. \A f \in DOMAIN fields :
         \E x \in fields[f].type.values :
            fields[f].type.kept[x] = x /\ MemberRead(fields, o, f) = <<x>>
  BY <1>1, FieldReads
<1>3. MembersRead(fields, o) = <<w>>
  BY <1>2 DEF MembersRead
<1>4. \A f \in DOMAIN fields :
         /\ w[f] \in fields[f].type.values /\ fields[f].type.kept[w[f]] = w[f]
         /\ <<w[f]>> = MemberRead(fields, o, f)
  BY <1>2
<1>5. \A f \in DOMAIN fields : w[f] \in Data
  BY <1>4 DEF FieldsCarry, FieldCarries, Carries
<1>6. w \in [DOMAIN fields -> Data]
  BY <1>5
<1>7. v \in Data /\ DOMAIN v = DOMAIN fields
  BY DEF Assigned
<1>8. w \in Data
  BY <1>6, <1>7 DEF DataClosed
<1>9. DOMAIN w = DOMAIN fields /\ w = [f \in DOMAIN fields |-> w[f]]
  OBVIOUS
<1> HIDE DEF w
<1>10. w \in Assigned(fields)
  BY <1>4, <1>6, <1>8 DEF Assigned
<1>11. KeptOf(fields, w) = w
  BY <1>4, <1>9 DEF KeptOf
<1>12. ASSUME r = Current PROVE w = KeptOf(fields, v)
  <2>1. \A f \in DOMAIN fields : <<w[f]>> = <<fields[f].type.kept[v[f]]>>
    BY <1>12, <1>1, <1>4, FieldReads
  <2>2. \A f \in DOMAIN fields : w[f] = fields[f].type.kept[v[f]]
    BY <2>1
  <2> QED BY <2>2, <1>9 DEF KeptOf
<1> QED BY <1>1, <1>3, <1>4, <1>10, <1>11, <1>12

\* The members of a value are data.
LEMMA MembersAreData ==
    ASSUME DataClosed, NEW fields, FieldsCarry(fields), NEW v \in Assigned(fields), NEW r \in Release
    PROVE  /\ DOMAIN Members(r, fields, v) = Written(r, fields, v)
           /\ Written(r, fields, v) \subseteq DOMAIN v
           /\ \A f \in Written(r, fields, v) :
                 /\ Members(r, fields, v)[f] = fields[f].type.write[r][v[f]]
                 /\ Members(r, fields, v)[f] \in Data
<1>1. \A f \in DOMAIN fields : Carries(fields[f].type) /\ v[f] \in fields[f].type.values
  BY DEF FieldsCarry, FieldCarries, Assigned
<1>2. \A f \in DOMAIN fields : fields[f].type.write[r][v[f]] \in Data
  BY <1>1 DEF Carries
<1>3. DOMAIN v = DOMAIN fields
  BY DEF Assigned
<1> QED BY <1>2, <1>3 DEF Members, Written

\* A written object is data: it has members of the value, and marks.
LEMMA ObjectIsData ==
    ASSUME DataClosed, NEW v \in Data, NEW m, m = [f \in DOMAIN m |-> m[f]],
           DOMAIN m \subseteq DOMAIN v \cup Mark, \A f \in DOMAIN m : m[f] \in Data
    PROVE  [members |-> m] \in Data
<1>1. m \in [DOMAIN m -> Data]
  OBVIOUS
<1>2. m \in Data
  BY <1>1 DEF DataClosed
<1>3. [members |-> m] \in [{"members"} -> Data]
  BY <1>2
<1>4. {"members"} \subseteq Mark
  BY DEF Mark
<1> QED BY <1>3, <1>4, MarkedClosed

LEMMA NullIsData == ASSUME DataClosed PROVE Null \in Data
<1>1. {"null"} \subseteq Mark
  BY DEF Mark
<1>2. 0 \in Data
  BY DEF DataClosed
<1>3. Null \in [{"null"} -> Data]
  BY <1>2 DEF Null
<1> QED BY <1>1, <1>3, MarkedClosed

\* What is read of a struct is read field by field.
StructReads(fields, c) ==
    \A v \in c.values, r \in Release : \E w \in c.values :
        /\ c.read[c.write[r][v]] = <<w>>
        /\ DOMAIN w = DOMAIN fields
        /\ \A f \in DOMAIN fields : <<w[f]>> = ReadOf(r, fields, v, f)

\* A struct carries its values if its fields carry theirs, whatever members older
\* releases wrote beside them.
LEMMA StructCarries ==
    ASSUME DataClosed, NEW fields, FieldsCarry(fields),
           NEW names, names \subseteq Mark, names \cap DOMAIN fields = {},
           NEW c, c = StructOnceWith(fields, names)
    PROVE  Carries(c) /\ Solid(c) /\ c.missing = <<>> /\ StructReads(fields, c)
<1>1. c.values = Assigned(fields) /\ c.missing = <<>>
  BY DEF StructOnceWith
<1>2. Assigned(fields) \subseteq Data
  BY DEF Assigned
<1>3. \A v \in Data : c.kept[v] = KeptOf(fields, v)
  BY DEF StructOnceWith
<1>4. ASSUME NEW r \in Release, NEW v \in Assigned(fields)
      PROVE  /\ c.write[r][v] \in Data
             /\ c.write[r][v] # Null
             /\ \E w \in Assigned(fields) :
                   /\ c.read[c.write[r][v]] = <<w>>
                   /\ KeptOf(fields, w) = w
                   /\ r = Current => w = KeptOf(fields, v)
                   /\ DOMAIN w = DOMAIN fields
                   /\ \A f \in DOMAIN fields : <<w[f]>> = ReadOf(r, fields, v, f)
  <2> DEFINE m == Members(r, fields, v)
             gone == IF r = Current THEN {} ELSE names
             o == [f \in DOMAIN m \cup gone |-> IF f \in DOMAIN m THEN m[f] ELSE Null]
  <2>1. v \in Data
    BY <1>2
  <2>2. c.write[r][v] = [members |-> o]
    BY <2>1 DEF StructOnceWith
  <2>3. /\ DOMAIN m = Written(r, fields, v)
        /\ DOMAIN m \subseteq DOMAIN v
        /\ \A f \in DOMAIN m : m[f] = fields[f].type.write[r][v[f]] /\ m[f] \in Data
    BY MembersAreData
  <2>4. DOMAIN m \subseteq DOMAIN fields
    BY <2>3 DEF Written
  <2> HIDE DEF m
  <2>5. gone \subseteq Mark /\ gone \cap DOMAIN fields = {}
    OBVIOUS
  <2> HIDE DEF gone
  <2>6. DOMAIN o = DOMAIN m \cup gone /\ o = [f \in DOMAIN o |-> o[f]]
    OBVIOUS
  <2>7. \A f \in DOMAIN o : o[f] \in Data
    BY <2>3, NullIsData
  <2>8. Holds(o, r, fields, v)
    BY <2>3, <2>4, <2>5 DEF Holds
  <2> HIDE DEF o
  <2>9. [members |-> o] \in Data
    BY <2>1, <2>3, <2>5, <2>6, <2>7, ObjectIsData
  <2>10. [members |-> o] # Null
    BY DEF Null
  <2>11. c.read[[members |-> o]] = MembersRead(fields, o)
    BY <2>9 DEF StructOnceWith, IsObject
  <2>12. \A w \in Assigned(fields) : DOMAIN w = DOMAIN fields
    BY DEF Assigned
  <2> QED BY <2>2, <2>8, <2>9, <2>10, <2>11, <2>12, MembersCarry
<1>5. \A v \in Assigned(fields) :
         c.kept[v] \in Assigned(fields) /\ c.kept[c.kept[v]] = c.kept[v]
  BY <1>2, <1>3, KeptCarries
<1>6. \A v \in Assigned(fields) : c.read[c.write[Current][v]] = <<c.kept[v]>>
  BY <1>2, <1>3, <1>4, CurrentIsRelease
<1>7. \A r \in Release, v \in Assigned(fields) :
         \E w \in Assigned(fields) : c.kept[w] = w /\ c.read[c.write[r][v]] = <<w>>
  BY <1>2, <1>3, <1>4
<1>8. Carries(c)
  <2>1. c.values \subseteq Data
    BY <1>1, <1>2
  <2>2. \A v \in c.values : c.kept[v] \in c.values /\ c.kept[c.kept[v]] = c.kept[v]
    BY <1>1, <1>5
  <2>3. \A r \in Release, v \in c.values : c.write[r][v] \in Data
    BY <1>1, <1>4
  <2>4. \A r \in Release, v \in c.values :
           \E w \in c.values : c.kept[w] = w /\ c.read[c.write[r][v]] = <<w>>
    BY <1>1, <1>7
  <2>5. \A v \in c.values : c.read[c.write[Current][v]] = <<c.kept[v]>>
    BY <1>1, <1>6
  <2> QED BY <2>1, <2>2, <2>3, <2>4, <2>5 DEF Carries
<1>9. Solid(c)
  BY <1>1, <1>4 DEF Solid
<1>10. StructReads(fields, c)
  <2>1. SUFFICES ASSUME NEW v \in c.values, NEW r \in Release
                 PROVE  \E w \in c.values :
                           /\ c.read[c.write[r][v]] = <<w>>
                           /\ DOMAIN w = DOMAIN fields
                           /\ \A f \in DOMAIN fields : <<w[f]>> = ReadOf(r, fields, v, f)
    BY DEF StructReads
  <2>2. v \in Assigned(fields)
    BY <1>1
  <2>3. PICK w \in Assigned(fields) :
           /\ c.read[c.write[r][v]] = <<w>>
           /\ DOMAIN w = DOMAIN fields
           /\ \A f \in DOMAIN fields : <<w[f]>> = ReadOf(r, fields, v, f)
    BY <1>4, <2>2
  <2>4. w \in c.values
    BY <1>1
  <2> QED BY <2>3, <2>4
<1> QED BY <1>1, <1>8, <1>9, <1>10

\* Members of exact types that no release has added are read as they were.
LEMMA ReadExactly ==
    ASSUME NEW fields, FieldsCarry(fields), FieldsExact(fields), NEW r \in Release,
           NEW v \in Assigned(fields), NEW w \in Assigned(fields),
           \A f \in DOMAIN fields : <<w[f]>> = ReadOf(r, fields, v, f)
    PROVE  w = v
<1>1. \A f \in DOMAIN fields : ReadOf(r, fields, v, f) = <<v[f]>>
  <2>1. TAKE f \in DOMAIN fields
  <2>2. v[f] \in fields[f].type.values
    BY DEF Assigned
  <2>3. CASE f \in Written(r, fields, v)
    BY <2>2, <2>3 DEF FieldsExact, Exact, ReadOf
  <2>4. CASE f \notin Written(r, fields, v)
    <3>1. ~fields[f].later
      BY DEF FieldsExact
    <3>2. fields[f].sparse /\ v[f] = <<>>
      BY <2>4, <3>1 DEF Written
    <3>3. fields[f].absent = << <<>> >>
      BY <3>2 DEF FieldsCarry, FieldCarries
    <3> QED BY <2>4, <3>2, <3>3 DEF ReadOf
  <2> QED BY <2>3, <2>4
<1>2. v \in [DOMAIN fields -> Data] /\ w \in [DOMAIN fields -> Data]
  BY DEF Assigned
<1>3. \A f \in DOMAIN fields : w[f] = v[f]
  BY <1>1
<1> QED BY <1>2, <1>3

\* A struct of such fields is exact.
LEMMA StructExact ==
    ASSUME NEW fields, FieldsCarry(fields), FieldsExact(fields),
           NEW c, c.values = Assigned(fields), StructReads(fields, c)
    PROVE  Exact(c)
<1>1. SUFFICES ASSUME NEW r \in Release, NEW v \in Assigned(fields)
               PROVE  c.read[c.write[r][v]] = <<v>>
  BY DEF Exact
<1>2. v \in c.values
  OBVIOUS
<1>3. PICK w \in c.values :
         /\ c.read[c.write[r][v]] = <<w>>
         /\ \A f \in DOMAIN fields : <<w[f]>> = ReadOf(r, fields, v, f)
  BY <1>2 DEF StructReads
<1>4. w = v
  BY <1>3, ReadExactly
<1> QED BY <1>3, <1>4

-----------------------------------------------------------------------------
(* Enums with a tag.                                                       *)

VariantsCarry(tag, variants) ==
    \A n \in DOMAIN variants : FieldsCarry(variants[n]) /\ tag \notin DOMAIN variants[n]

\* One-member objects.
LEMMA AtomIsData == ASSUME DataClosed, NEW v \in Data PROVE [atom |-> v] \in Data
<1>1. {"atom"} \subseteq Mark
  BY DEF Mark
<1>2. [atom |-> v] \in [{"atom"} -> Data]
  OBVIOUS
<1> QED BY <1>1, <1>2, MarkedClosed

LEMMA VariantIsData ==
    ASSUME DataClosed, NEW n \in Data, NEW v \in Data
    PROVE  [variant |-> n, fields |-> v] \in Data
<1>1. {"variant", "fields"} \subseteq Mark
  BY DEF Mark
<1>2. [variant |-> n, fields |-> v] \in [{"variant", "fields"} -> Data]
  OBVIOUS
<1> QED BY <1>1, <1>2, MarkedClosed

\* An enum with a tag carries its values if the fields of every variant carry theirs
\* and none is called as the tag.
LEMMA TaggedCarries ==
    ASSUME DataClosed, NEW tag \in Mark, NEW variants, VariantsCarry(tag, variants),
           NEW c, c = Tagged(tag, variants)
    PROVE  /\ Carries(c) /\ Solid(c) /\ c.missing = <<>>
           /\ (\A n \in DOMAIN variants : FieldsExact(variants[n])) => Exact(c)
<1> DEFINE V == c.values
<1>1. V = {v \in Data : /\ v \in [variant : DOMAIN variants, fields : Data]
                        /\ v.fields \in Assigned(variants[v.variant])}
      /\ c.missing = <<>>
  BY DEF Tagged
<1>2. \A v \in Data :
         c.kept[v] = [variant |-> v.variant, fields |-> KeptOf(variants[v.variant], v.fields)]
  BY DEF Tagged
<1>3. \A v \in V :
         /\ v \in Data /\ v.variant \in DOMAIN variants /\ v.fields \in Assigned(variants[v.variant])
         /\ v = [variant |-> v.variant, fields |-> v.fields]
         /\ v.variant \in Data
  <2>1. TAKE v \in V
  <2>2. v \in Data /\ v \in [variant : DOMAIN variants, fields : Data]
        /\ v.fields \in Assigned(variants[v.variant])
    BY <1>1
  <2>3. "variant" \in DOMAIN v
    BY <2>2
  <2>4. v["variant"] \in Data
    BY <2>2, <2>3 DEF DataClosed
  <2> QED BY <2>2, <2>4
<1> HIDE DEF V
<1>4. ASSUME NEW n \in DOMAIN variants, n \in Data, NEW x \in Assigned(variants[n])
      PROVE  [variant |-> n, fields |-> x] \in V
  <2>1. x \in Data
    BY DEF Assigned
  <2> QED BY <1>1, <1>4, <2>1, VariantIsData
<1>5. ASSUME NEW v \in V
      PROVE  c.kept[v] \in V /\ c.kept[c.kept[v]] = c.kept[v]
  <2> DEFINE n == v.variant
             k == KeptOf(variants[n], v.fields)
  <2>1. n \in DOMAIN variants /\ n \in Data /\ v.fields \in Assigned(variants[n])
    BY <1>3
  <2>2. k \in Assigned(variants[n]) /\ KeptOf(variants[n], k) = k
    BY <2>1, KeptCarries DEF VariantsCarry
  <2>3. c.kept[v] = [variant |-> n, fields |-> k]
    BY <1>2, <1>3
  <2> HIDE DEF k, n
  <2>4. [variant |-> n, fields |-> k] \in V
    BY <1>4, <2>1, <2>2
  <2>5. c.kept[[variant |-> n, fields |-> k]] = [variant |-> n, fields |-> k]
    BY <1>2, <1>3, <2>2, <2>4
  <2> QED BY <2>3, <2>4, <2>5
<1>6. ASSUME NEW r \in Release, NEW v \in V
      PROVE  /\ c.write[r][v] \in Data
             /\ c.write[r][v] # Null
             /\ \E x \in Assigned(variants[v.variant]) :
                   /\ c.read[c.write[r][v]] = <<[variant |-> v.variant, fields |-> x]>>
                   /\ KeptOf(variants[v.variant], x) = x
                   /\ r = Current => x = KeptOf(variants[v.variant], v.fields)
                   /\ \A f \in DOMAIN variants[v.variant] :
                         <<x[f]>> = ReadOf(r, variants[v.variant], v.fields, f)
  <2> DEFINE n == v.variant
             a == v.fields
             fields == variants[n]
             m == Members(r, fields, a)
             o == [f \in DOMAIN m \cup {tag} |-> IF f = tag THEN [atom |-> n] ELSE m[f]]
  <2>1. v \in Data /\ n \in DOMAIN variants /\ n \in Data /\ a \in Assigned(fields)
    BY <1>3
  <2>2. c.write[r][v] = [members |-> o]
    BY <2>1 DEF Tagged
  <2>3. FieldsCarry(fields) /\ tag \notin DOMAIN fields
    BY <2>1 DEF VariantsCarry
  <2> HIDE DEF n, a
  <2>4. /\ DOMAIN m = Written(r, fields, a)
        /\ DOMAIN m \subseteq DOMAIN a
        /\ \A f \in DOMAIN m : m[f] = fields[f].type.write[r][a[f]] /\ m[f] \in Data
    BY <2>1, <2>3, MembersAreData
  <2>5. DOMAIN m \subseteq DOMAIN fields
    BY <2>4 DEF Written
  <2> HIDE DEF m, fields
  <2>6. DOMAIN o = DOMAIN m \cup {tag} /\ o = [f \in DOMAIN o |-> o[f]] /\ o[tag] = [atom |-> n]
    OBVIOUS
  <2>7. \A f \in DOMAIN o : o[f] \in Data
    BY <2>1, <2>4, AtomIsData
  <2>8. Holds(o, r, fields, a)
    BY <2>3, <2>4, <2>5 DEF Holds
  <2> HIDE DEF o
  <2>9. [members |-> o] \in Data
    <3>1. a \in Data
      BY <2>1 DEF Assigned
    <3> QED BY <3>1, <2>4, <2>6, <2>7, ObjectIsData
  <2>10. [members |-> o] # Null
    BY DEF Null
  <2>11. PICK x \in Assigned(fields) :
           /\ MembersRead(fields, o) = <<x>>
           /\ KeptOf(fields, x) = x
           /\ r = Current => x = KeptOf(fields, a)
           /\ \A f \in DOMAIN fields : <<x[f]>> = ReadOf(r, fields, a, f)
    BY <2>1, <2>3, <2>8, MembersCarry
  <2>12. c.read[[members |-> o]] = <<[variant |-> n, fields |-> x]>>
    <3>1. c.read[[members |-> o]] =
             IF tag \in DOMAIN o /\ o[tag].atom \in DOMAIN variants
             THEN IF MembersRead(variants[o[tag].atom], o) = <<>> THEN <<>>
                  ELSE <<[variant |-> o[tag].atom,
                          fields |-> MembersRead(variants[o[tag].atom], o)[1]]>>
             ELSE <<>>
      BY <2>9 DEF Tagged, IsObject
    <3>2. o[tag].atom = n /\ tag \in DOMAIN o
      BY <2>6
    <3>3. MembersRead(variants[n], o) = <<x>>
      BY <2>11 DEF fields
    <3> QED BY <3>1, <3>2, <3>3, <2>1
  <2>13. \A f \in DOMAIN fields : <<x[f]>> = ReadOf(r, fields, a, f)
    BY <2>11
  <2> QED BY <2>2, <2>9, <2>10, <2>11, <2>12, <2>13 DEF fields, n, a
<1>7. Carries(c)
  <2>1. V \subseteq Data
    BY <1>3
  <2>2. \A r \in Release, v \in V : c.write[r][v] \in Data
    BY <1>6
  <2>3. ASSUME NEW r \in Release, NEW v \in V
        PROVE  \E w \in V : c.kept[w] = w /\ c.read[c.write[r][v]] = <<w>>
    <3> DEFINE n == v.variant
    <3>1. n \in DOMAIN variants /\ n \in Data
      BY <1>3
    <3>2. PICK x \in Assigned(variants[n]) :
             c.read[c.write[r][v]] = <<[variant |-> n, fields |-> x]>> /\ KeptOf(variants[n], x) = x
      BY <1>6
    <3> HIDE DEF n
    <3>3. [variant |-> n, fields |-> x] \in V
      BY <3>1, <1>4
    <3>4. c.kept[[variant |-> n, fields |-> x]] = [variant |-> n, fields |-> x]
      BY <1>2, <1>3, <3>2, <3>3
    <3> QED BY <3>2, <3>3, <3>4
  <2>4. ASSUME NEW v \in V PROVE c.read[c.write[Current][v]] = <<c.kept[v]>>
    <3>1. PICK x \in Assigned(variants[v.variant]) :
             /\ c.read[c.write[Current][v]] = <<[variant |-> v.variant, fields |-> x]>>
             /\ x = KeptOf(variants[v.variant], v.fields)
      BY <1>6, CurrentIsRelease
    <3>2. c.kept[v] = [variant |-> v.variant, fields |-> x]
      BY <1>2, <1>3, <3>1
    <3> QED BY <3>1, <3>2
  <2> QED BY <1>5, <2>1, <2>2, <2>3, <2>4 DEF Carries, V
<1>8. Solid(c)
  BY <1>6 DEF Solid, V
<1>9. ASSUME \A n \in DOMAIN variants : FieldsExact(variants[n]) PROVE Exact(c)
  <2>1. SUFFICES ASSUME NEW r \in Release, NEW v \in V PROVE c.read[c.write[r][v]] = <<v>>
    BY DEF Exact, V
  <2> DEFINE n == v.variant
             a == v.fields
  <2>2. n \in DOMAIN variants /\ a \in Assigned(variants[n]) /\ v = [variant |-> n, fields |-> a]
    BY <1>3
  <2>3. PICK x \in Assigned(variants[n]) :
           /\ c.read[c.write[r][v]] = <<[variant |-> n, fields |-> x]>>
           /\ \A f \in DOMAIN variants[n] : <<x[f]>> = ReadOf(r, variants[n], a, f)
    BY <1>6
  <2> HIDE DEF n, a
  <2>4. FieldsCarry(variants[n]) /\ FieldsExact(variants[n])
    BY <1>9, <2>2 DEF VariantsCarry
  <2>5. x = a
    BY <2>2, <2>3, <2>4, ReadExactly
  <2> QED BY <2>2, <2>3, <2>5
<1> QED BY <1>1, <1>7, <1>8, <1>9

-----------------------------------------------------------------------------
(* Atoms, Options, lists and the other enums.                              *)

\* A type that is read as it is written.
ReadAsWritten(c) ==
    \A r \in Release, v \in c.values :
        c.kept[v] = v /\ c.write[r][v] \in Data /\ c.read[c.write[r][v]] = <<v>>

LEMMA CarriesExactly ==
    ASSUME NEW c, c.values \subseteq Data, ReadAsWritten(c)
    PROVE  Carries(c) /\ Exact(c)
<1> USE DEF ReadAsWritten
<1>1. \A v \in c.values : c.kept[v] = v /\ c.read[c.write[Current][v]] = <<v>>
  BY CurrentIsRelease
<1>2. \A r \in Release, v \in c.values :
         \E w \in c.values : c.kept[w] = w /\ c.read[c.write[r][v]] = <<w>>
  OBVIOUS
<1> QED BY <1>1, <1>2 DEF Carries, Exact

LEMMA AtomCarries ==
    ASSUME DataClosed, NEW S, NEW some, NEW c, c = Atom(S, some)
    PROVE  Carries(c) /\ Solid(c) /\ Exact(c) /\ c.missing = <<>>
<1>1. c.values \subseteq Data /\ c.missing = <<>>
  BY DEF Atom
<1>2. ASSUME NEW v \in c.values
      PROVE  c.kept[v] = v /\ \A r \in Release : c.write[r][v] = [atom |-> v]
  BY <1>1, <1>2 DEF Atom
<1>3. ASSUME NEW v \in c.values
      PROVE  [atom |-> v] \in Data /\ c.read[[atom |-> v]] = <<v>> /\ [atom |-> v] # Null
  <2>1. [atom |-> v] \in Data
    BY <1>1, <1>3, AtomIsData
  <2>2. c.read[[atom |-> v]] = <<v>>
    BY <2>1 DEF Atom, IsAtom
  <2>3. [atom |-> v] # Null
    BY DEF Null
  <2> QED BY <2>1, <2>2, <2>3
<1>4. ASSUME NEW r \in Release, NEW v \in c.values
      PROVE  c.kept[v] = v /\ c.write[r][v] \in Data /\ c.read[c.write[r][v]] = <<v>>
  <2>1. c.kept[v] = v /\ c.write[r][v] = [atom |-> v]
    BY <1>2
  <2>2. [atom |-> v] \in Data /\ c.read[[atom |-> v]] = <<v>>
    BY <1>3
  <2> QED BY <2>1, <2>2
<1>5. Carries(c) /\ Exact(c)
  <2>1. ReadAsWritten(c)
    BY <1>4 DEF ReadAsWritten
  <2> QED BY <1>1, <2>1, CarriesExactly
<1>6. ASSUME NEW r \in Release, NEW v \in c.values PROVE c.write[r][v] # Null
  <2>1. c.write[r][v] = [atom |-> v]
    BY <1>2
  <2>2. [atom |-> v] # Null
    BY <1>3
  <2> QED BY <2>1, <2>2
<1>7. Solid(c)
  BY <1>6 DEF Solid
<1> QED BY <1>1, <1>5, <1>7

LEMMA JsonCarries ==
    ASSUME DataClosed
    PROVE  Carries(Json) /\ Exact(Json) /\ Json.missing = <<>>
<1>1. Json.values = Data /\ Json.missing = <<>>
  BY DEF Json
<1>2. \A v \in Data :
         Json.kept[v] = v /\ Json.read[v] = <<v>> /\ \A r \in Release : Json.write[r][v] = v
  BY DEF Json
<1>3. Json.values \subseteq Data /\ ReadAsWritten(Json)
  BY <1>1, <1>2 DEF ReadAsWritten
<1> QED BY <1>1, <1>3, CarriesExactly

\* Milliseconds: what was truncated once is not truncated again.
LEMMA TruncatedTwice ==
    ASSUME NEW d \in Nat
    PROVE  /\ Truncated(d) \in Nat /\ Truncated(Truncated(d)) = Truncated(d)
           /\ ToMillis(d) \in Nat /\ FromMillis(ToMillis(d)) = Truncated(d)
<1>1. CASE d \div 1000 <= MaxMillis
  BY <1>1 DEF Truncated, ToMillis, FromMillis
<1>2. CASE ~(d \div 1000 <= MaxMillis)
  BY <1>2, MaxMillisAssumption DEF Truncated, ToMillis, FromMillis
<1> QED BY <1>1, <1>2

LEMMA MillisCarries ==
    ASSUME DataClosed
    PROVE  Carries(Millis) /\ Solid(Millis) /\ Millis.missing = <<>>
<1>1. Millis.values = Nat /\ Millis.missing = <<>>
  BY DEF Millis
<1>2. Nat \subseteq Data
  BY DEF DataClosed
<1>3. ASSUME NEW d \in Nat
      PROVE  /\ Millis.kept[d] = Truncated(d)
             /\ \A r \in Release : Millis.write[r][d] = [atom |-> ToMillis(d)]
  BY <1>2, <1>3 DEF Millis
<1>4. ASSUME NEW n \in Nat
      PROVE  /\ [atom |-> n] \in Data /\ [atom |-> n] # Null
             /\ Millis.read[[atom |-> n]] = <<FromMillis(n)>>
  <2>1. [atom |-> n] \in Data
    BY <1>2, AtomIsData
  <2>2. Millis.read[[atom |-> n]] = <<FromMillis(n)>>
    BY <2>1 DEF Millis, IsAtom
  <2>3. [atom |-> n] # Null
    BY DEF Null
  <2> QED BY <2>1, <2>2, <2>3
<1>5. ASSUME NEW d \in Nat, NEW r \in Release
      PROVE  /\ Millis.write[r][d] \in Data /\ Millis.write[r][d] # Null
             /\ Millis.read[Millis.write[r][d]] = <<Truncated(d)>>
  <2>1. Millis.write[r][d] = [atom |-> ToMillis(d)]
    BY <1>3
  <2>2. ToMillis(d) \in Nat /\ FromMillis(ToMillis(d)) = Truncated(d)
    BY TruncatedTwice
  <2> QED BY <2>1, <2>2, <1>4
<1>6. \A d \in Nat : Millis.kept[d] = Truncated(d) /\ Truncated(d) \in Nat
  BY <1>3, TruncatedTwice
<1>7. \A d \in Nat : Millis.kept[Truncated(d)] = Truncated(d)
  BY <1>6, TruncatedTwice
<1>8. \A r \in Release, v \in Nat :
         \E w \in Nat : Millis.kept[w] = w /\ Millis.read[Millis.write[r][v]] = <<w>>
  BY <1>5, <1>6, <1>7
<1>9. \A v \in Nat : Millis.read[Millis.write[Current][v]] = <<Millis.kept[v]>>
  BY <1>5, <1>6, CurrentIsRelease
<1>10. Carries(Millis)
  <2>1. Millis.values \subseteq Data
    BY <1>1, <1>2
  <2>2. \A v \in Millis.values :
           Millis.kept[v] \in Millis.values /\ Millis.kept[Millis.kept[v]] = Millis.kept[v]
    BY <1>1, <1>6, <1>7
  <2>3. \A r \in Release, v \in Millis.values :
           /\ Millis.write[r][v] \in Data
           /\ \E w \in Millis.values : Millis.kept[w] = w /\ Millis.read[Millis.write[r][v]] = <<w>>
    <3> SUFFICES ASSUME NEW r \in Release, NEW v \in Millis.values
                 PROVE  /\ Millis.write[r][v] \in Data
                        /\ \E w \in Millis.values :
                              Millis.kept[w] = w /\ Millis.read[Millis.write[r][v]] = <<w>>
      OBVIOUS
    <3>1. v \in Nat
      BY ONLY <1>1
    <3>2. Millis.write[r][v] \in Data
      BY <1>5, <3>1
    <3>3. PICK w \in Nat : Millis.kept[w] = w /\ Millis.read[Millis.write[r][v]] = <<w>>
      BY <1>8, <3>1
    <3> QED BY ONLY <1>1, <3>2, <3>3
  <2>4. \A v \in Millis.values : Millis.read[Millis.write[Current][v]] = <<Millis.kept[v]>>
    BY <1>1, <1>9
  <2> QED BY <2>1, <2>2, <2>3, <2>4 DEF Carries
<1> QED BY <1>1, <1>5, <1>10 DEF Solid

\* An Option of a type whose values are not null.
LEMMA OptCarries ==
    ASSUME DataClosed, NEW t, Carries(t), Solid(t), NEW c, c = Opt(t)
    PROVE  /\ Carries(c) /\ c.missing = << <<>> >> /\ <<>> \in c.values /\ c.kept[<<>>] = <<>>
           /\ Exact(t) => Exact(c)
<1>1. c.missing = << <<>> >>
  BY DEF Opt
<1>2. \A v \in Data : v \in c.values <=> v \in Seq(t.values) /\ Len(v) <= 1
  BY DEF Opt
<1>3. c.values \subseteq Data /\ <<>> \in Data
  <2>1. <<>> \in Seq(Data)
    OBVIOUS
  <2>2. c.values \subseteq Data
    BY DEF Opt
  <2> QED BY <2>1, <2>2 DEF DataClosed
<1>4. <<>> \in c.values
  <2>1. <<>> \in Seq(t.values) /\ Len(<<>>) <= 1
    OBVIOUS
  <2> QED BY <1>2, <1>3, <2>1
<1>5. ASSUME NEW x \in t.values PROVE <<x>> \in c.values /\ <<x>> # <<>>
  <2>1. <<x>> \in Seq(Data)
    BY DEF Carries
  <2>2. <<x>> \in Data
    BY <2>1 DEF DataClosed
  <2> DEFINE S == t.values
  <2>3. <<x>> \in Seq(S)
    <3>1. x \in S
      OBVIOUS
    <3> HIDE DEF S
    <3> QED BY <3>1
  <2>4. Len(<<x>>) <= 1 /\ <<x>> # <<>>
    OBVIOUS
  <2> QED BY <1>2, <2>2, <2>3, <2>4
<1>6. ASSUME NEW v \in c.values PROVE v = <<>> \/ \E x \in t.values : v = <<x>>
  <2>1. v \in Seq(t.values) /\ Len(v) <= 1
    BY <1>2, <1>3
  <2>2. Len(v) = 0 \/ Len(v) = 1
    BY <2>1
  <2>3. CASE Len(v) = 1
    <3>1. v[1] \in t.values
      BY <2>1, <2>3
    <3>2. v = <<v[1]>>
      BY <2>1, <2>3
    <3> QED BY <3>1, <3>2
  <2>4. CASE Len(v) = 0
    BY <2>1, <2>4
  <2> QED BY <2>2, <2>3, <2>4
<1>7. c.kept[<<>>] = <<>> /\ \A r \in Release : c.write[r][<<>>] = Null
  BY <1>3 DEF Opt
<1>8. Null \in Data /\ c.read[Null] = << <<>> >>
  BY NullIsData DEF Opt
<1>9. ASSUME NEW x \in t.values
      PROVE  /\ c.kept[<<x>>] = <<t.kept[x]>>
             /\ \A r \in Release : c.write[r][<<x>>] = t.write[r][x]
  <2>1. <<x>> \in Data /\ <<x>> # <<>> /\ <<x>>[1] = x
    BY <1>3, <1>5
  <2> QED BY <2>1 DEF Opt
<1>10. ASSUME NEW j \in Data, j # Null, NEW w, t.read[j] = <<w>> PROVE c.read[j] = << <<w>> >>
  <2>1. c.read[j] = IF j = Null THEN << <<>> >> ELSE IF t.read[j] = <<>> THEN <<>> ELSE <<t.read[j]>>
    BY DEF Opt
  <2>2. <<w>> # <<>>
    OBVIOUS
  <2> QED BY <2>1, <2>2, <1>10
<1> HIDE DEF Opt
<1>11. \A x \in t.values, r \in Release : t.write[r][x] \in Data /\ t.write[r][x] # Null
  BY DEF Carries, Solid
<1>12. ASSUME NEW v \in c.values PROVE c.kept[v] \in c.values /\ c.kept[c.kept[v]] = c.kept[v]
  BY <1>4, <1>5, <1>6, <1>7, <1>9 DEF Carries
<1>13. ASSUME NEW v \in c.values, NEW r \in Release
       PROVE  /\ c.write[r][v] \in Data
              /\ \E w \in c.values : c.kept[w] = w /\ c.read[c.write[r][v]] = <<w>>
  <2>1. CASE v = <<>>
    BY <2>1, <1>4, <1>7, <1>8
  <2>2. ASSUME NEW x \in t.values, v = <<x>>
        PROVE  /\ c.write[r][v] \in Data
               /\ \E w \in c.values : c.kept[w] = w /\ c.read[c.write[r][v]] = <<w>>
    <3>1. c.write[r][v] = t.write[r][x] /\ c.write[r][v] \in Data /\ c.write[r][v] # Null
      BY <2>2, <1>9, <1>11
    <3>2. PICK y \in t.values : t.kept[y] = y /\ t.read[t.write[r][x]] = <<y>>
      BY DEF Carries
    <3>3. c.read[c.write[r][v]] = << <<y>> >>
      BY <3>1, <3>2, <1>10
    <3> QED BY <3>1, <3>2, <3>3, <1>5, <1>9
  <2> QED BY <1>6, <2>1, <2>2
<1>14. ASSUME NEW v \in c.values PROVE c.read[c.write[Current][v]] = <<c.kept[v]>>
  <2>1. CASE v = <<>>
    BY <2>1, <1>7, <1>8, CurrentIsRelease
  <2>2. ASSUME NEW x \in t.values, v = <<x>> PROVE c.read[c.write[Current][v]] = <<c.kept[v]>>
    <3>1. t.read[t.write[Current][x]] = <<t.kept[x]>>
      BY DEF Carries
    <3>2. c.write[Current][v] = t.write[Current][x] /\ c.kept[v] = <<t.kept[x]>>
      BY <2>2, <1>9, CurrentIsRelease
    <3>3. t.write[Current][x] \in Data /\ t.write[Current][x] # Null
      BY <1>11, CurrentIsRelease
    <3>4. c.read[t.write[Current][x]] = << <<t.kept[x]>> >>
      BY <3>1, <3>3, <1>10
    <3> QED BY <3>2, <3>4
  <2> QED BY <1>6, <2>1, <2>2
<1>15. ASSUME Exact(t), NEW v \in c.values, NEW r \in Release PROVE c.read[c.write[r][v]] = <<v>>
  <2>1. CASE v = <<>>
    BY <2>1, <1>7, <1>8
  <2>2. ASSUME NEW x \in t.values, v = <<x>> PROVE c.read[c.write[r][v]] = <<v>>
    <3>1. t.read[t.write[r][x]] = <<x>>
      BY <1>15 DEF Exact
    <3>2. c.write[r][v] = t.write[r][x]
      BY <2>2, <1>9
    <3>3. t.write[r][x] \in Data /\ t.write[r][x] # Null
      BY <1>11
    <3>4. c.read[t.write[r][x]] = << <<x>> >>
      BY <3>1, <3>3, <1>10
    <3> QED BY <2>2, <3>2, <3>4
  <2> QED BY <1>6, <2>1, <2>2
<1>16. Carries(c)
  BY <1>3, <1>12, <1>13, <1>14 DEF Carries
<1>17. Exact(t) => Exact(c)
  BY <1>15 DEF Exact
<1> QED BY <1>1, <1>4, <1>7, <1>16, <1>17

\* A sequence is data if its elements are.
LEMMA VecIsData ==
    ASSUME DataClosed, NEW s \in Seq(Data)
    PROVE  s \in Data /\ [items |-> s] \in Data /\ [items |-> s] # Null
<1>1. s \in Data
  BY DEF DataClosed
<1>2. {"items"} \subseteq Mark
  BY DEF Mark
<1>3. [items |-> s] \in [{"items"} -> Data]
  BY <1>1
<1>4. [items |-> s] # Null
  BY DEF Null
<1> QED BY <1>1, <1>2, <1>3, <1>4, MarkedClosed

\* A sequence made elementwise.
LEMMA Elementwise ==
    ASSUME NEW S, NEW T, NEW s \in Seq(S), NEW u, u = [i \in DOMAIN s |-> u[i]],
           \A i \in DOMAIN s : u[i] \in T
    PROVE  u \in Seq(T) /\ DOMAIN u = DOMAIN s
<1>1. Len(s) \in Nat /\ DOMAIN s = 1 .. Len(s)
  OBVIOUS
<1>2. u \in [1 .. Len(s) -> T]
  BY <1>1
<1> QED BY <1>1, <1>2

\* Each element of v, once it has been written, is read as the one of w.
ReadsAs(t, r, v, w) ==
    /\ w = [i \in DOMAIN v |-> w[i]]
    /\ \A i \in DOMAIN v : w[i] \in t.values /\ t.read[t.write[r][v[i]]] = <<w[i]>>

\* A Vec, element by element.
LEMMA VecCarries ==
    ASSUME DataClosed, NEW t, Carries(t), NEW c, c = Vec(t)
    PROVE  Carries(c) /\ Solid(c) /\ c.missing = <<>> /\ (Exact(t) => Exact(c))
<1> DEFINE T == t.values
<1>1. c.missing = <<>> /\ c.values = {v \in Data : v \in Seq(T)}
  BY DEF Vec
<1>2. \A v \in Data :
         /\ c.kept[v] = [i \in DOMAIN v |-> t.kept[v[i]]]
         /\ \A r \in Release : c.write[r][v] = [items |-> [i \in DOMAIN v |-> t.write[r][v[i]]]]
  BY DEF Vec
<1>3. /\ T \subseteq Data
      /\ \A x \in T : t.kept[x] \in T /\ t.kept[t.kept[x]] = t.kept[x]
      /\ \A r \in Release, x \in T :
            t.write[r][x] \in Data /\ \E y \in T : t.kept[y] = y /\ t.read[t.write[r][x]] = <<y>>
      /\ \A x \in T : t.read[t.write[Current][x]] = <<t.kept[x]>>
  BY DEF Carries
<1>4. Exact(t) => \A r \in Release, x \in T : t.read[t.write[r][x]] = <<x>>
  BY DEF Exact
<1> HIDE DEF T
<1>5. \A v : v \in c.values <=> v \in Seq(T)
  <2>1. \A v \in Seq(T) : v \in Seq(Data)
    BY <1>3
  <2>2. \A v \in Seq(T) : v \in Data
    BY <2>1, VecIsData
  <2> QED BY <1>1, <2>2
<1>6. ASSUME NEW v \in Seq(T) PROVE v \in Data /\ \A i \in DOMAIN v : v[i] \in T
  <2>1. v \in Data
    BY <1>1, <1>5
  <2> QED BY <2>1
<1>7. ASSUME NEW v \in Seq(T) PROVE c.kept[v] \in Seq(T) /\ c.kept[c.kept[v]] = c.kept[v]
  <2> DEFINE k == [i \in DOMAIN v |-> t.kept[v[i]]]
  <2>1. c.kept[v] = k
    BY <1>2, <1>6
  <2>2. \A i \in DOMAIN v : k[i] \in T /\ t.kept[k[i]] = k[i]
    BY <1>3, <1>6
  <2>3. k = [i \in DOMAIN v |-> k[i]]
    OBVIOUS
  <2> HIDE DEF k
  <2>4. k \in Seq(T) /\ DOMAIN k = DOMAIN v
    BY <2>2, <2>3, Elementwise
  <2>5. c.kept[k] = [i \in DOMAIN v |-> t.kept[k[i]]]
    BY <1>2, <1>6, <2>4
  <2>6. c.kept[k] = k
    BY <2>2, <2>3, <2>5
  <2> QED BY <2>1, <2>4, <2>6
<1>8. ASSUME NEW v \in Seq(T), NEW r \in Release, NEW w, ReadsAs(t, r, v, w)
      PROVE  /\ c.write[r][v] \in Data /\ c.write[r][v] # Null
             /\ w \in Seq(T) /\ DOMAIN w = DOMAIN v
             /\ c.read[c.write[r][v]] = <<w>>
  <2> DEFINE s == [i \in DOMAIN v |-> t.write[r][v[i]]]
  <2>0. /\ w = [i \in DOMAIN v |-> w[i]]
        /\ \A i \in DOMAIN v : w[i] \in T /\ t.read[t.write[r][v[i]]] = <<w[i]>>
    BY <1>8 DEF ReadsAs, T
  <2>1. c.write[r][v] = [items |-> s]
    BY <1>2, <1>6
  <2>2. DOMAIN s = DOMAIN v /\ \A i \in DOMAIN v : s[i] \in Data /\ s[i] = t.write[r][v[i]]
    BY <1>3, <1>6
  <2>3. s = [i \in DOMAIN v |-> s[i]]
    OBVIOUS
  <2> HIDE DEF s
  <2>4. s \in Seq(Data)
    BY <2>2, <2>3, Elementwise
  <2>5. [items |-> s] \in Data /\ [items |-> s] # Null
    BY <2>4, VecIsData
  <2>6. w \in Seq(T) /\ DOMAIN w = DOMAIN v
    BY <2>0, Elementwise
  <2>7. \A i \in DOMAIN s : t.read[s[i]] = <<w[i]>>
    BY <2>0, <2>2
  <2>8. c.read[[items |-> s]] =
           IF \A i \in DOMAIN s : t.read[s[i]] # <<>>
           THEN <<[i \in DOMAIN s |-> t.read[s[i]][1]]>> ELSE <<>>
    BY <2>5 DEF Vec, IsArray
  <2>9. \A i \in DOMAIN s : t.read[s[i]] # <<>> /\ t.read[s[i]][1] = w[i]
    BY <2>7
  <2>10. [i \in DOMAIN s |-> t.read[s[i]][1]] = w
    BY <2>0, <2>2, <2>9
  <2>11. c.read[[items |-> s]] = <<w>>
    BY <2>8, <2>9, <2>10
  <2> QED BY <2>1, <2>5, <2>6, <2>11
<1>9. ASSUME NEW v \in Seq(T), NEW r \in Release
      PROVE  /\ c.write[r][v] \in Data /\ c.write[r][v] # Null
             /\ \E w \in Seq(T) : c.kept[w] = w /\ c.read[c.write[r][v]] = <<w>>
  <2> DEFINE y(i) == CHOOSE y \in T : t.kept[y] = y /\ t.read[t.write[r][v[i]]] = <<y>>
             w == [i \in DOMAIN v |-> y(i)]
  <2>0. \A i \in DOMAIN v : y(i) \in T /\ t.kept[y(i)] = y(i) /\ t.read[t.write[r][v[i]]] = <<y(i)>>
    BY <1>3, <1>6
  <2> HIDE DEF y
  <2>1. \A i \in DOMAIN v : w[i] \in T /\ t.kept[w[i]] = w[i] /\ t.read[t.write[r][v[i]]] = <<w[i]>>
    BY <2>0
  <2>2. w = [i \in DOMAIN v |-> w[i]]
    OBVIOUS
  <2> HIDE DEF w
  <2>3. /\ c.write[r][v] \in Data /\ c.write[r][v] # Null
        /\ w \in Seq(T) /\ DOMAIN w = DOMAIN v /\ c.read[c.write[r][v]] = <<w>>
    <3>1. ReadsAs(t, r, v, w)
      BY <2>1, <2>2 DEF ReadsAs, T
    <3> QED BY <1>8, <3>1
  <2>4. c.kept[w] = [i \in DOMAIN v |-> t.kept[w[i]]]
    BY <1>2, <1>6, <2>3
  <2>5. c.kept[w] = w
    BY <2>1, <2>2, <2>4
  <2> QED BY <2>3, <2>5
<1>10. ASSUME NEW v \in Seq(T) PROVE c.read[c.write[Current][v]] = <<c.kept[v]>>
  <2> DEFINE w == [i \in DOMAIN v |-> t.kept[v[i]]]
  <2>1. \A i \in DOMAIN v : w[i] \in T /\ t.read[t.write[Current][v[i]]] = <<w[i]>>
    BY <1>3, <1>6
  <2>2. w = [i \in DOMAIN v |-> w[i]]
    OBVIOUS
  <2>3. c.kept[v] = w
    BY <1>2, <1>6
  <2> HIDE DEF w
  <2>4. ReadsAs(t, Current, v, w)
    BY <2>1, <2>2 DEF ReadsAs, T
  <2> QED BY <2>3, <2>4, <1>8, CurrentIsRelease
<1>11. ASSUME Exact(t), NEW v \in Seq(T), NEW r \in Release PROVE c.read[c.write[r][v]] = <<v>>
  <2>1. \A i \in DOMAIN v : v[i] \in T /\ t.read[t.write[r][v[i]]] = <<v[i]>>
    BY <1>4, <1>6, <1>11
  <2>2. v = [i \in DOMAIN v |-> v[i]]
    OBVIOUS
  <2>3. ReadsAs(t, r, v, v)
    BY <2>1, <2>2 DEF ReadsAs, T
  <2> QED BY <2>3, <1>8
<1>12. Carries(c)
  <2>1. \A v \in c.values : v \in Seq(T)
    BY <1>5
  <2>2. c.values \subseteq Data
    BY <1>1
  <2>3. \A v \in c.values : c.kept[v] \in c.values /\ c.kept[c.kept[v]] = c.kept[v]
    BY <1>5, <1>7
  <2>4. ASSUME NEW r \in Release, NEW v \in c.values
        PROVE  /\ c.write[r][v] \in Data
               /\ \E w \in c.values : c.kept[w] = w /\ c.read[c.write[r][v]] = <<w>>
    <3>1. PICK w \in Seq(T) : c.kept[w] = w /\ c.read[c.write[r][v]] = <<w>>
      BY <1>9, <2>1
    <3>2. w \in c.values
      BY <1>5
    <3> QED BY <1>9, <2>1, <3>1, <3>2
  <2>5. \A v \in c.values : c.read[c.write[Current][v]] = <<c.kept[v]>>
    BY <1>10, <2>1
  <2> QED BY <2>2, <2>3, <2>4, <2>5 DEF Carries
<1>13. Solid(c) /\ (Exact(t) => Exact(c))
  BY <1>5, <1>9, <1>11 DEF Solid, Exact
<1> QED BY <1>1, <1>12, <1>13

\* An enum without a tag, of which the numbered variants are not also unit variants.
LEMMA PlainCarries ==
    ASSUME DataClosed, NEW units, NEW numbered, units \cap numbered = {}, numbered \subseteq Mark,
           NEW c, c = Plain(units, numbered)
    PROVE  Carries(c) /\ Solid(c) /\ Exact(c) /\ c.missing = <<>>
<1>1. /\ c.missing = <<>> /\ c.values \subseteq Data
      /\ \A v \in c.values :
            v \in [variant : units, number : {0}] \cup [variant : numbered, number : Nat]
  BY DEF Plain
<1>2. \A v \in c.values : c.kept[v] = v
  BY <1>1 DEF Plain
<1>3. ASSUME NEW v \in c.values, v \in [variant : units, number : {0}], NEW r \in Release
      PROVE  /\ c.write[r][v] \in Data /\ c.write[r][v] # Null
             /\ c.read[c.write[r][v]] = <<v>>
  <2> DEFINE n == v.variant
  <2>1. n \in units /\ v = [variant |-> n, number |-> 0]
    BY <1>3
  <2>2. v \in Data
    BY <1>1
  <2>3. v["variant"] \in Data
    <3>1. "variant" \in DOMAIN v
      BY <1>3
    <3> QED BY <2>2, <3>1 DEF DataClosed
  <2>4. c.write[r][v] = [atom |-> n]
    BY <2>1, <2>2 DEF Plain
  <2>5. [atom |-> n] \in Data
    BY <2>3, AtomIsData
  <2>6. [atom |-> n] # Null
    BY DEF Null
  <2>7. c.read[[atom |-> n]] = <<[variant |-> n, number |-> 0]>>
    <3> HIDE DEF n
    <3> QED BY <2>1, <2>5 DEF Plain, IsAtom
  <2> QED BY <2>1, <2>4, <2>5, <2>6, <2>7
<1>4. ASSUME NEW v \in c.values, v \in [variant : numbered, number : Nat], NEW r \in Release
      PROVE  /\ c.write[r][v] \in Data /\ c.write[r][v] # Null
             /\ c.read[c.write[r][v]] = <<v>>
  <2> DEFINE n == v.variant
             k == v.number
             m == [x \in {n} |-> [atom |-> k]]
  <2>1. n \in numbered /\ n \notin units /\ k \in Nat /\ v = [variant |-> n, number |-> k]
    BY <1>4
  <2>2. v \in Data
    BY <1>1
  <2>3. c.write[r][v] = [members |-> m]
    BY <2>1, <2>2 DEF Plain
  <2> HIDE DEF n, k
  <2>4. [atom |-> k] \in Data
    BY <2>1, AtomIsData DEF DataClosed
  <2>5. DOMAIN m = {n} /\ m[n] = [atom |-> k] /\ m = [x \in DOMAIN m |-> m[x]]
    OBVIOUS
  <2> HIDE DEF m
  <2>6. [members |-> m] \in Data
    <3>1. DOMAIN m \subseteq DOMAIN v \cup Mark
      BY <2>1, <2>5
    <3>2. \A x \in DOMAIN m : m[x] \in Data
      BY <2>4, <2>5
    <3> QED BY <3>1, <3>2, <2>2, <2>5, ObjectIsData
  <2>7. [members |-> m] # Null
    BY DEF Null
  <2>8. c.read[[members |-> m]] =
           IF \E x \in numbered : DOMAIN m = {x}
           THEN LET x == CHOOSE x \in numbered : DOMAIN m = {x}
                IN <<[variant |-> x, number |-> m[x].atom]>>
           ELSE <<>>
    BY <2>6 DEF Plain, IsAtom, IsObject
  <2>9. (CHOOSE x \in numbered : DOMAIN m = {x}) = n
    <3>1. \A x : DOMAIN m = {x} <=> x = n
      BY <2>5
    <3> QED BY <3>1, <2>1
  <2>10. m[n].atom = k
    BY <2>5
  <2>11. c.read[[members |-> m]] = <<[variant |-> n, number |-> k]>>
    BY <2>1, <2>5, <2>8, <2>9, <2>10
  <2> QED BY <2>1, <2>3, <2>6, <2>7, <2>11
<1>5. \A r \in Release, v \in c.values :
         /\ c.write[r][v] \in Data /\ c.write[r][v] # Null
         /\ c.read[c.write[r][v]] = <<v>>
  BY <1>1, <1>3, <1>4
<1>6. Carries(c) /\ Exact(c)
  <2>1. ReadAsWritten(c)
    BY <1>1, <1>2, <1>5 DEF ReadAsWritten
  <2> QED BY <1>1, <1>2, <2>1, CarriesExactly
<1> QED BY <1>1, <1>5, <1>6 DEF Solid

\* Types that can be read from what any release wrote, and those that every release
\* writes alike and that lose nothing.
Sound(t) == Carries(t) /\ Solid(t) /\ t.missing = <<>>
Firm(t) == Sound(t) /\ Exact(t)

\* An Option of such a type.
SoundOption(t) ==
    /\ Carries(t) /\ t.missing = << <<>> >>
    /\ <<>> \in t.values /\ t.kept[<<>>] = <<>>
FirmOption(t) == SoundOption(t) /\ Exact(t)

\* A field that every release writes, and writes alike.
FieldFirm(d) == FieldCarries(d) /\ Exact(d.type) /\ ~d.later

LEMMA AtomIsFirm == ASSUME DataClosed, NEW S, NEW some PROVE Firm(Atom(S, some))
BY AtomCarries DEF Firm, Sound

\* Types of types.
LEMMA OptionOf ==
    ASSUME DataClosed, NEW t
    PROVE  /\ Sound(t) => SoundOption(Opt(t))
           /\ Firm(t) => FirmOption(Opt(t))
BY OptCarries DEF Sound, SoundOption, Firm, FirmOption

LEMMA VecOf ==
    ASSUME DataClosed, NEW t
    PROVE  /\ Sound(t) => Sound(Vec(t))
           /\ Firm(t) => Firm(Vec(t))
BY VecCarries DEF Sound, Firm

\* Fields of types.
LEMMA SoundFields ==
    ASSUME NEW t, Carries(t), t.missing = <<>>
    PROVE  /\ FieldCarries(Field(t)) /\ Field(t).type = t
           /\ \A v \in t.values : t.kept[v] = v => FieldCarries(Default(t, v))
           /\ Exact(t) => FieldFirm(Field(t))
<1>1. Field(t).absent = <<>> /\ ~Field(t).sparse /\ ~Field(t).later /\ Field(t).type = t
  BY DEF Field
<1>2. FieldCarries(Field(t))
  BY <1>1 DEF FieldCarries
<1>3. ASSUME NEW v \in t.values, t.kept[v] = v PROVE FieldCarries(Default(t, v))
  BY <1>3 DEF Default, FieldCarries
<1> QED BY <1>1, <1>2, <1>3 DEF FieldFirm

\* A struct of firm fields is firm.
LEMMA FirmStruct ==
    ASSUME DataClosed, NEW fields, \A f \in DOMAIN fields : FieldFirm(fields[f])
    PROVE  Firm(Struct(fields))
<1> DEFINE c == StructOnceWith(fields, {})
<1>1. Struct(fields) = c
  BY DEF Struct
<1>2. FieldsCarry(fields) /\ FieldsExact(fields)
  BY DEF FieldFirm, FieldsCarry, FieldsExact
<1>3. Carries(c) /\ Solid(c) /\ c.missing = <<>> /\ StructReads(fields, c)
  BY <1>2, StructCarries
<1>4. c.values = Assigned(fields)
  BY DEF StructOnceWith
<1> HIDE DEF c
<1>5. Exact(c)
  BY <1>2, <1>3, <1>4, StructExact
<1> QED BY <1>1, <1>3, <1>5 DEF Firm, Sound

\* A struct of fields that can be read is sound.
LEMMA SoundStruct ==
    ASSUME DataClosed, NEW fields, \A f \in DOMAIN fields : FieldCarries(fields[f])
    PROVE  /\ Sound(Struct(fields))
           /\ Struct(fields).values = Assigned(fields) /\ StructReads(fields, Struct(fields))
<1> DEFINE c == StructOnceWith(fields, {})
<1>1. Struct(fields) = c
  BY DEF Struct
<1>2. FieldsCarry(fields)
  BY DEF FieldsCarry
<1>3. Carries(c) /\ Solid(c) /\ c.missing = <<>> /\ StructReads(fields, c)
  BY <1>2, StructCarries
<1>4. c.values = Assigned(fields)
  BY DEF StructOnceWith
<1> HIDE DEF c
<1> QED BY <1>1, <1>3, <1>4 DEF Sound

LEMMA SoundField ==
    ASSUME NEW t, Sound(t) PROVE FieldCarries(Field(t))
BY SoundFields DEF Sound

LEMMA FirmField ==
    ASSUME NEW t, Firm(t) PROVE FieldFirm(Field(t))
BY SoundFields DEF Firm, Sound

\* An Option can be read as any kind of field.
LEMMA OptionFields ==
    ASSUME NEW t, SoundOption(t)
    PROVE  /\ \A d \in {Field(t), Sparse(t), With(t), Default(t, <<>>)} : FieldCarries(d)
           /\ FirmOption(t) => \A d \in {Field(t), Sparse(t), Default(t, <<>>)} : FieldFirm(d)
<1>1. <<>> \in t.values /\ t.kept[<<>>] = <<>> /\ t.missing = << <<>> >> /\ Carries(t)
  BY DEF SoundOption
<1>2. \A d \in {Field(t), Sparse(t), Default(t, <<>>)} :
         d.type = t /\ d.absent = << <<>> >> /\ ~d.later
  BY <1>1 DEF Field, Sparse, Default
<1>3. \A d \in {Field(t), Sparse(t), Default(t, <<>>)} : FieldCarries(d)
  BY <1>1, <1>2 DEF FieldCarries
<1>4. FieldCarries(With(t))
  BY <1>1 DEF FieldCarries, With
<1>5. FirmOption(t) => \A d \in {Field(t), Sparse(t), Default(t, <<>>)} : FieldFirm(d)
  BY <1>2, <1>3 DEF FirmOption, FieldFirm
<1> QED BY <1>3, <1>4, <1>5

\* A field may be added if something stands for it in what was written before.
LEMMA LaterField ==
    ASSUME NEW d, FieldCarries(d), d.absent # <<>> PROVE FieldCarries(Later(d))
BY DEF Later, FieldCarries

\* The fields of a variant.
FirmMembers(fields) == \A f \in DOMAIN fields : FieldFirm(fields[f])
SoundMembers(fields) == \A f \in DOMAIN fields : FieldCarries(fields[f])

LEMMA TaggedOf ==
    ASSUME DataClosed, NEW tag \in Mark, NEW variants,
           \A n \in DOMAIN variants : SoundMembers(variants[n]) /\ tag \notin DOMAIN variants[n]
    PROVE  /\ Sound(Tagged(tag, variants))
           /\ (\A n \in DOMAIN variants : FirmMembers(variants[n])) => Firm(Tagged(tag, variants))
<1>1. VariantsCarry(tag, variants)
  BY DEF VariantsCarry, SoundMembers, FieldsCarry
<1>2. (\A n \in DOMAIN variants : FirmMembers(variants[n]))
         => \A n \in DOMAIN variants : FieldsExact(variants[n])
  BY DEF FirmMembers, FieldFirm, FieldsExact
<1> QED BY <1>1, <1>2, TaggedCarries DEF Sound, Firm

LEMMA FirmMembersSound == ASSUME NEW fields, FirmMembers(fields) PROVE SoundMembers(fields)
BY DEF FirmMembers, SoundMembers, FieldFirm

-----------------------------------------------------------------------------
(* The types, from the leaves up.                                          *)

\* The types that are not made of others.
LEMMA Leaves ==
    ASSUME DataClosed
    PROVE  /\ Firm(Text) /\ Firm(Id) /\ Firm(Count) /\ Firm(Flag) /\ Firm(Stamp) /\ Firm(Span)
           /\ Firm(Knob) /\ Sound(Millis)
BY AtomIsFirm, MillisCarries DEF Text, Id, Count, Flag, Stamp, Span, Knob, Sound

LEMMA JsonField == ASSUME DataClosed PROVE FieldFirm(Field(Json)) /\ Firm(Vec(Json))
<1>1. Carries(Json) /\ Exact(Json) /\ Json.missing = <<>>
  BY JsonCarries
<1>2. FieldFirm(Field(Json))
  BY <1>1, SoundFields
<1>3. Firm(Vec(Json))
  BY <1>1, VecCarries DEF Firm, Sound
<1> QED BY <1>2, <1>3

LEMMA AgentRefFirm == ASSUME DataClosed PROVE Firm(AgentRef)
BY FirmStruct, FirmField, Leaves DEF AgentRef, AgentId

\* No release changed what a trigger is.
LEMMA TriggerFirm == ASSUME DataClosed PROVE Firm(Trigger)
<1> DEFINE V == [
    scheduled_wake |-> <<>>,
    external |-> [kind |-> Field(Text), payload |-> Field(Json)],
    human_override |-> [op |-> Field(HumanOp)],
    child_output |-> [child_ref |-> Field(AgentRef), agent_name |-> Field(Text),
                      output_id |-> Field(OutputId)],
    child_retired |-> [child_ref |-> Field(AgentRef), agent_name |-> Field(Text),
                       reason |-> Field(Text)]]
<1>1. FieldFirm(Field(Text)) /\ FieldFirm(Field(Json)) /\ FieldFirm(Field(HumanOp))
      /\ FieldFirm(Field(AgentRef)) /\ FieldFirm(Field(OutputId))
  BY FirmField, Leaves, JsonField, AgentRefFirm DEF HumanOp, OutputId
<1>2. \A n \in DOMAIN V : FirmMembers(V[n]) /\ "type" \notin DOMAIN V[n]
  BY <1>1 DEF FirmMembers
<1>3. "type" \in Mark
  BY DEF Mark
<1> HIDE DEF V
<1>4. Firm(Tagged("type", V))
  BY <1>2, <1>3, TaggedOf, FirmMembersSound
<1> QED BY <1>4 DEF Trigger, V

\* Fields whose types every release writes alike.
LEMMA FirmFields ==
    ASSUME DataClosed
    PROVE  /\ FieldFirm(Field(Text)) /\ FieldFirm(Field(AgentId)) /\ FieldFirm(Field(GraphId))
           /\ FieldFirm(Field(OutputId)) /\ FieldFirm(Field(ConflictId)) /\ FieldFirm(Field(EvidenceId))
           /\ FieldFirm(Field(Count)) /\ FieldFirm(Field(Flag)) /\ FieldFirm(Field(Stamp))
           /\ FieldFirm(Field(Json)) /\ FieldFirm(Field(AgentRef)) /\ FieldFirm(Field(Vec(Text)))
BY FirmField, Leaves, JsonField, AgentRefFirm, VecOf
DEF AgentId, GraphId, OutputId, ConflictId, EvidenceId

\* Options and lists of firm types.
LEMMA FirmOptions ==
    ASSUME DataClosed, NEW t, Firm(t)
    PROVE  FieldFirm(Field(Opt(t))) /\ FieldFirm(Sparse(Opt(t))) /\ FieldFirm(Default(Opt(t), <<>>))
BY OptionOf, OptionFields DEF FirmOption

LEMMA FirmLists ==
    ASSUME DataClosed, NEW t, Firm(t)
    PROVE  FieldFirm(Field(Vec(t)))
BY VecOf, FirmField

LEMMA NewtypesFirm ==
    ASSUME DataClosed
    PROVE  /\ Firm(OutputId) /\ Firm(ConflictId)
BY Leaves DEF OutputId, ConflictId

\* What decisions are made of.
LEMMA DecisionPartsFirm ==
    ASSUME DataClosed
    PROVE  /\ Firm(ReconcileSource) /\ Firm(ConflictAlternative) /\ Firm(ConflictResolution)
           /\ Firm(ConflictRecordIntent) /\ Firm(ToolCall)
<1>1. Firm(ReconcileSource)
  BY FirmStruct, FirmFields DEF ReconcileSource
<1>2. Firm(ConflictAlternative)
  BY FirmStruct, FirmFields DEF ConflictAlternative
<1>3. Firm(ConflictResolution)
  BY FirmStruct, FirmFields DEF ConflictResolution
<1>4. Firm(ConflictRecordIntent)
  BY <1>2, <1>3, FirmStruct, FirmLists, FirmOptions DEF ConflictRecordIntent
<1>5. Firm(ToolCall)
  BY FirmStruct, FirmFields, FirmOptions, Leaves DEF ToolCall
<1> QED BY <1>1, <1>2, <1>3, <1>4, <1>5

\* Operations on an agent's files.
LEMMA FsOpsFirm == ASSUME DataClosed PROVE Firm(FsOp) /\ Firm(FsNavOp)
<1> DEFINE V == [
    write_file |-> [path |-> Field(Text), content |-> Field(Text)],
    delete_file |-> [path |-> Field(Text)]]
<1>1. \A n \in DOMAIN V : FirmMembers(V[n]) /\ "op" \notin DOMAIN V[n]
  BY FirmFields DEF FirmMembers
<1>2. "op" \in Mark
  BY DEF Mark
<1>3. FieldFirm(Sparse(Opt(Text)))
  BY Leaves, FirmOptions
<1>4. \A n \in DOMAIN Navigation : FirmMembers(Navigation[n]) /\ "op" \notin DOMAIN Navigation[n]
  BY <1>3, FirmFields DEF FirmMembers, Navigation
<1> HIDE DEF V
<1>5. Firm(Tagged("op", V))
  BY <1>1, <1>2, TaggedOf, FirmMembersSound
<1>6. Firm(Tagged("op", Navigation))
  BY <1>2, <1>4, TaggedOf, FirmMembersSound
<1> QED BY <1>5, <1>6 DEF FsOp, FsNavOp, V

\* What an agent and its activities are told of where they are.
LEMMA HandlesFirm ==
    ASSUME DataClosed
    PROVE  /\ Firm(AgentConfig) /\ Firm(FsHandle) /\ Firm(ParentRef) /\ Firm(SchedulerCursor)
           /\ Firm(Observation)
<1>1. Firm(AgentConfig)
  <2>1. \A f \in DOMAIN <<>> : FieldFirm(<<>>[f])
    OBVIOUS
  <2> QED BY <2>1, FirmStruct DEF AgentConfig
<1>2. Firm(FsHandle)
  BY FirmStruct, FirmFields DEF FsHandle
<1>3. Firm(ParentRef)
  BY FirmStruct, FirmFields DEF ParentRef
<1>4. Firm(SchedulerCursor)
  BY FirmStruct, FirmOptions, Leaves DEF SchedulerCursor
<1>5. Firm(Observation)
  BY FirmStruct, FirmFields DEF Observation
<1> QED BY <1>1, <1>2, <1>3, <1>4, <1>5

LEMMA HandleFields ==
    ASSUME DataClosed
    PROVE  /\ FieldFirm(Field(AgentConfig)) /\ FieldFirm(Field(FsHandle))
           /\ FieldFirm(Field(Observation)) /\ FieldFirm(Field(ToolCall))
           /\ FieldFirm(Field(Vec(ReconcileSource))) /\ FieldFirm(Sparse(Opt(ConflictRecordIntent)))
           /\ FieldFirm(Field(Vec(ConflictAlternative))) /\ FieldFirm(Sparse(Opt(ConflictResolution)))
BY HandlesFirm, DecisionPartsFirm, FirmField, FirmLists, FirmOptions

\* Activities' inputs and outputs in which no mandate is.
LEMMA InputsFirm ==
    ASSUME DataClosed
    PROVE  /\ Firm(ReadFsInput) /\ Firm(ReadFsOutput) /\ Firm(ExecuteToolInput)
           /\ Firm(PersistOutputInput) /\ Firm(PersistOutputOutput) /\ Firm(ApplyFsOpsOutput)
           /\ Firm(PersistRetirementInput) /\ Firm(AppendDecisionLogInput) /\ Firm(CommitTickInput)
           /\ Firm(RegisterChildInStructuralDbInput) /\ Firm(ReconcileChildrenInput)
           /\ Firm(ReconcileChildrenOutput)
<1>1. Firm(ReadFsInput)
  BY FirmStruct, HandleFields, FirmField, FsOpsFirm DEF ReadFsInput
<1>2. Firm(ReadFsOutput)
  BY FirmStruct, HandleFields DEF ReadFsOutput
<1>3. Firm(ExecuteToolInput)
  BY FirmStruct, HandleFields, FirmFields DEF ExecuteToolInput
<1>4. Firm(PersistOutputInput)
  BY FirmStruct, HandleFields, FirmFields DEF PersistOutputInput
<1>5. Firm(PersistOutputOutput)
  BY FirmStruct, HandleFields, FirmOptions, NewtypesFirm DEF PersistOutputOutput
<1>6. Firm(ApplyFsOpsOutput)
  BY FirmStruct, HandleFields DEF ApplyFsOpsOutput
<1>7. Firm(PersistRetirementInput)
  BY FirmStruct, HandleFields, FirmFields DEF PersistRetirementInput
<1>8. Firm(AppendDecisionLogInput)
  BY FirmStruct, HandleFields, FirmFields DEF AppendDecisionLogInput
<1>9. Firm(CommitTickInput)
  BY FirmStruct, HandleFields, FirmFields DEF CommitTickInput
<1>10. Firm(RegisterChildInStructuralDbInput)
  BY FirmStruct, FirmFields DEF RegisterChildInStructuralDbInput
<1>11. Firm(ReconcileChildrenInput)
  BY FirmStruct, HandleFields, FirmFields DEF ReconcileChildrenInput
<1>12. Firm(ReconcileChildrenOutput)
  BY FirmStruct, FirmFields, FirmOptions, NewtypesFirm DEF ReconcileChildrenOutput
<1> QED BY <1>1, <1>2, <1>3, <1>4, <1>5, <1>6, <1>7, <1>8, <1>9, <1>10, <1>11, <1>12

\* What agents and activities end with.
LEMMA OutcomesFirm ==
    ASSUME DataClosed
    PROVE  Firm(AgentResult) /\ Firm(ToolCallOutcome) /\ Firm(RegisterChildOutcome)
<1> DEFINE
    R == [retired |-> [reason |-> Field(Text)]]
    T == [
        success |-> [evidence_path |-> Field(Text)],
        failure |-> [failure |-> Field(ToolCallFailure)]]
    C == [
        registered |-> [child_agent_id |-> Field(AgentId)],
        rejected_unknown_tool |-> [tool |-> Field(Text)]]
<1>1. Firm(ToolCallFailure)
  BY FirmStruct, FirmFields DEF ToolCallFailure
<1>2. FieldFirm(Field(ToolCallFailure))
  BY <1>1, FirmField
<1>3. \A n \in DOMAIN R : FirmMembers(R[n]) /\ "result" \notin DOMAIN R[n]
  BY FirmFields DEF FirmMembers
<1>4. \A n \in DOMAIN T : FirmMembers(T[n]) /\ "outcome" \notin DOMAIN T[n]
  BY <1>2, FirmFields DEF FirmMembers
<1>5. \A n \in DOMAIN C : FirmMembers(C[n]) /\ "outcome" \notin DOMAIN C[n]
  BY FirmFields DEF FirmMembers
<1>6. "result" \in Mark /\ "outcome" \in Mark
  BY DEF Mark
<1> HIDE DEF R, T, C
<1>7. Firm(Tagged("result", R))
  BY <1>3, <1>6, TaggedOf, FirmMembersSound
<1>8. Firm(Tagged("outcome", T))
  BY <1>4, <1>6, TaggedOf, FirmMembersSound
<1>9. Firm(Tagged("outcome", C))
  BY <1>5, <1>6, TaggedOf, FirmMembersSound
<1> QED BY <1>7, <1>8, <1>9 DEF AgentResult, ToolCallOutcome, RegisterChildOutcome, R, T, C

LEMMA PlainFirm ==
    ASSUME DataClosed, NEW units PROVE Firm(Plain(units, {}))
BY PlainCarries DEF Firm, Sound

\* The files of an agent.
LEMMA FilesFirm ==
    ASSUME DataClosed
    PROVE  /\ Firm(DecisionLogEntry) /\ Firm(EvidenceRecord) /\ Firm(ConflictRecord)
           /\ Firm(HealthRecord) /\ Firm(RetirementRecord) /\ Firm(Claim)
<1>1. Firm(DecisionLogEntry)
  BY FirmStruct, FirmFields DEF DecisionLogEntry
<1>2. Firm(EvidenceRecord)
  BY FirmStruct, FirmFields DEF EvidenceRecord
<1>3. Firm(ConflictRecord)
  <2>1. FieldFirm(Field(ConflictKind))
    BY PlainFirm, FirmField DEF ConflictKind
  <2> QED BY <2>1, FirmStruct, FirmFields, HandleFields DEF ConflictRecord
<1>4. Firm(HealthRecord)
  <2>1. Firm(Attempt)
    BY FirmStruct, FirmFields DEF Attempt
  <2>2. FieldFirm(Field(FailureKind))
    BY PlainFirm, FirmField DEF FailureKind
  <2>3. Firm(FailingCall)
    BY <2>2, FirmStruct, FirmFields DEF FailingCall
  <2>4. FieldFirm(Field(FailingCall)) /\ FieldFirm(Field(Vec(Attempt)))
    BY <2>1, <2>3, FirmField, FirmLists
  <2>5. Firm(HealthIncident)
    BY <2>4, FirmStruct, FirmFields DEF HealthIncident
  <2>6. FieldFirm(Sparse(Opt(HealthIncident)))
    BY <2>5, FirmOptions
  <2> DEFINE S == Plain({"Healthy", "Unhealthy"}, {})
  <2>7. FieldFirm(Field(S))
    BY PlainFirm, FirmField
  <2> HIDE DEF S
  <2>8. Firm(Struct([version |-> Field(Count), state |-> Field(S), since |-> Field(Stamp),
                     incident |-> Sparse(Opt(HealthIncident))]))
    BY <2>6, <2>7, FirmStruct, FirmFields
  <2> QED BY <2>8 DEF HealthRecord, S
<1>5. Firm(RetirementRecord)
  BY FirmStruct, FirmFields DEF RetirementRecord
<1>6. Firm(Claim)
  <2> DEFINE S == Plain({"open", "resolved", "abandoned"}, {})
  <2>1. FieldFirm(Field(S))
    BY PlainFirm, FirmField
  <2> HIDE DEF S
  <2>2. Firm(Struct([seed |-> Field(Text), description |-> Field(Text), status |-> Field(S),
                     created_at |-> Field(Stamp)]))
    BY <2>1, FirmStruct, FirmFields
  <2> QED BY <2>2 DEF Claim, S
<1> QED BY <1>1, <1>2, <1>3, <1>4, <1>5, <1>6

\* What stands for a field that an older release did not write.
LEMMA DefaultField ==
    ASSUME NEW t, Sound(t), NEW v \in t.values, t.kept[v] = v
    PROVE  /\ FieldCarries(Default(t, v)) /\ FieldCarries(Later(Default(t, v)))
           /\ Exact(t) => FieldFirm(Default(t, v))
<1>1. /\ Default(t, v).type = t /\ Default(t, v).absent = <<v>>
      /\ ~Default(t, v).sparse /\ ~Default(t, v).later
  BY DEF Default
<1>2. FieldCarries(Default(t, v))
  BY <1>1 DEF FieldCarries, Sound
<1>3. Default(t, v).absent # <<>>
  BY <1>1
<1> QED BY <1>1, <1>2, <1>3, LaterField DEF FieldFirm

\* An Option that was added later.
LEMMA LaterOption ==
    ASSUME NEW t, SoundOption(t)
    PROVE  /\ FieldCarries(Later(Default(t, <<>>))) /\ FieldCarries(Later(Sparse(t)))
<1>1. Default(t, <<>>).absent = << <<>> >> /\ Sparse(t).absent = << <<>> >>
  BY DEF Default, Sparse
<1>2. << <<>> >> # <<>>
  OBVIOUS
<1>3. FieldCarries(Default(t, <<>>)) /\ FieldCarries(Sparse(t))
  BY OptionFields
<1> QED BY <1>1, <1>2, <1>3, LaterField

\* The defaults are values of their types, of which everything is kept.
LEMMA EmptyIsKept ==
    ASSUME DataClosed, NEW t
    PROVE  <<>> \in Vec(t).values /\ Vec(t).kept[<<>>] = <<>>
<1>1. <<>> \in Data
  <2>1. <<>> \in Seq(Data)
    OBVIOUS
  <2> QED BY <2>1 DEF DataClosed
<1>2. <<>> \in Vec(t).values
  <2> DEFINE S == t.values
  <2>1. Vec(t).values = {v \in Data : v \in Seq(S)}
    BY DEF Vec
  <2> HIDE DEF S
  <2> QED BY <1>1, <2>1
<1>3. Vec(t).kept[<<>>] = <<>>
  BY <1>1 DEF Vec
<1> QED BY <1>2, <1>3

LEMMA AtomIsKept ==
    ASSUME NEW S, NEW some, NEW v \in S, v \in Data
    PROVE  v \in Atom(S, some).values /\ Atom(S, some).kept[v] = v
BY DEF Atom

\* The context policy, and the one that stands for it in an older mandate.
LEMMA PolicyKept ==
    ASSUME DataClosed
    PROVE  /\ Firm(ContextPolicy)
           /\ DefaultPolicy \in ContextPolicy.values /\ ContextPolicy.kept[DefaultPolicy] = DefaultPolicy
<1>1. /\ \A n \in {8, 32} : n \in Data /\ n \in Knob.values /\ Knob.kept[n] = n
  BY AtomIsKept DEF Knob, DataClosed
<1>2. Firm(Knob) /\ Sound(Knob) /\ Exact(Knob)
  BY Leaves DEF Firm
<1>3. FieldFirm(Default(Knob, 8)) /\ FieldFirm(Default(Knob, 32))
  BY <1>1, <1>2, DefaultField
<1> DEFINE F == [
    recent_outputs |-> Default(Knob, 8), recent_evidence |-> Default(Knob, 8),
    open_claims_max |-> Default(Knob, 32)]
<1>4. Firm(ContextPolicy)
  BY <1>3, FirmStruct DEF ContextPolicy
<1>5. DOMAIN F = {"recent_outputs", "recent_evidence", "open_claims_max"}
  OBVIOUS
<1>6. DefaultPolicy \in [DOMAIN F -> Data]
  BY <1>1 DEF DefaultPolicy
<1>7. DefaultPolicy \in Data
  BY <1>5, <1>6, MarkedClosed DEF Mark
<1>8. \A f \in DOMAIN F :
        DefaultPolicy[f] \in F[f].type.values /\ F[f].type.kept[DefaultPolicy[f]] = DefaultPolicy[f]
  BY <1>1 DEF DefaultPolicy, Default
<1> HIDE DEF F
<1>9. DefaultPolicy \in Assigned(F)
  BY <1>6, <1>7, <1>8 DEF Assigned
<1>10. KeptOf(F, DefaultPolicy) = DefaultPolicy
  <2>1. KeptOf(F, DefaultPolicy) = [f \in DOMAIN F |-> DefaultPolicy[f]]
    BY <1>8 DEF KeptOf
  <2> QED BY <2>1, <1>6
<1>11. /\ ContextPolicy.values = Assigned(F)
       /\ \A v \in Data : ContextPolicy.kept[v] = KeptOf(F, v)
  BY DEF ContextPolicy, Struct, StructOnceWith, F
<1> QED BY <1>4, <1>7, <1>9, <1>10, <1>11

\* The fields of a mandate, most of which were added later.
LEMMA MandateFieldsCarry ==
    ASSUME DataClosed
    PROVE  /\ FieldCarries(Field(Text)) /\ FieldCarries(With(Opt(Millis)))
           /\ FieldCarries(Later(Default(Opt(Count), <<>>)))
           /\ FieldCarries(Later(Sparse(Opt(RetryPolicy))))
           /\ FieldCarries(Later(Default(ContextPolicy, DefaultPolicy)))
           /\ FieldCarries(Later(Sparse(Opt(Text))))
           /\ FieldCarries(AssignedTools)
<1>1. Sound(Text) /\ Sound(Millis) /\ Sound(Count) /\ Sound(Vec(Text))
  BY Leaves, VecOf DEF Firm
<1>2. Sound(RetryPolicy)
  BY <1>1, SoundField, SoundStruct DEF RetryPolicy
<1>3. SoundOption(Opt(Millis)) /\ SoundOption(Opt(Count)) /\ SoundOption(Opt(RetryPolicy))
      /\ SoundOption(Opt(Text))
  BY <1>1, <1>2, OptionOf
<1>4. FieldCarries(With(Opt(Millis)))
  BY <1>3, OptionFields
<1>5. FieldCarries(Later(Default(ContextPolicy, DefaultPolicy)))
  BY PolicyKept, DefaultField DEF Firm
<1>6. FieldCarries(AssignedTools)
  BY <1>1, EmptyIsKept, DefaultField DEF AssignedTools
<1> QED BY <1>1, <1>3, <1>4, <1>5, <1>6, SoundField, LaterOption

\* The fields of a mandate.
OfMandate == [
    text |-> Field(Text), idle_period |-> With(Opt(Millis)),
    step_cap |-> Later(Default(Opt(Count), <<>>)),
    retry_policy |-> Later(Sparse(Opt(RetryPolicy))),
    context_policy |-> Later(Default(ContextPolicy, DefaultPolicy)),
    model |-> Later(Sparse(Opt(Text))),
    tools |-> AssignedTools]

\* A mandate is read whatever release wrote it, with the members it has no more.
LEMMA MandateSound ==
    ASSUME DataClosed
    PROVE  /\ Sound(Mandate) /\ Mandate.values = Assigned(OfMandate)
           /\ StructReads(OfMandate, Mandate)
<1>1. FieldsCarry(OfMandate)
  BY MandateFieldsCarry DEF OfMandate, FieldsCarry
<1>2. {"max_ticks", "persistent"} \subseteq Mark
  BY DEF Mark
<1>3. {"max_ticks", "persistent"} \cap DOMAIN OfMandate = {}
  BY DEF OfMandate
<1>4. Mandate = StructOnceWith(OfMandate, {"max_ticks", "persistent"})
  BY DEF Mandate, OfMandate
<1>5. Mandate.values = Assigned(OfMandate)
  BY <1>4 DEF StructOnceWith
<1> QED BY <1>1, <1>2, <1>3, <1>4, <1>5, StructCarries DEF Sound

LEMMA MandateField == ASSUME DataClosed PROVE FieldCarries(Field(Mandate))
BY MandateSound, SoundField

LEMMA SoundFirmFields ==
    ASSUME NEW d, FieldFirm(d) PROVE FieldCarries(d)
BY DEF FieldFirm

\* Decisions, some of which have mandates in them.
LEMMA DecisionSound == ASSUME DataClosed PROVE Sound(Decision)
<1> DEFINE V == [
    call_tools |-> [calls |-> Field(Vec(ToolCall))],
    write_output |-> [body |-> Field(Text), citations |-> Field(Vec(Text))],
    rewrite_fs |-> [ops |-> Field(Vec(FsOp))],
    idle |-> [next_after |-> Field(Millis)],
    spawn_child |-> [agent_name |-> Field(Text), mandate |-> Field(Mandate)],
    reconcile_children |-> [sources |-> Field(Vec(ReconcileSource)),
                            conflict |-> Sparse(Opt(ConflictRecordIntent))],
    retire_child |-> [child_ref |-> Field(AgentRef), reason |-> Field(Text)],
    replace_child |-> [child_ref |-> Field(AgentRef), new_mandate |-> Field(Mandate)],
    read |-> Navigation.read, list |-> Navigation.list, search |-> Navigation.search]
<1>1. /\ FieldCarries(Field(Vec(ToolCall))) /\ FieldCarries(Field(Text))
      /\ FieldCarries(Field(Vec(Text)))
      /\ FieldCarries(Field(Vec(FsOp))) /\ FieldCarries(Field(AgentRef))
      /\ FieldCarries(Field(Vec(ReconcileSource))) /\ FieldCarries(Sparse(Opt(ConflictRecordIntent)))
      /\ FieldCarries(Sparse(Opt(Text)))
  BY FirmFields, FirmLists, FirmOptions, Leaves, HandleFields, DecisionPartsFirm, FsOpsFirm,
     SoundFirmFields
<1>2. FieldCarries(Field(Millis)) /\ FieldCarries(Field(Mandate))
  BY Leaves, SoundField, MandateField
<1>3. \A n \in DOMAIN V : SoundMembers(V[n]) /\ "type" \notin DOMAIN V[n]
  BY <1>1, <1>2 DEF SoundMembers, Navigation
<1>4. "type" \in Mark
  BY DEF Mark
<1> HIDE DEF V
<1>5. Sound(Tagged("type", V))
  BY <1>3, <1>4, TaggedOf
<1> QED BY <1>5 DEF Decision, V

\* Fields of firm types can be read.
LEMMA FirmCarried ==
    ASSUME DataClosed
    PROVE  /\ FieldCarries(Field(Text)) /\ FieldCarries(Field(AgentId)) /\ FieldCarries(Field(GraphId))
           /\ FieldCarries(Field(Count)) /\ FieldCarries(Field(Vec(Text)))
           /\ FieldCarries(Field(Vec(Trigger))) /\ FieldCarries(Field(Vec(HumanOp)))
           /\ FieldCarries(Field(Vec(MandatePatch))) /\ FieldCarries(Field(Vec(AgentRef)))
           /\ FieldCarries(Field(Vec(FsOp)))
           /\ FieldCarries(Field(Opt(Text))) /\ FieldCarries(Field(Opt(OutputId)))
           /\ FieldCarries(Field(Opt(ParentRef)))
           /\ FieldCarries(Field(SchedulerCursor)) /\ FieldCarries(Field(AgentConfig))
           /\ FieldCarries(Field(FsHandle)) /\ FieldCarries(Field(Observation))
<1>1. /\ FieldFirm(Field(Vec(HumanOp))) /\ FieldFirm(Field(Vec(MandatePatch)))
  BY JsonField, FirmField DEF HumanOp, MandatePatch
<1>2. /\ FieldFirm(Field(Vec(Trigger))) /\ FieldFirm(Field(Vec(AgentRef))) /\ FieldFirm(Field(Vec(FsOp)))
  BY TriggerFirm, AgentRefFirm, FsOpsFirm, FirmLists
<1>3. /\ FieldFirm(Field(Opt(Text))) /\ FieldFirm(Field(Opt(OutputId)))
      /\ FieldFirm(Field(Opt(ParentRef)))
      /\ FieldFirm(Field(SchedulerCursor))
  BY Leaves, NewtypesFirm, HandlesFirm, FirmOptions, FirmField
<1> QED BY <1>1, <1>2, <1>3, FirmFields, HandleFields, SoundFirmFields

\* What has been left out of an index is nothing, if nothing is said about it.
LEMMA IndexSound == ASSUME DataClosed PROVE Sound(FsIndex)
<1>1. Sound(Vec(Text)) /\ <<>> \in Vec(Text).values /\ Vec(Text).kept[<<>>] = <<>>
  BY Leaves, VecOf, EmptyIsKept DEF Firm
<1>2. FieldCarries(Default(Vec(Text), <<>>))
  BY <1>1, DefaultField
<1>3. Sound(Remainder)
  <2>1. {"none"} \cap {"exactly", "at_least"} = {} /\ {"exactly", "at_least"} \subseteq Mark
    BY DEF Mark
  <2> QED BY <2>1, PlainCarries DEF Remainder, Sound
<1>4. NothingMore \in Data
  <2>1. 0 \in Data /\ "none" \in Data /\ {"variant", "number"} \subseteq Mark
    BY DEF DataClosed, Mark
  <2>2. NothingMore \in [{"variant", "number"} -> Data]
    BY <2>1 DEF NothingMore
  <2> QED BY <2>1, <2>2, MarkedClosed
<1>5. NothingMore \in Remainder.values /\ Remainder.kept[NothingMore] = NothingMore
  <2>1. NothingMore \in [variant : {"none"}, number : {0}]
    BY DEF NothingMore
  <2> QED BY <1>4, <2>1 DEF Remainder, Plain
<1>6. FieldCarries(Later(Default(Remainder, NothingMore)))
  BY <1>3, <1>5, DefaultField
<1> QED BY <1>2, <1>6, SoundStruct DEF FsIndex

\* The session of a cycle, and the one that is carried over if there is one.
LEMMA SessionSound ==
    ASSUME DataClosed
    PROVE  Sound(Seed) /\ Sound(Session)
<1>1. Sound(Seed)
  BY IndexSound, SoundField, MandateField, FirmCarried, SoundStruct DEF Seed
<1>2. Sound(Step)
  BY DecisionSound, SoundField, FirmCarried, SoundStruct DEF Step
<1>3. FieldCarries(Field(Vec(Step)))
  BY <1>2, VecOf, SoundField
<1>4. Sound(Session)
  BY <1>1, <1>3, SoundField, SoundStruct DEF Session
<1> QED BY <1>1, <1>4

LEMMA InFlightCarries == ASSUME DataClosed PROVE FieldCarries(InFlight)
BY SessionSound, OptionOf, LaterOption DEF InFlight

\* The fields of what is carried over, of an agent's input, of a snapshot and of a seed's input.
OfCarryover == [
    pending_triggers |-> Field(Vec(Trigger)), pending_human_ops |-> Field(Vec(HumanOp)),
    pending_mandate_patches |-> Field(Vec(MandatePatch)),
    retirement_request |-> Field(Opt(Text)), scheduler_cursor |-> Field(SchedulerCursor),
    child_handles |-> Field(Vec(AgentRef)), last_output_id |-> Field(Opt(OutputId)),
    cumulative_triggers_observed |-> Field(Count), cumulative_human_ops_observed |-> Field(Count),
    cumulative_mandate_patches_observed |-> Field(Count), tick |-> Field(Count),
    in_flight |-> InFlight]
OfInput == [
    cfg |-> Field(AgentConfig), fs_handle |-> Field(FsHandle),
    parent_handle |-> Field(Opt(ParentRef)), carryover |-> Field(Opt(Carryover)),
    mandate |-> Field(Mandate), graph_id |-> Field(GraphId), agent_id |-> Field(AgentId),
    agent_name |-> Field(Text)]
OfSnapshot == [
    pending_triggers_count |-> Field(Count), pending_human_ops_count |-> Field(Count),
    pending_mandate_patches_count |-> Field(Count), retirement_request |-> Field(Opt(Text)),
    recent_output_ids |-> Field(Vec(Text)),
    cumulative_triggers_observed |-> SnapshotCount,
    cumulative_human_ops_observed |-> SnapshotCount,
    cumulative_mandate_patches_observed |-> SnapshotCount,
    parked |-> SnapshotFlag, is_never |-> SnapshotFlag, tick |-> SnapshotCount,
    next_wake |-> Later(Default(Opt(Span), <<>>))]
OfSeedInput == [
    mandate |-> Field(Mandate), fs_handle |-> Field(FsHandle), triggers |-> Field(Vec(Trigger)),
    human_ops |-> Field(Vec(HumanOp)), mandate_patches |-> Field(Vec(MandatePatch))]

\* What a run hands to the next one.
LEMMA CarryoverSound ==
    ASSUME DataClosed
    PROVE  /\ Sound(Carryover) /\ Carryover.values = Assigned(OfCarryover)
           /\ StructReads(OfCarryover, Carryover)
<1>1. \A f \in DOMAIN OfCarryover : FieldCarries(OfCarryover[f])
  BY FirmCarried, InFlightCarries DEF OfCarryover
<1>2. Carryover = Struct(OfCarryover)
  BY DEF Carryover, OfCarryover
<1> QED BY <1>1, <1>2, SoundStruct

LEMMA AgentInputSound ==
    ASSUME DataClosed
    PROVE  Sound(AgentInput) /\ AgentInput.values = Assigned(OfInput) /\ StructReads(OfInput, AgentInput)
<1>1. FieldCarries(Field(Opt(Carryover)))
  BY CarryoverSound, OptionOf, OptionFields
<1>2. \A f \in DOMAIN OfInput : FieldCarries(OfInput[f])
  BY <1>1, FirmCarried, MandateField DEF OfInput
<1>3. AgentInput = Struct(OfInput)
  BY DEF AgentInput, OfInput
<1> QED BY <1>2, <1>3, SoundStruct

\* What a query answers.
LEMMA SnapshotSound ==
    ASSUME DataClosed
    PROVE  /\ Sound(AgentSnapshot) /\ AgentSnapshot.values = Assigned(OfSnapshot)
           /\ StructReads(OfSnapshot, AgentSnapshot)
<1>1. FieldCarries(SnapshotCount)
  <2>1. 0 \in Data
    BY DEF DataClosed
  <2>2. 0 \in Count.values /\ Count.kept[0] = 0
    BY <2>1, AtomIsKept DEF Count
  <2> QED BY <2>2, Leaves, DefaultField DEF SnapshotCount, Firm
<1>2. FieldCarries(SnapshotFlag)
  <2>1. FALSE \in Data
    BY DEF DataClosed
  <2>2. FALSE \in Flag.values /\ Flag.kept[FALSE] = FALSE
    BY <2>1, AtomIsKept DEF Flag
  <2> QED BY <2>2, Leaves, DefaultField DEF SnapshotFlag, Firm
<1>3. FieldCarries(Later(Default(Opt(Span), <<>>)))
  BY Leaves, OptionOf, LaterOption DEF Firm
<1>4. \A f \in DOMAIN OfSnapshot : FieldCarries(OfSnapshot[f])
  BY <1>1, <1>2, <1>3, FirmCarried DEF OfSnapshot
<1>5. AgentSnapshot = Struct(OfSnapshot)
  BY DEF AgentSnapshot, OfSnapshot
<1> QED BY <1>4, <1>5, SoundStruct

\* The inputs in which a mandate is.
LEMMA SeedInputsSound ==
    ASSUME DataClosed
    PROVE  /\ Sound(BuildSeedInput) /\ BuildSeedInput.values = Assigned(OfSeedInput)
           /\ StructReads(OfSeedInput, BuildSeedInput)
           /\ Sound(BuildSeedOutput) /\ Sound(DecideStepInput) /\ Sound(ApplyFsOpsInput)
<1>1. \A f \in DOMAIN OfSeedInput : FieldCarries(OfSeedInput[f])
  BY FirmCarried, MandateField DEF OfSeedInput
<1>2. BuildSeedInput = Struct(OfSeedInput)
  BY DEF BuildSeedInput, OfSeedInput
<1>3. /\ Sound(BuildSeedInput) /\ BuildSeedInput.values = Assigned(OfSeedInput)
      /\ StructReads(OfSeedInput, BuildSeedInput)
  BY <1>1, <1>2, SoundStruct
<1>4. Sound(BuildSeedOutput)
  BY SessionSound, SoundField, SoundStruct DEF BuildSeedOutput
<1>5. Sound(DecideStepInput)
  BY SessionSound, SoundField, SoundStruct DEF DecideStepInput
<1>6. Sound(ApplyFsOpsInput)
  BY FirmCarried, MandateField, SoundStruct DEF ApplyFsOpsInput
<1> QED BY <1>3, <1>4, <1>5, <1>6

\* Every type that crosses from one process to another.
LEMMA EveryTypeCarries ==
    ASSUME DataClosed, NEW n \in DOMAIN Durable
    PROVE  Carries(Durable[n])
<1>1. Carries(HumanOp) /\ Carries(MandatePatch)
  BY JsonCarries DEF HumanOp, MandatePatch
<1>2. /\ Carries(AgentInput) /\ Carries(AgentSnapshot) /\ Carries(BuildSeedInput)
      /\ Carries(BuildSeedOutput) /\ Carries(DecideStepInput) /\ Carries(Decision)
      /\ Carries(ApplyFsOpsInput)
  BY AgentInputSound, SnapshotSound, SeedInputsSound, DecisionSound DEF Sound
<1>3. /\ Carries(AgentResult) /\ Carries(ToolCallOutcome) /\ Carries(RegisterChildOutcome)
      /\ Carries(Trigger)
  BY OutcomesFirm, TriggerFirm DEF Firm, Sound
<1>4. /\ Carries(ReadFsInput) /\ Carries(ReadFsOutput) /\ Carries(ExecuteToolInput)
      /\ Carries(PersistOutputInput) /\ Carries(PersistOutputOutput) /\ Carries(ApplyFsOpsOutput)
      /\ Carries(PersistRetirementInput) /\ Carries(AppendDecisionLogInput) /\ Carries(CommitTickInput)
      /\ Carries(RegisterChildInStructuralDbInput) /\ Carries(ReconcileChildrenInput)
      /\ Carries(ReconcileChildrenOutput)
  BY InputsFirm DEF Firm, Sound
<1>5. /\ Carries(DecisionLogEntry) /\ Carries(EvidenceRecord) /\ Carries(ConflictRecord)
      /\ Carries(HealthRecord) /\ Carries(RetirementRecord) /\ Carries(Claim)
  BY FilesFirm DEF Firm, Sound
<1> QED BY <1>1, <1>2, <1>3, <1>4, <1>5 DEF Durable

-----------------------------------------------------------------------------
(* What is read, of the types it matters for.                              *)

\* A field of an exact type is read as it was, or as what stands for it; if every
\* release has it, as it was.
LEMMA FieldIsRead ==
    ASSUME NEW fields, NEW v \in Assigned(fields), NEW f \in DOMAIN fields,
           Exact(fields[f].type), NEW r \in Release, NEW x, <<x>> = ReadOf(r, fields, v, f)
    PROVE  /\ x = v[f] \/ <<x>> = fields[f].absent
           /\ FieldFirm(fields[f]) => x = v[f]
<1>1. v[f] \in fields[f].type.values
  BY DEF Assigned
<1>2. CASE f \in Written(r, fields, v)
  <2>1. ReadOf(r, fields, v, f) = <<v[f]>>
    BY <1>1, <1>2 DEF ReadOf, Exact
  <2> QED BY <2>1
<1>3. CASE f \notin Written(r, fields, v)
  <2>1. <<x>> = fields[f].absent
    BY <1>3 DEF ReadOf
  <2>2. ASSUME FieldFirm(fields[f]) PROVE x = v[f]
    <3>1. fields[f].sparse /\ v[f] = <<>>
      BY <1>3, <2>2 DEF Written, FieldFirm
    <3>2. fields[f].absent = << <<>> >>
      BY <3>1, <2>2 DEF FieldFirm, FieldCarries
    <3> QED BY <2>1, <3>1, <3>2
  <2> QED BY <2>1, <2>2
<1> QED BY <1>2, <1>3

\* A sequence of at most one element.
LEMMA AtMostOne ==
    ASSUME NEW S, NEW v \in Seq(S), Len(v) <= 1
    PROVE  v = <<>> \/ \E x \in S : v = <<x>>
<1>1. Len(v) = 0 \/ Len(v) = 1
  <2>1. Len(v) \in Nat /\ \A n \in Nat : n <= 1 => n = 0 \/ n = 1
    OBVIOUS
  <2> QED BY <2>1, Zenon
<1>2. CASE Len(v) = 1
  <2>1. v[1] \in S /\ v = <<v[1]>>
    BY <1>2
  <2> QED BY <2>1
<1> QED BY <1>1, <1>2

\* An Option is read as none if it was, and as one if it was.
OptRead(t, r, v, w) ==
    \/ v = <<>> /\ w = <<>>
    \/ \E x \in t.values, y \in t.values : v = <<x>> /\ w = <<y>> /\ t.read[t.write[r][x]] = <<y>>

LEMMA OptReads ==
    ASSUME DataClosed, NEW t, Carries(t), Solid(t), NEW v \in Opt(t).values, NEW r \in Release,
           NEW w, Opt(t).read[Opt(t).write[r][v]] = <<w>>
    PROVE  OptRead(t, r, v, w)
<1> DEFINE c == Opt(t)
           S == t.values
<1>1. v \in Data /\ v \in Seq(S) /\ Len(v) <= 1
  BY DEF Opt
<1>2. c.write[r][v] = IF v = <<>> THEN Null ELSE t.write[r][v[1]]
  BY <1>1 DEF Opt
<1>3. \A j \in Data : c.read[j] = IF j = Null THEN << <<>> >>
                                  ELSE IF t.read[j] = <<>> THEN <<>> ELSE <<t.read[j]>>
  BY DEF Opt
<1>4. c.read[c.write[r][v]] = <<w>>
  OBVIOUS
<1> HIDE DEF c
<1>5. CASE v = <<>>
  <2>1. c.read[Null] = << <<>> >>
    BY <1>3, NullIsData
  <2>2. c.read[Null] = <<w>>
    BY <1>2, <1>4, <1>5
  <2>3. w = <<>>
    BY <2>1, <2>2
  <2> QED BY <1>5, <2>3 DEF OptRead
<1>6. CASE v # <<>>
  <2>1. PICK x \in S : v = <<x>>
    <3> HIDE DEF S
    <3> QED BY <1>1, <1>6, AtMostOne
  <2> DEFINE j == t.write[r][x]
  <2>2. j \in Data /\ j # Null
    BY DEF Carries, Solid
  <2>3. PICK y \in t.values : t.read[j] = <<y>>
    BY DEF Carries
  <2>4. c.write[r][v] = j
    <3>1. v[1] = x
      BY <2>1
    <3> QED BY <1>2, <1>6, <3>1
  <2> HIDE DEF j
  <2>5. c.read[j] = << <<y>> >>
    <3>1. <<y>> # <<>>
      OBVIOUS
    <3> QED BY <1>3, <2>2, <2>3, <3>1
  <2>6. w = <<y>>
    BY <1>4, <2>4, <2>5
  <2> QED BY <2>1, <2>3, <2>6 DEF j, OptRead
<1> QED BY <1>5, <1>6

\* What was read of a struct is a value of it, and read field by field.
LEMMA StructRead ==
    ASSUME NEW fields, NEW c, StructReads(fields, c), NEW v \in c.values, NEW r \in Release,
           NEW w, c.read[c.write[r][v]] = <<w>>
    PROVE  /\ w \in c.values /\ DOMAIN w = DOMAIN fields
           /\ \A f \in DOMAIN fields : <<w[f]>> = ReadOf(r, fields, v, f)
<1>1. PICK x \in c.values :
         /\ c.read[c.write[r][v]] = <<x>> /\ DOMAIN x = DOMAIN fields
         /\ \A f \in DOMAIN fields : <<x[f]>> = ReadOf(r, fields, v, f)
  BY DEF StructReads
<1>2. x = w
  BY <1>1
<1> QED BY <1>1, <1>2

\* No tools are read that were not assigned.
LEMMA ToolsRead ==
    ASSUME DataClosed, NEW v \in Mandate.values, NEW r \in Release, NEW w,
           Mandate.read[Mandate.write[r][v]] = <<w>>
    PROVE  NoMoreTools(w, v)
<1>1. v \in Assigned(OfMandate) /\ <<w["tools"]>> = ReadOf(r, OfMandate, v, "tools")
  <2>1. Mandate.values = Assigned(OfMandate) /\ StructReads(OfMandate, Mandate)
    BY MandateSound
  <2>2. \A f \in DOMAIN OfMandate : <<w[f]>> = ReadOf(r, OfMandate, v, f)
    BY <2>1, StructRead
  <2>3. "tools" \in DOMAIN OfMandate
    BY DEF OfMandate
  <2> QED BY <2>1, <2>2, <2>3
<1>2. /\ "tools" \in DOMAIN OfMandate /\ OfMandate["tools"].type = Vec(Text)
      /\ OfMandate["tools"].absent = << <<>> >>
  BY DEF OfMandate, AssignedTools, Later, Default
<1>3. Exact(Vec(Text))
  BY Leaves, VecOf DEF Firm
<1>4. w["tools"] = v["tools"] \/ <<w["tools"]>> = << <<>> >>
  BY <1>1, <1>2, <1>3, FieldIsRead
<1> QED BY <1>4 DEF NoMoreTools

\* An agent that is read as quiescent was.
LEMMA SnapshotRead ==
    ASSUME DataClosed, NEW v \in AgentSnapshot.values, NEW r \in Release, NEW w,
           AgentSnapshot.read[AgentSnapshot.write[r][v]] = <<w>>
    PROVE  Quiescent(w) => Quiescent(v)
<1>1. v \in Assigned(OfSnapshot) /\ \A f \in DOMAIN OfSnapshot : <<w[f]>> = ReadOf(r, OfSnapshot, v, f)
  <2>1. AgentSnapshot.values = Assigned(OfSnapshot) /\ StructReads(OfSnapshot, AgentSnapshot)
    BY SnapshotSound
  <2> QED BY <2>1, StructRead
<1>2. FieldFirm(Field(Count)) /\ Exact(Count) /\ Exact(Flag)
  BY FirmFields, Leaves DEF Firm
<1>3. \A f \in {"pending_triggers_count", "pending_human_ops_count", "pending_mandate_patches_count"} :
         f \in DOMAIN OfSnapshot /\ OfSnapshot[f] = Field(Count) /\ OfSnapshot[f].type = Count
  <2>1. Field(Count).type = Count
    BY DEF Field
  <2>2. \A f \in {"pending_triggers_count", "pending_human_ops_count", "pending_mandate_patches_count"} :
           f \in DOMAIN OfSnapshot /\ OfSnapshot[f] = Field(Count)
    BY DEF OfSnapshot
  <2> QED BY <2>1, <2>2
<1>4. ASSUME NEW f \in {"pending_triggers_count", "pending_human_ops_count",
                         "pending_mandate_patches_count"}
      PROVE  w[f] = v[f]
  <2>1. f \in DOMAIN OfSnapshot /\ FieldFirm(OfSnapshot[f]) /\ Exact(OfSnapshot[f].type)
    BY <1>2, <1>3
  <2>2. <<w[f]>> = ReadOf(r, OfSnapshot, v, f)
    BY <1>1, <2>1
  <2> QED BY <1>1, <2>1, <2>2, FieldIsRead
<1>5. \A f \in {"parked", "is_never"} :
         f \in DOMAIN OfSnapshot /\ OfSnapshot[f].type = Flag /\ OfSnapshot[f].absent = <<FALSE>>
  <2>1. SnapshotFlag.type = Flag /\ SnapshotFlag.absent = <<FALSE>>
    BY DEF SnapshotFlag, Later, Default
  <2>2. \A f \in {"parked", "is_never"} : f \in DOMAIN OfSnapshot /\ OfSnapshot[f] = SnapshotFlag
    BY DEF OfSnapshot
  <2> QED BY <2>1, <2>2
<1>6. ASSUME NEW f \in {"parked", "is_never"} PROVE w[f] = v[f] \/ w[f] = FALSE
  <2>1. /\ f \in DOMAIN OfSnapshot /\ Exact(OfSnapshot[f].type)
        /\ OfSnapshot[f].absent = <<FALSE>>
    BY <1>2, <1>5
  <2>2. <<w[f]>> = ReadOf(r, OfSnapshot, v, f)
    BY <1>1, <2>1
  <2>3. w[f] = v[f] \/ <<w[f]>> = <<FALSE>>
    BY <1>1, <2>1, <2>2, FieldIsRead
  <2> QED BY <2>3
<1>7. /\ "tick" \in DOMAIN OfSnapshot /\ OfSnapshot["tick"].type = Count
      /\ OfSnapshot["tick"].absent = <<0>>
  BY DEF OfSnapshot, SnapshotCount, Later, Default
<1>8. w["tick"] = v["tick"] \/ w["tick"] = 0
  <2>1. PICK f \in DOMAIN OfSnapshot : f = "tick"
    BY <1>7
  <2>2. <<w[f]>> = ReadOf(r, OfSnapshot, v, f)
    BY <1>1
  <2>3. Exact(OfSnapshot[f].type) /\ OfSnapshot[f].absent = <<0>>
    BY <1>2, <1>7, <2>1
  <2>4. w[f] = v[f] \/ <<w[f]>> = OfSnapshot[f].absent
    BY <1>1, <2>2, <2>3, FieldIsRead
  <2> QED BY <2>1, <2>3, <2>4
<1>9. /\ w["pending_triggers_count"] = v["pending_triggers_count"]
      /\ w["pending_human_ops_count"] = v["pending_human_ops_count"]
      /\ w["pending_mandate_patches_count"] = v["pending_mandate_patches_count"]
  BY <1>4
<1>10. /\ w["parked"] = v["parked"] \/ w["parked"] = FALSE
       /\ w["is_never"] = v["is_never"] \/ w["is_never"] = FALSE
  BY <1>6
<1> QED BY <1>8, <1>9, <1>10 DEF Quiescent

\* All that is carried over is read as it was, but the cycle in flight.
LEMMA CarryoverRead ==
    ASSUME DataClosed, NEW v \in Carryover.values, NEW r \in Release, NEW w,
           Carryover.read[Carryover.write[r][v]] = <<w>>
    PROVE  SignalsOf(w) = SignalsOf(v)
<1>1. /\ v \in Assigned(OfCarryover) /\ w \in Assigned(OfCarryover)
      /\ \A f \in DOMAIN OfCarryover : <<w[f]>> = ReadOf(r, OfCarryover, v, f)
  <2>1. Carryover.values = Assigned(OfCarryover) /\ StructReads(OfCarryover, Carryover)
    BY CarryoverSound
  <2> QED BY <2>1, StructRead
<1>2. /\ FieldFirm(Field(Vec(HumanOp))) /\ FieldFirm(Field(Vec(MandatePatch)))
      /\ FieldFirm(Field(Vec(Trigger))) /\ FieldFirm(Field(Vec(AgentRef)))
      /\ FieldFirm(Field(Opt(Text))) /\ FieldFirm(Field(Opt(OutputId)))
      /\ FieldFirm(Field(SchedulerCursor)) /\ FieldFirm(Field(Count))
  <2>1. /\ FieldFirm(Field(Vec(HumanOp))) /\ FieldFirm(Field(Vec(MandatePatch)))
    BY JsonField, FirmField DEF HumanOp, MandatePatch
  <2>2. FieldFirm(Field(Vec(Trigger))) /\ FieldFirm(Field(Vec(AgentRef)))
    BY TriggerFirm, AgentRefFirm, FirmLists
  <2> QED BY <2>1, <2>2, Leaves, NewtypesFirm, HandlesFirm, FirmOptions, FirmField
<1>3. \A f \in DOMAIN OfCarryover \ {"in_flight"} : FieldFirm(OfCarryover[f])
  BY <1>2 DEF OfCarryover
<1>4. \A f \in DOMAIN OfCarryover \ {"in_flight"} : w[f] = v[f]
  BY <1>1, <1>3, FieldIsRead DEF FieldFirm
<1>5. v \in [DOMAIN OfCarryover -> Data] /\ w \in [DOMAIN OfCarryover -> Data]
  BY <1>1 DEF Assigned
<1> QED BY <1>4, <1>5 DEF SignalsOf

\* The same of an agent's input and of a seed's.
LEMMA InputRead ==
    ASSUME DataClosed, NEW v \in AgentInput.values, NEW r \in Release, NEW w,
           AgentInput.read[AgentInput.write[r][v]] = <<w>>
    PROVE  Conservative("AgentInput", v, w)
<1>1. v \in Assigned(OfInput) /\ \A f \in DOMAIN OfInput : <<w[f]>> = ReadOf(r, OfInput, v, f)
  <2>1. AgentInput.values = Assigned(OfInput) /\ StructReads(OfInput, AgentInput)
    BY AgentInputSound
  <2> QED BY <2>1, StructRead
<1>2. \A f \in {"mandate", "carryover"} :
         /\ f \in DOMAIN OfInput /\ f \in Written(r, OfInput, v)
         /\ v[f] \in OfInput[f].type.values
         /\ OfInput[f].type.read[OfInput[f].type.write[r][v[f]]] = <<w[f]>>
  <2>1. \A f \in {"mandate", "carryover"} :
           f \in DOMAIN OfInput /\ ~OfInput[f].sparse /\ ~OfInput[f].later
    BY DEF OfInput, Field
  <2>2. \A f \in {"mandate", "carryover"} :
           f \in Written(r, OfInput, v) /\ v[f] \in OfInput[f].type.values
    BY <1>1, <2>1 DEF Written, Assigned
  <2> QED BY <1>1, <2>1, <2>2 DEF ReadOf
<1>3. OfInput["mandate"].type = Mandate /\ OfInput["carryover"].type = Opt(Carryover)
  BY DEF OfInput, Field
<1>4. NoMoreTools(w["mandate"], v["mandate"])
  BY <1>2, <1>3, ToolsRead
<1>5. \/ v["carryover"] = <<>> /\ w["carryover"] = <<>>
      \/ \E x \in Carryover.values, y \in Carryover.values :
            /\ v["carryover"] = <<x>> /\ w["carryover"] = <<y>>
            /\ Carryover.read[Carryover.write[r][x]] = <<y>>
  <2> DEFINE vc == v["carryover"]
             wc == w["carryover"]
  <2>1. vc \in Opt(Carryover).values /\ Opt(Carryover).read[Opt(Carryover).write[r][vc]] = <<wc>>
    BY <1>2, <1>3
  <2>2. Carries(Carryover) /\ Solid(Carryover)
    BY CarryoverSound DEF Sound
  <2> HIDE DEF vc, wc
  <2>3. OptRead(Carryover, r, vc, wc)
    BY <2>1, <2>2, OptReads
  <2> QED BY <2>3 DEF OptRead, vc, wc
<1>6. \/ v["carryover"] = <<>> /\ w["carryover"] = <<>>
      \/ \E x, y : v["carryover"] = <<x>> /\ w["carryover"] = <<y>> /\ SignalsOf(y) = SignalsOf(x)
  <2>1. ASSUME NEW x \in Carryover.values, NEW y, v["carryover"] = <<x>>, w["carryover"] = <<y>>,
               Carryover.read[Carryover.write[r][x]] = <<y>>
        PROVE  SignalsOf(y) = SignalsOf(x)
    BY <2>1, CarryoverRead
  <2> QED BY <1>5, <2>1
<1>7. /\ Len(w["carryover"]) = Len(v["carryover"])
      /\ w["carryover"] # <<>> =>
            SignalsOf(w["carryover"][1]) = SignalsOf(v["carryover"][1])
  BY <1>6
<1> QED BY <1>4, <1>7 DEF Conservative

LEMMA SeedInputRead ==
    ASSUME DataClosed, NEW v \in BuildSeedInput.values, NEW r \in Release, NEW w,
           BuildSeedInput.read[BuildSeedInput.write[r][v]] = <<w>>
    PROVE  Conservative("BuildSeedInput", v, w)
<1>1. /\ v \in Assigned(OfSeedInput)
      /\ \A f \in DOMAIN OfSeedInput : <<w[f]>> = ReadOf(r, OfSeedInput, v, f)
  <2>1. BuildSeedInput.values = Assigned(OfSeedInput) /\ StructReads(OfSeedInput, BuildSeedInput)
    BY SeedInputsSound
  <2> QED BY <2>1, StructRead
<1>2. /\ "mandate" \in DOMAIN OfSeedInput /\ OfSeedInput["mandate"].type = Mandate
      /\ ~OfSeedInput["mandate"].sparse /\ ~OfSeedInput["mandate"].later
  BY DEF OfSeedInput, Field
<1>3. v["mandate"] \in Mandate.values /\ Mandate.read[Mandate.write[r][v["mandate"]]] = <<w["mandate"]>>
  BY <1>1, <1>2 DEF ReadOf, Written, Assigned
<1>4. NoMoreTools(w["mandate"], v["mandate"])
  BY <1>3, ToolsRead
<1>5. FieldFirm(Field(Vec(HumanOp))) /\ FieldFirm(Field(Vec(Trigger)))
  BY JsonField, TriggerFirm, FirmField, FirmLists DEF HumanOp
<1>6. \A f \in {"triggers", "human_ops"} : f \in DOMAIN OfSeedInput /\ FieldFirm(OfSeedInput[f])
  BY <1>5 DEF OfSeedInput
<1>7. \A f \in {"triggers", "human_ops"} : w[f] = v[f]
  BY <1>1, <1>6, FieldIsRead DEF FieldFirm
<1> QED BY <1>4, <1>7 DEF Conservative

\* Whatever type it is.
LEMMA ReadConservatively ==
    ASSUME DataClosed, NEW n \in DOMAIN Durable, NEW v \in Durable[n].values, NEW r \in Release,
           NEW w, Durable[n].read[Durable[n].write[r][v]] = <<w>>
    PROVE  Conservative(n, v, w)
<1>1. CASE n = "AgentSnapshot"
  <2>1. Durable[n] = AgentSnapshot
    BY <1>1 DEF Durable
  <2> QED BY <1>1, <2>1, SnapshotRead DEF Conservative
<1>2. CASE n = "AgentInput"
  <2>1. Durable[n] = AgentInput
    BY <1>2 DEF Durable
  <2> QED BY <1>2, <2>1, InputRead
<1>3. CASE n = "BuildSeedInput"
  <2>1. Durable[n] = BuildSeedInput
    BY <1>3 DEF Durable
  <2> QED BY <1>3, <2>1, SeedInputRead
<1>4. CASE n \notin {"AgentSnapshot", "AgentInput", "BuildSeedInput"}
  BY <1>4 DEF Conservative
<1> QED BY <1>1, <1>2, <1>3, <1>4

-----------------------------------------------------------------------------
(* The theorems.                                                           *)

\* The payload was written, by the current release if it says so.
WrittenOnce ==
    \E r \in Release :
        wire = Durable[type].write[r][written] /\ (writer = "current" => r = Current)

\* What is held is a value of the type, and once it has been read all of it is kept;
\* what is written can be read; and what an older release wrote was read safely.
PayloadInv ==
    /\ type \in DOMAIN Durable /\ reads \in Nat /\ at \in {"held", "written"}
    /\ value \in Durable[type].values /\ written \in Durable[type].values
    /\ reads > 0 => Durable[type].kept[value] = value
    /\ at = "written" => value = written /\ WrittenOnce
    /\ at = "held" /\ writer = "older" => Conservative(type, written, value)

LEMMA OlderReleases == Older \subseteq Release
BY DEF Older, Release

LEMMA PayloadInitInv == ASSUME DataClosed, PInit PROVE PayloadInv
<1>1. type \in DOMAIN Durable
  BY DEF PInit, HeldOneOf
<1>2. value \in Durable[type].values /\ written = value /\ reads = 0 /\ at = "held" /\ writer = "current"
  BY <1>1 DEF PInit, HeldOneOf
<1> HIDE DEF Durable
<1> QED BY <1>1, <1>2 DEF PayloadInv

\* Each step.
LEMMA StoredStep ==
    ASSUME PayloadInv, NEW r \in Release, NEW by, Stored(r, by), by = "current" => r = Current
    PROVE  PayloadInv'
<1>1. /\ type' = type /\ reads' = reads /\ value' = value /\ written' = value
      /\ at' = "written" /\ writer' = by /\ wire' = Durable[type].write[r][value]
  BY DEF Stored
<1>2. WrittenOnce'
  BY <1>1 DEF WrittenOnce
<1> QED BY <1>1, <1>2 DEF PayloadInv

\* What is read is a value of the type.
LEMMA ReadStep ==
    ASSUME DataClosed, PayloadInv, Read
    PROVE  /\ PayloadInv' /\ at' = "held"
           /\ writer = "current" => value' = Durable[type].kept[written]
<1> DEFINE c == Durable[type]
<1>1. PICK r \in Release : wire = c.write[r][written] /\ (writer = "current" => r = Current)
  BY DEF PayloadInv, Read, WrittenOnce
<1>2. Carries(c) /\ written \in c.values /\ type \in DOMAIN Durable
  BY EveryTypeCarries DEF PayloadInv
<1>3. PICK w \in c.values : c.kept[w] = w /\ c.read[c.write[r][written]] = <<w>>
  BY <1>2 DEF Carries
<1>4. c.read[wire] = <<w>>
  BY <1>1, <1>3
<1>5. at' = "held" /\ value' = w
  BY <1>4 DEF Read
<1>6. type' = type /\ writer' = writer /\ written' = written /\ reads' = reads + 1 /\ reads \in Nat
  BY DEF Read, PayloadInv
<1>7. Conservative(type, written, w)
  BY <1>2, <1>3, ReadConservatively
<1>8. ASSUME writer = "current" PROVE w = c.kept[written]
  <2>1. c.read[c.write[Current][written]] = <<c.kept[written]>>
    BY <1>2 DEF Carries
  <2>2. c.read[c.write[Current][written]] = <<w>>
    BY <1>1, <1>3, <1>8
  <2> HIDE DEF c
  <2> QED BY <2>1, <2>2
<1>9. PayloadInv'
  <2>1. c' = c
    BY <1>6 DEF Durable
  <2>2. Conservative(type, written, value)'
    BY <1>5, <1>6, <1>7 DEF Conservative, Quiescent, NoMoreTools, SignalsOf
  <2> QED BY <1>2, <1>3, <1>5, <1>6, <2>1, <2>2 DEF PayloadInv
<1> QED BY <1>5, <1>8, <1>9

LEMMA PayloadStep == ASSUME DataClosed, PayloadInv, [PNext]_pvars PROVE PayloadInv'
<1>1. CASE Write
  BY <1>1, StoredStep, CurrentIsRelease DEF Write
<1>2. CASE WriteOlder
  BY <1>2, StoredStep, OlderReleases DEF WriteOlder
<1>3. CASE Read
  BY <1>3, ReadStep
<1>4. CASE UNCHANGED pvars
  BY <1>4 DEF pvars, PayloadInv, WrittenOnce, Conservative, Quiescent, NoMoreTools, SignalsOf
<1> QED BY <1>1, <1>2, <1>3, <1>4 DEF PNext

\* Every type's values are held and read as such by whoever has the payload, for any
\* values, number of reads and order of releases (DurablePayloads' PSpec).
THEOREM PayloadInvariant == ASSUME DataClosed PROVE PSpec => []PayloadInv
<1>1. PInit => PayloadInv
  BY PayloadInitInv
<1>2. PayloadInv /\ [PNext]_pvars => PayloadInv'
  BY PayloadStep
<1> QED BY <1>1, <1>2, PTL DEF PSpec

\* What any of the older releases wrote is read, and read as what is safe (the
\* serde defaults of mandate.rs and workflow.rs).
THEOREM OlderIsReadConservatively == ASSUME DataClosed PROVE PSpec => []OlderIsConservative
<1>1. PayloadInv => OlderIsConservative
  BY DEF PayloadInv, OlderIsConservative
<1> QED BY <1>1, PayloadInvariant, PTL

\* What the current release writes is read as it was written but for the
\* microseconds of durations, which are lost only once (the round trips of
\* every durable type).
THEOREM PayloadsAreCarried == ASSUME DataClosed PROVE PSpec => CarriedUnchanged
<1>1. ASSUME PayloadInv, [PNext]_pvars, at = "written", writer = "current", ~UNCHANGED pvars
      PROVE  /\ at' = "held"
             /\ value' = IF reads > 0 THEN written ELSE Durable[type].kept[written]
  <2>1. Read
    BY <1>1 DEF PNext, Write, WriteOlder, Stored
  <2>2. at' = "held" /\ value' = Durable[type].kept[written]
    BY <1>1, <2>1, ReadStep
  <2>3. reads > 0 => Durable[type].kept[written] = written
    BY <1>1 DEF PayloadInv
  <2> QED BY <2>2, <2>3
<1>2. PayloadInv /\ [PNext]_pvars =>
         [at = "written" /\ writer = "current" =>
            /\ at' = "held"
            /\ value' = IF reads > 0 THEN written ELSE Durable[type].kept[written]]_pvars
  BY <1>1
<1> QED BY <1>2, PayloadInvariant, PTL DEF PSpec, CarriedUnchanged

=============================================================================

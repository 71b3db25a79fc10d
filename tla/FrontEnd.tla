------------------------------ MODULE FrontEnd ------------------------------
(***************************************************************************)
(* The API servers and their connection to the engine: generate() and its  *)
(* output_handler (vllm/v1/engine/async_llm.py), the output processor and  *)
(* the collectors of the single calls (output_processor.py), the           *)
(* detokenizer that counts unmasked tokens (detokenizer.py), the sockets   *)
(* (core_client.py, and process_input_sockets_async and                    *)
(* process_output_sockets of core.py).                                     *)
(*                                                                         *)
(* The engine behind the sockets is module RequestService, which           *)
(* EngineCore implements, and it may fail: run_engine_core then sends      *)
(* ENGINE_CORE_DEAD to every server.  An asyncio task runs alone between   *)
(* two awaits, so an action is what a task does from one to the next.      *)
(* One prompt gives one request (n = 1) and request ids are unique.        *)
(***************************************************************************)
EXTENDS Integers, FiniteSets, SequencesExt, FiniteSetsExt

CONSTANTS
    Requests, None, output_length, denoise_block_size, max_num_unfinished_requests,
    NumServers,    \* api_server_count
    home,          \* client_index of each request
    output_kind,   \* "DELTA", "CUMULATIVE" or "FINAL_ONLY"
    chunk_size     \* VLLM_V1_OUTPUT_PROC_CHUNK_SIZE

Servers == 1 .. NumServers

ASSUME FrontEndAssumption ==
    /\ NumServers \in Nat \ {0} /\ chunk_size \in Nat \ {0}
    /\ home \in [Requests -> Servers]
    /\ output_kind \in [Requests -> {"DELTA", "CUMULATIVE", "FINAL_ONLY"}]

VARIABLES
    phase, waiting, progress,   \* the engine: see RequestService
    engine,          \* "running" or "dead"
    input_socket,    \* server -> messages to the engine
    input_queue,
    output_socket    \* server -> messages from the engine

VARIABLES
    engine_dead,     \* server -> resources.engine_dead
    outputs_queue,   \* server -> messages the output_handler has not taken
    rest,            \* server -> the outputs of its current message still to process
    handler,         \* server -> "running" or "done": output_handler
    call,            \* request -> state of its generate()
    registered,      \* keys of OutputProcessor.request_states
    unmasked,        \* num_unmasked_tokens of each detokenizer
    collector,       \* RequestOutputCollector.output
    delivered        \* tokens that the caller of generate() has been given

engineVars == <<phase, waiting, progress>>
serverVars == <<engine_dead, outputs_queue, rest, handler>>
callVars == <<call, registered, unmasked, collector, delivered>>

vars == <<engineVars, engine, input_socket, input_queue, output_socket,
          serverVars, callVars>>

Engine == INSTANCE RequestService

Add(r) == [type |-> "ADD", req |-> r]
AbortOf(r) == [type |-> "ABORT", req |-> r]

\* EngineCoreOutput, EngineCoreOutputs and ENGINE_CORE_DEAD.
Output(r, n, f) == [req |-> r, tokens |-> n, finished |-> f]
Outputs(S) == [type |-> "outputs", outputs |-> S]
EngineCoreDead == [type |-> "dead", outputs |-> {}]

\* What a collector holds.
Item(n, f) == [type |-> "output", tokens |-> n, finished |-> f]
Error(e) == [type |-> e, tokens |-> 0, finished |-> FALSE]

Init ==
    /\ Engine!Init
    /\ engine = "running"
    /\ input_socket = [s \in Servers |-> <<>>]
    /\ input_queue = <<>>
    /\ output_socket = [s \in Servers |-> <<>>]
    /\ engine_dead = [s \in Servers |-> FALSE]
    /\ outputs_queue = [s \in Servers |-> <<>>]
    /\ rest = [s \in Servers |-> {}]
    /\ handler = [s \in Servers |-> "running"]
    /\ call = [r \in Requests |-> "new"]
    /\ registered = {}
    /\ unmasked = [r \in Requests |-> 0]
    /\ collector = [r \in Requests |-> None]
    /\ delivered = [r \in Requests |-> 0]

-----------------------------------------------------------------------------
(* generate().                                                             *)

Errored(s) == engine_dead[s] \/ handler[s] = "done"

Send(s, m) == input_socket' = [input_socket EXCEPT ![s] = Append(@, m)]

\* add_request: a dead engine is reported at once, and process_inputs may find the
\* request invalid (a ValueError); otherwise it is registered with the output
\* processor and sent, without an await in between.
Call(r) ==
    /\ call[r] = "new"
    /\ \/ /\ call' = [call EXCEPT ![r] = "failed"]
          /\ UNCHANGED <<engineVars, input_socket, registered>>
       \/ /\ ~Errored(home[r])
          /\ call' = [call EXCEPT ![r] = "streaming"]
          /\ registered' = registered \cup {r}
          /\ Engine!Submit(r)
          /\ Send(home[r], Add(r))
    /\ UNCHANGED <<engine, input_queue, output_socket, serverVars,
                   unmasked, collector, delivered>>

\* Faulty variant: the request is forgotten but the engine is not told.
ForgetOnly(r) ==
    /\ registered' = registered \ {r}
    /\ UNCHANGED input_socket

\* abort: the engine is told of a request that is still registered, unless it
\* is known to be dead.
abort(r) ==
    /\ registered' = registered \ {r}
    /\ IF r \in registered /\ ~engine_dead[home[r]]
       THEN Send(home[r], AbortOf(r)) ELSE UNCHANGED input_socket

\* The caller goes away while generate() waits for output.
Disconnect(r) ==
    /\ call[r] = "streaming"
    /\ call' = [call EXCEPT ![r] = "cancelled"]
    /\ abort(r)
    /\ UNCHANGED <<engineVars, engine, input_queue, output_socket, serverVars,
                   unmasked, collector, delivered>>

\* Faulty variant: a delta replaces what came before.
DeliveredLast(r, o) == o.tokens

\* What the caller has after output o: the deltas so far, or the last output.
DeliveredWith(r, o) ==
    IF output_kind[r] = "DELTA" THEN delivered[r] + o.tokens ELSE o.tokens

\* get and yield of an output; the call returns after the finished one.
Get(r) ==
    /\ call[r] = "streaming"
    /\ collector[r] # None /\ collector[r].type = "output"
    /\ collector' = [collector EXCEPT ![r] = None]
    /\ delivered' = [delivered EXCEPT ![r] = DeliveredWith(r, collector[r])]
    /\ call' = IF collector[r].finished THEN [call EXCEPT ![r] = "returned"] ELSE call
    /\ UNCHANGED <<engineVars, engine, input_socket, input_queue, output_socket,
                   serverVars, registered, unmasked>>

\* get raises what the output_handler has left.  EngineDeadError ends the call; so
\* does a ValueError, which generate() takes for a bad request and does not abort
\* ("abandoned": the engine may still have the request); any other error also
\* aborts the request.
GetRaises(r) ==
    /\ call[r] = "streaming"
    /\ collector[r] # None /\ collector[r].type # "output"
    /\ collector' = [collector EXCEPT ![r] = None]
    /\ call' = [call EXCEPT ![r] =
                  IF collector[r].type = "ValueError" THEN "abandoned" ELSE "failed"]
    /\ IF collector[r].type = "error" THEN abort(r) ELSE UNCHANGED <<registered, input_socket>>
    /\ UNCHANGED <<engineVars, engine, input_queue, output_socket, serverVars,
                   unmasked, delivered>>

-----------------------------------------------------------------------------
(* The tasks of a server that bring outputs in.                            *)

\* process_outputs_socket: after ENGINE_CORE_DEAD nothing follows.
ReceiveOutputs(s) ==
    /\ output_socket[s] # <<>>
    /\ LET m == Head(output_socket[s])
       IN  /\ output_socket' = [output_socket EXCEPT ![s] = Tail(@)]
           /\ engine_dead' = [engine_dead EXCEPT ![s] = @ \/ m.type = "dead"]
           /\ outputs_queue' = [outputs_queue EXCEPT ![s] = Append(@, m)]
    /\ UNCHANGED <<engineVars, engine, input_socket, input_queue, rest, handler, callVars>>

\* Faulty variant: the whole output so far, also for a stream of deltas.
MakeWholeOutput(o) ==
    LET finished == o.finished \/ unmasked[o.req] + o.tokens = output_length[o.req]
    IN  IF ~finished /\ output_kind[o.req] = "FINAL_ONLY" THEN None
        ELSE Item(unmasked[o.req] + o.tokens, finished)

\* make_request_output: None if only the final output is wanted.
MakeRequestOutput(o) ==
    LET r        == o.req
        complete == unmasked[r] + o.tokens = output_length[r]
        finished == o.finished \/ complete
    IN  IF ~finished /\ output_kind[r] = "FINAL_ONLY" THEN None
        ELSE Item(IF output_kind[r] = "DELTA" THEN o.tokens ELSE unmasked[r] + o.tokens,
                  finished)

\* Faulty variant: an output that has not been read yet is replaced.
PutReplacing(r, new) ==
    IF new = None THEN collector[r] ELSE new

\* RequestOutputCollector.put: an output that has not been read yet is merged
\* with the new one; deltas add up, whole outputs replace each other.
Put(r, new) ==
    LET old == collector[r]
    IN  IF new = None THEN old
        ELSE IF old = None THEN new
        ELSE IF old.type # "output" THEN old
        ELSE Item(IF output_kind[r] = "DELTA" THEN old.tokens + new.tokens ELSE new.tokens,
                  old.finished \/ new.finished)

\* The outputs that end their requests: the engine's last one, or the one with
\* the last token.
Finished(C) == {o \in C : o.finished \/ unmasked[o.req] + o.tokens = output_length[o.req]}

FreeFinished(C) == registered' = registered \ {o.req : o \in Finished(C)}

\* process_outputs for one chunk.  Outputs of requests that are not registered
\* are ignored.  A request that the detokenizer finds complete before the engine
\* does is aborted there; the ids go out in one message after the sleep between
\* chunks, here one each and at once.
ProcessOutputs(s, chunk) ==
    LET C       == {o \in chunk : o.req \in registered}
        toAbort == {o.req : o \in {x \in Finished(C) : ~x.finished}}
        touched == {o.req : o \in C}
        of(r)   == CHOOSE o \in C : o.req = r
    IN  /\ collector' = [r \in Requests |->
              IF r \in touched THEN Put(r, MakeRequestOutput(of(r))) ELSE collector[r]]
        /\ unmasked' = [r \in Requests |->
              IF r \in touched THEN unmasked[r] + of(r).tokens ELSE unmasked[r]]
        /\ FreeFinished(C)
        /\ input_socket' = IF engine_dead[s] THEN input_socket
              ELSE [input_socket EXCEPT ![s] =
                        @ \o SetToSeq({AbortOf(r) : r \in toAbort})]

cdiv(a, b) == (a + b - 1) \div b

\* The even split of the outputs into chunks of at most chunk_size.
Chunks(S) ==
    LET m == Cardinality(S)
    IN  {C \in SUBSET S : Cardinality(C) = cdiv(m, cdiv(m, chunk_size))}

\* One round of the output_handler up to its sleep between chunks: the next
\* chunk of the message at hand, or the first one of the next message.
HandleOutputs(s) ==
    /\ handler[s] = "running"
    /\ \/ rest[s] # {} /\ UNCHANGED outputs_queue
       \/ /\ rest[s] = {}
          /\ outputs_queue[s] # <<>> /\ Head(outputs_queue[s]).type = "outputs"
          /\ outputs_queue' = [outputs_queue EXCEPT ![s] = Tail(@)]
    /\ LET all == IF rest[s] # {} THEN rest[s] ELSE Head(outputs_queue[s]).outputs
       IN  \E C \in Chunks(all) :
              /\ ProcessOutputs(s, C)
              /\ rest' = [rest EXCEPT ![s] = all \ C]
    /\ UNCHANGED <<engineVars, engine, input_queue, output_socket, engine_dead, handler,
                   call, delivered>>

\* Faulty variant: only the calls with nothing to read are told.
TellIdleCalls(s, e) ==
    collector' = [r \in Requests |->
        IF r \in registered /\ home[r] = s /\ collector[r] = None THEN Error(e)
        ELSE collector[r]]

\* propagate_error: an output that has not been read yet is replaced.
PropagateError(s, e) ==
    collector' = [r \in Requests |->
        IF r \in registered /\ home[r] = s THEN Error(e) ELSE collector[r]]

HandlerEnds(s, e) ==
    /\ handler' = [handler EXCEPT ![s] = "done"]
    /\ PropagateError(s, e)
    /\ rest' = [rest EXCEPT ![s] = {}]
    /\ UNCHANGED <<engineVars, engine, input_socket, input_queue, output_socket,
                   engine_dead, call, registered, unmasked, delivered>>

\* get_output_async raises EngineDeadError.
HandlerLearnsOfDeath(s) ==
    /\ handler[s] = "running" /\ rest[s] = {}
    /\ outputs_queue[s] # <<>> /\ Head(outputs_queue[s]).type = "dead"
    /\ outputs_queue' = [outputs_queue EXCEPT ![s] = Tail(@)]
    /\ HandlerEnds(s, "dead")

\* Processing an output raises, a ValueError or something else, which ends the
\* handler as well.
HandlerRaises(s) ==
    /\ handler[s] = "running"
    /\ \/ rest[s] # {}
       \/ outputs_queue[s] # <<>> /\ Head(outputs_queue[s]).type = "outputs"
    /\ UNCHANGED outputs_queue
    /\ \E e \in {"error", "ValueError"} : HandlerEnds(s, e)

-----------------------------------------------------------------------------
(* The engine's side of the sockets, and the engine.                       *)

\* process_input_sockets_async: one message from every socket (gather); until the
\* last of them is there, those received are kept.
ReceiveInputs ==
    /\ engine = "running"
    /\ \A s \in Servers : input_socket[s] # <<>>
    /\ input_queue' = input_queue \o [s \in Servers |-> Head(input_socket[s])]
    /\ input_socket' = [s \in Servers |-> Tail(input_socket[s])]
    /\ UNCHANGED <<engineVars, engine, output_socket, serverVars, callVars>>

\* finish_requests: an unknown request is ignored.
FinishRequest(r) ==
    \/ Engine!Abort(r)
    \/ \E i \in DOMAIN waiting : waiting[i] = r /\ Engine!Drop(i)
    \/ phase[r] \notin {"admitted", "waiting"} /\ UNCHANGED engineVars

HandleInput ==
    /\ engine = "running" /\ input_queue # <<>>
    /\ LET m == Head(input_queue)
       IN  IF m.type = "ADD" THEN Engine!Admit(m.req) \/ Engine!Wait(m.req)
           ELSE FinishRequest(m.req)
    /\ input_queue' = Tail(input_queue)
    /\ UNCHANGED <<engine, input_socket, output_socket, serverVars, callVars>>

EngineAdmits ==
    /\ engine = "running"
    /\ Engine!AdmitOldest
    /\ UNCHANGED <<engine, input_socket, input_queue, output_socket, serverVars, callVars>>

EngineDrops ==
    /\ engine = "running"
    /\ \E i \in DOMAIN waiting : Engine!Drop(i)
    /\ UNCHANGED <<engine, input_socket, input_queue, output_socket, serverVars, callVars>>

\* The outputs of a step go to the servers the requests came from.
StepOutputs(S, n) ==
    {Output(r, 0, TRUE) : r \in Engine!InPhase("dropped")}
    \cup {Output(r, n[r], progress[r] + n[r] = output_length[r]) : r \in S}

EngineStep(S) ==
    /\ engine = "running"
    /\ \E n \in [S -> 1 .. denoise_block_size] :
          /\ Engine!Step(S, n)
          /\ LET for(s) == {o \in StepOutputs(S, n) : home[o.req] = s}
             IN  output_socket' = [s \in Servers |->
                    IF for(s) = {} THEN output_socket[s]
                    ELSE Append(output_socket[s], Outputs(for(s)))]
    /\ UNCHANGED <<engine, input_socket, input_queue, serverVars, callVars>>

\* A fatal error: whatever has been queued before is sent first.
EngineDies ==
    /\ engine = "running"
    /\ engine' = "dead"
    /\ output_socket' = [s \in Servers |-> Append(output_socket[s], EngineCoreDead)]
    /\ UNCHANGED <<engineVars, input_socket, input_queue, serverVars, callVars>>

-----------------------------------------------------------------------------
\* A step has results for somebody.
Productive(S) == S # {} \/ Engine!InPhase("dropped") # {}

Next ==
    \/ \E r \in Requests : Call(r) \/ Disconnect(r) \/ Get(r) \/ GetRaises(r)
    \/ \E s \in Servers : \/ ReceiveOutputs(s) \/ HandleOutputs(s)
                          \/ HandlerLearnsOfDeath(s) \/ HandlerRaises(s)
    \/ ReceiveInputs \/ HandleInput \/ EngineAdmits \/ EngineDrops
    \/ \E S \in SUBSET Requests : Productive(S) /\ EngineStep(S)
    \/ EngineDies

Spec == Init /\ [][Next]_vars

\* Event loops run their tasks, and the engine makes progress with every
\* request it has admitted (RequestsAnswered of EngineCore), admits when it has
\* room and reports what it has dropped.
Fairness ==
    /\ \A r \in Requests :
          /\ WF_vars(Get(r)) /\ WF_vars(GetRaises(r))
          /\ WF_vars(\E S \in SUBSET Requests : r \in S /\ EngineStep(S))
    /\ \A s \in Servers :
          /\ WF_vars(ReceiveOutputs(s)) /\ WF_vars(HandleOutputs(s))
          /\ WF_vars(HandlerLearnsOfDeath(s))
    /\ WF_vars(ReceiveInputs) /\ WF_vars(HandleInput) /\ WF_vars(EngineAdmits)
    /\ WF_vars(\E S \in SUBSET Requests :
                  Engine!InPhase("dropped") # {} /\ EngineStep(S))

FairSpec == Spec /\ Fairness

-----------------------------------------------------------------------------
TypeOK ==
    /\ phase \in [Requests -> Engine!Phases]
    /\ call \in [Requests -> {"new", "streaming", "returned", "cancelled", "failed",
                           "abandoned"}]
    /\ registered \subseteq {r \in Requests : call[r] # "new"}
    /\ engine \in {"running", "dead"}
    /\ \A s \in Servers :
          /\ engine_dead[s] \in BOOLEAN /\ handler[s] \in {"running", "done"}
          /\ engine_dead[s] => engine = "dead"
    /\ \A r \in Requests :
          /\ unmasked[r] \in 0 .. output_length[r]
          /\ delivered[r] \in 0 .. output_length[r]
          /\ collector[r] # None =>
                collector[r].type \in {"output", "dead", "error", "ValueError"}

\* Tokens of r on their way from the engine to the output processor.
InTransit(r) ==
    LET s == home[r]
        in(S) == MapThenSumSet(LAMBDA o : o.tokens, {o \in S : o.req = r})
    IN  FoldLeft(LAMBDA n, m : n + in(m.outputs), in(rest[s]),
                 outputs_queue[s] \o output_socket[s])

\* Whatever the engine has unmasked for a request reaches its detokenizer once:
\* the detokenizer, which decodes only when it has counted every token, lags
\* behind the engine by what is in the sockets, the queue and the current chunks.
\* What it has counted is with the caller or in the collector.
NothingLost ==
    \A r \in {x \in Requests : handler[home[x]] = "running"} :
        /\ r \in registered => unmasked[r] + InTransit(r) = progress[r]
        /\ output_kind[r] = "DELTA" /\ call[r] = "streaming" =>
              delivered[r] + (IF collector[r] = None THEN 0 ELSE collector[r].tokens)
                  = unmasked[r]

\* generate() returns only with the whole output, or with no token at all
\* because the request was dropped before it was admitted; slow readers, merged
\* outputs, chunks and an engine that dies later make no difference.
AnswersComplete ==
    \A r \in Requests :
        call[r] = "returned" =>
            \/ phase[r] = "answered" /\ delivered[r] = output_length[r]
            \/ phase[r] = "gone" /\ delivered[r] = 0

AbortUnderWay(r) ==
    \/ AbortOf(r) \in ToSet(input_queue)
    \/ AbortOf(r) \in ToSet(input_socket[home[r]])

\* The engine does not work for callers that have gone: when a call has ended and
\* the engine still has the request, an abort is on its way, unless the engine is
\* known to be dead.  The one exception is a call that a ValueError of the
\* output_handler has ended: generate() takes it for a bad request and sends no
\* abort, so the engine keeps the request; this happens only at a server whose
\* output_handler is over, which takes no more calls.  And no request is aborted
\* whose caller is still there.
AbortsExact ==
    \A r \in Requests :
        /\ /\ call[r] \in {"returned", "cancelled", "failed"}
           /\ phase[r] \in {"submitted", "waiting", "admitted"}
           /\ ~engine_dead[home[r]]
           => AbortUnderWay(r)
        /\ call[r] = "abandoned" => handler[home[r]] = "done"
        /\ AbortUnderWay(r) => call[r] \in {"cancelled", "failed"}

\* Every generate() call ends, with the output, a drop notice or an error, also
\* when the engine or the output_handler fails at the worst moment.
CallsEnd == \A r \in Requests : call[r] = "streaming" ~> call[r] # "streaming"

\* process_input_sockets_async: "Wait until any socket is ready".  A message in
\* one server's socket is read, whatever the other servers do.
ReadySocketsRead ==
    \A s \in Servers :
        input_socket[s] # <<>> ~> (input_socket[s] = <<>> \/ engine = "dead")

=============================================================================

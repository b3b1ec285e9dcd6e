------------------------------- MODULE OtlpShim -------------------------------
(***************************************************************************)
(* The OTLP shim of the agent: internal/otlpshim (shim.go, http.go,        *)
(* grpc.go, forwarder_path{a,b,c}.go).  Applications export over HTTP or   *)
(* gRPC; each export is decoded, counted and forwarded by its handler over *)
(* path A (gRPC to Core), B (JSON over the client's sendSignal) or C       *)
(* (protobuf over the client), and answered with success whatever the      *)
(* forwarder said.  Stop drains the listeners and closes the forwarder.    *)
(*                                                                         *)
(* A handler is a Sender of SendPath.  The shim's owner calls Start, then  *)
(* Stop; it also connects and closes the client, at any time.              *)
(***************************************************************************)
EXTENDS SendPath

CONSTANTS
    Setups        \* ways the agent sets up the shim and its client: the path,
                  \* the listeners with a port, the window, the state of the
                  \* client and the types it sent before, whether the agent
                  \* closes it, and, as a bound, how many exports arrive

ASSUME OtlpShimAssumption ==
    Setups \subseteq [path : {"A", "B", "C"}, ports : SUBSET {"http", "grpc"},
                      window : Nat, client : {"new", "open"}, before : SUBSET Types,
                      closes : BOOLEAN, exports : Nat]

VARIABLES
    setup,        \* the setup in use
    owner,        \* the owner's place: Start's and Stop's steps
    listening,    \* listeners that accept
    held,         \* listeners in the shim's fields httpSrv and grpcSrv
    client,       \* "new", "open" or "closed"
    closed,       \* the forwarder was closed
    via,          \* handler -> the listener it serves
    received,     \* payloads counted into traces_in, metrics_in, logs_in
    fwdErrs,      \* forward_errors
    delivered,    \* history: payloads handed to the network
    accepted      \* history: exports accepted

life == <<setup, owner, listening, held, client, closed>>
counts == <<received, fwdErrs, delivered>>
vars == <<sendVars, life, counts, via, accepted>>

Init ==
    /\ setup \in Setups /\ InitSend(setup.window, setup.before)
    /\ owner = "new" /\ listening = {} /\ held = {}
    /\ client = setup.client /\ closed = FALSE
    /\ via = [s \in Senders |-> "http"]
    /\ received = 0 /\ fwdErrs = 0 /\ delivered = 0 /\ accepted = 0

Active(lis) == {s \in Senders : pc[s] # "idle" /\ via[s] = lis}
Forwarding == {s \in Senders : pc[s] \in InSend \cup {"export", "proto"}}

-----------------------------------------------------------------------------
(* Start binds HTTP, then gRPC; the first that fails ends it with an       *)
(* error, and what was bound before stays.                                 *)
Bind(lis, next) ==
    /\ listening' = listening \cup {lis} /\ held' = held \cup {lis}
    /\ owner' = next

StartHTTP ==
    /\ owner = "new"
    /\ \/ "http" \in setup.ports /\ Bind("http", "grpc")
       \/ "http" \in setup.ports /\ owner' = "running" /\ UNCHANGED <<listening, held>>
       \/ "http" \notin setup.ports /\ owner' = "grpc" /\ UNCHANGED <<listening, held>>
    /\ UNCHANGED <<sendVars, counts, setup, client, closed, via, accepted>>

StartGRPC_Forgets ==
    /\ owner = "grpc"
    /\ \/ "grpc" \in setup.ports /\ Bind("grpc", "running")
       \/ owner' = "running" /\ held' = {} /\ UNCHANGED listening
    /\ UNCHANGED <<sendVars, counts, setup, client, closed, via, accepted>>

(* A listener without a port, and one that cannot bind, leave the fields   *)
(* as they are.                                                            *)
StartGRPC ==
    /\ owner = "grpc"
    /\ \/ "grpc" \in setup.ports /\ Bind("grpc", "running")
       \/ owner' = "running" /\ UNCHANGED <<listening, held>>
    /\ UNCHANGED <<sendVars, counts, setup, client, closed, via, accepted>>

(* Stop.  Shutdown refuses new requests and waits for the handlers, at     *)
(* most five seconds: it may return while some still run.                  *)
Stop ==
    /\ owner = "running"
    /\ owner' = "http"
    /\ listening' = IF "http" \in held THEN listening \ {"http"} ELSE listening
    /\ UNCHANGED <<sendVars, counts, setup, held, client, closed, via, accepted>>

(* Shutdown returned, or timed out; then gRPC's GracefulStop, which has no *)
(* timeout, refuses new calls.                                             *)
StopHTTP ==
    /\ owner = "http"
    /\ owner' = "drain"
    /\ listening' = IF "grpc" \in held THEN listening \ {"grpc"} ELSE listening
    /\ UNCHANGED <<sendVars, counts, setup, held, client, closed, via, accepted>>

(* GracefulStop returns when no call is left; the forwarder is closed.     *)
StopGRPC_Hasty ==
    /\ owner = "drain"
    /\ owner' = "stopped" /\ closed' = TRUE
    /\ UNCHANGED <<sendVars, counts, setup, listening, held, client, via, accepted>>

StopGRPC ==
    /\ owner = "drain" /\ ("grpc" \in held => Active("grpc") = {})
    /\ owner' = "stopped" /\ closed' = TRUE
    /\ UNCHANGED <<sendVars, counts, setup, listening, held, client, via, accepted>>

(* Connect and Close of the client.  Close leaves the session's flag up. *)
ConnectClient ==
    /\ client = "new" /\ client' = "open"
    /\ UNCHANGED <<sendVars, counts, setup, owner, listening, held, closed, via, accepted>>

CloseClient ==
    /\ setup.closes /\ client = "open" /\ client' = "closed"
    /\ UNCHANGED <<sendVars, counts, setup, owner, listening, held, closed, via, accepted>>

Established == client # "new"

Owner == StartHTTP \/ StartGRPC \/ Stop \/ StopHTTP \/ StopGRPC
         \/ ConnectClient \/ CloseClient

-----------------------------------------------------------------------------
(* The handlers.                                                           *)

(* An export arrives: makeOTLPHandler or Export begins. *)
Accept(s, lis, t) ==
    /\ pc[s] = "idle" /\ lis \in listening /\ accepted < setup.exports
    /\ accepted' = accepted + 1
    /\ via' = [via EXCEPT ![s] = lis] /\ sig' = [sig EXCEPT ![s] = Signal(t)]
    /\ Goto(s, "decode")
    /\ UNCHANGED <<cacheVars, tunerVars, samples, dropped, life, counts>>

(* A wrong method, an unreadable body or one that does not decode is       *)
(* refused; a request without items counts nothing and forwards nothing.   *)
Reject(s) ==
    /\ pc[s] = "decode" /\ Goto(s, "idle")
    /\ UNCHANGED <<cacheVars, tunerVars, samples, dropped, sig, life, counts, via, accepted>>

Failed_Uncounted(s) == Goto(s, "idle") /\ UNCHANGED <<fwdErrs, delivered>>

(* The forwarder returns to recv*, and the handler answers 200, or an      *)
(* empty response: an error is counted and stays inside.                   *)
Failed(s) == Goto(s, "idle") /\ fwdErrs' = fwdErrs + 1 /\ UNCHANGED delivered
Done(s) == Goto(s, "idle") /\ delivered' = delivered + 1 /\ UNCHANGED fwdErrs

(* recvTraces, recvMetrics, recvLogs: count, then forward.  Path B enters  *)
(* sendSignal, which without a session is an error.                        *)
Receive(s) ==
    /\ pc[s] = "decode" /\ received' = received + 1
    /\ CASE setup.path = "A" -> Goto(s, "export") /\ UNCHANGED <<seen, sig, fwdErrs, delivered>>
         [] setup.path = "C" -> Goto(s, "proto") /\ UNCHANGED <<seen, sig, fwdErrs, delivered>>
         [] setup.path = "B" /\ Established ->
              Extract(s) /\ Goto(s, "load") /\ UNCHANGED <<fwdErrs, delivered>>
         [] OTHER -> Failed(s) /\ UNCHANGED <<seen, sig>>
    /\ UNCHANGED <<entries, cache, refreshers, blocked, reblocked, tunerVars, samples,
                   dropped, life, via, accepted>>

(* Core answers the call of path A, with a result or an error. *)
CoreAnswers(s) ==
    /\ pc[s] = "export" /\ ~closed
    /\ Done(s) \/ Failed(s)
    /\ UNCHANGED <<cacheVars, tunerVars, samples, dropped, sig, received, life, via, accepted>>

CallFails_Untimed(s) ==
    /\ pc[s] = "export" /\ closed /\ Failed(s)
    /\ UNCHANGED <<cacheVars, tunerVars, samples, dropped, sig, received, life, via, accepted>>

(* CallTimeout passes, or the connection is closed under the call. *)
CallFails(s) ==
    /\ pc[s] = "export" /\ Failed(s)
    /\ UNCHANGED <<cacheVars, tunerVars, samples, dropped, sig, received, life, via, accepted>>

(* transmit of path B, sendProtoEnvelope and transmitWithFlags of path C:  *)
(* the write succeeds only on an open client.                              *)
Transmit(s) ==
    /\ pc[s] \in {"transmit", "proto"}
    /\ (client = "open" /\ Done(s)) \/ Failed(s)
    /\ UNCHANGED <<cacheVars, tunerVars, samples, dropped, sig, received, life, via, accepted>>

Classify(s) == (Load(s) \/ Hit(s) \/ Miss(s) \/ Shape(s))
               /\ UNCHANGED <<life, counts, via, accepted>>

Handler(s) ==
    \/ \E lis \in setup.ports, t \in Types : Accept(s, lis, t)
    \/ Reject(s) \/ Receive(s)
    \/ CoreAnswers(s) \/ CallFails(s) \/ Classify(s) \/ Transmit(s)

Next ==
    \/ Owner
    \/ \E s \in Senders : Handler(s)
    \/ CacheSteps /\ UNCHANGED <<life, counts, via, accepted>>
    \/ Established /\ ClientLoops /\ UNCHANGED <<life, counts, via, accepted>>

Spec == Init /\ [][Next]_vars

(* Goroutines that can run do; so does a call's timeout.  Nothing makes    *)
(* applications export, Core answer or the owner call Start or Stop.       *)
FairSpec ==
    /\ Spec
    /\ WF_vars(StopHTTP) /\ WF_vars(StopGRPC)
    /\ \A s \in Senders :
         /\ WF_vars(Reject(s) \/ Receive(s))
         /\ WF_vars(CallFails(s))
         /\ WF_vars(Classify(s) \/ Transmit(s))
    /\ WF_vars((\E i \in refreshers : Refresh(i)) /\ UNCHANGED <<life, counts, via, accepted>>)

-----------------------------------------------------------------------------
(* The client's tiers, references and counters keep their types while      *)
(* handlers, refreshers and the tuner run; see SendTypeOK.                 *)
TypeOK ==
    /\ SendTypeOK
    /\ owner \in {"new", "grpc", "running", "http", "drain", "stopped"}
    /\ listening \subseteq setup.ports /\ held \subseteq setup.ports
    /\ \A n \in {received, fwdErrs, delivered, accepted} : n \in Nat
    /\ via \in [Senders -> {"http", "grpc"}]
    /\ pc \in [Senders -> InSend \cup {"idle", "decode", "export", "proto"}]

(* Every payload counted by recv* is handed to the network, deferred by    *)
(* the client (its dropped counter), counted in forward_errors, or still   *)
(* in its handler: the applications are told nothing, so these counters    *)
(* are the only trace of a loss.                                           *)
Accounted == received = delivered + dropped + fwdErrs + Cardinality(Forwarding)

(* Stop closes the forwarder only after the last gRPC call: none of them   *)
(* is forwarded on a closed connection.                                    *)
GrpcDrainedFirst == closed => Active("grpc") = {}

(* After Stop nothing accepts exports, also when Start had failed after    *)
(* binding the first listener.                                             *)
NothingListening == owner = "stopped" => listening = {}

(* The window never exceeds the one the agent configured, if that is at    *)
(* least the tuner's floor of four: the tuner scales down from the ceiling *)
(* it read, and back up to it at most.                                     *)
CeilingKept == setup.window >= MinWindow => maxInflight <= setup.window

(* Stop returns: GracefulStop's wait ends because CallTimeout bounds the   *)
(* calls to Core and every other step of a handler ends by itself.         *)
StopReturns == owner = "http" ~> owner = "stopped"

-----------------------------------------------------------------------------
(* The inductive invariant behind the safety properties.                   *)

(* What accepts is held by the shim until Stop has dealt with it, and a    *)
(* gRPC handler needs a held gRPC listener.                                *)
LifeInv ==
    /\ setup \in Setups
    /\ closed \in BOOLEAN /\ (closed => owner = "stopped")
    /\ owner \in {"new", "grpc", "running"} => listening \subseteq held
    /\ owner = "http" => listening \subseteq held \ {"http"}
    /\ owner \in {"drain", "stopped"} => listening = {}
    /\ \A s \in Active("grpc") : "grpc" \in held

(* An entry was claimed for a refresh once if its flag is up, and never    *)
(* otherwise; a sender that waited for a key finds it in the cache, or is  *)
(* still waiting.                                                          *)
CacheInv ==
    /\ \A i \in DOMAIN entries :
         entries[i].refreshes = IF entries[i].refreshing THEN 1 ELSE 0
    /\ \A s \in Senders : pc[s] = "loaded" => sig[s].entry \in DOMAIN entries
    /\ \A s \in Senders, k \in Keys :
         <<s, k>> \in blocked =>
            k \in DOMAIN cache \/ (pc[s] = "fresh" /\ sig[s].key = k)
    /\ reblocked = FALSE

TunerInv == ceiling = Ceiling(setup.window) /\ CeilingKept

IndInv ==
    /\ TypeOK /\ LifeInv /\ GrpcDrainedFirst /\ CacheInv
    /\ TunerInv /\ Accounted /\ NoDropWithoutEvidence
=============================================================================

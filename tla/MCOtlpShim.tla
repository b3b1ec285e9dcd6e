----------------------------- MODULE MCOtlpShim -----------------------------
(* Path A with both listeners, path C with windows around the tuner's      *)
(* floor, and path B, whose senders share the classifier's cache.          *)
EXTENDS OtlpShim, TLC

CONSTANTS h1, h2

Both == {"http", "grpc"}
Setup(p, lis, w, conn, t, c, n) ==
    [path |-> p, ports |-> lis, window |-> w, client |-> conn, before |-> t,
     closes |-> c, exports |-> n]

AgentSetups ==
    {Setup("A", Both, 4, "open", {}, FALSE, 3),
     Setup("B", {"grpc"}, 4, "open", Types, FALSE, 3),
     Setup("B", {"http"}, 4, "new", {}, TRUE, 2)}
    \cup {Setup("C", Both, w, "new", {}, TRUE, 2) : w \in {0, 2, 20}}

(* As a byte, -1 is 255. *)
LLMAnswers == {-1}
=============================================================================

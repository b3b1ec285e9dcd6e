----------------------------- MODULE TransportV3 -----------------------------
(***************************************************************************)
(* The V3 client: type ClientV3 of                                         *)
(* entropyops-helper/internal/transport/agenticudp_v3.go.  It embeds the   *)
(* V2 client and keeps its session, inflight map, window, keepalive and    *)
(* retransmit loops (Transport); it replaces the send path, which splits a *)
(* large payload into fragments instead of asking the caller for chunks,   *)
(* and the ackLoop, which also understands a SACK, the acknowledgement of  *)
(* several datagrams in one packet.                                        *)
(*                                                                         *)
(* A fragmenting goroutine is one of Bulk: every fragment passes through   *)
(* waitForInflightWindow, transmission and insert like a chunk of V2.  The *)
(* other senders send single datagrams, of V3 or through the methods of    *)
(* the embedded client.  The server is external: the one of this           *)
(* repository drops packets of version 3.                                  *)
(***************************************************************************)
EXTENDS Transport

CONSTANTS
    MaxFragments,   \* fragments of the longest message
    MaxMessages,    \* bound: messages of a session
    MaxReplies      \* bound: packets the server sends

Message == 1 .. MaxMessages
Fragment(m, i, n) == [msg |-> m, frag |-> i, total |-> n]
Fragments ==
    [msg : Message, frag : 0 .. MaxFragments - 1, total : 1 .. MaxFragments]

ASSUME TransportV3Assumption ==
    /\ MaxFragments \in Nat \ {0} /\ MaxMessages \in Nat /\ MaxReplies \in Nat
    /\ Fragments \subseteq Payloads

VARIABLES
    msgCounter,     \* last message id drawn
    sending,        \* the messages each goroutine is sending, at most one
    sentOK,         \* history: fragments of the messages whose send returned nil
    sackBuf,        \* replies the server gathers for its next SACK
    sacks,          \* SACKs on their way to the client
    sacking         \* rest of the SACK ackLoopV3 is working through

sendV3 == <<msgCounter, sending, sentOK>>
serverV3 == <<sackBuf, sacks>>
varsV3 == <<vars, sendV3, serverV3, sacking>>

InitV3 ==
    /\ Init
    /\ msgCounter = 0 /\ sending = [s \in Senders |-> {}] /\ sentOK = {}
    /\ sackBuf = {} /\ sacks = {} /\ sacking = {}

-----------------------------------------------------------------------------
(* The send path.  sendSignalV3's tier choice and shaping are those of V2. *)

SetSending(s, ms) == sending' = [sending EXCEPT ![s] = ms]

(* transmitFragmentedV3 begins: the message gets its id.  The entry made   *)
(* for it in inflightMsgs is left out: nothing reads or removes it.        *)
BeginMessage(s) ==
    /\ s \in Bulk /\ pc[s] = "idle" /\ Established /\ sending[s] = {}
    /\ msgCounter < MaxMessages
    /\ msgCounter' = msgCounter + 1
    /\ \E t \in SendTiers, st \in Streams, n \in 2 .. MaxFragments :
          SetSending(s, {[id |-> msgCounter + 1, tier |-> t, stream |-> st,
                          next |-> 0, total |-> n]})
    /\ UNCHANGED <<vars, sentOK, serverV3, sacking>>

(* The next fragment waits for the window ... *)
BeginFragment(s) ==
    /\ \E m \in sending[s] : m.next < m.total
    /\ BeginChunk(s)
    /\ UNCHANGED <<sendV3, serverV3, sacking>>

(* ... until it opens, or the deadline the fragments share passes: the     *)
(* message is broken off, and the fragments already sent stay tracked.     *)
FragmentAdmitted(s) == WindowOpen(s) /\ UNCHANGED <<sendV3, serverV3, sacking>>

FragmentStalled_Retries(s) ==
    WindowStalled(s) /\ UNCHANGED <<sendV3, serverV3, sacking>>

FragmentStalled(s) ==
    /\ WindowStalled(s) /\ SetSending(s, {})
    /\ UNCHANGED <<msgCounter, sentOK, serverV3, sacking>>

SendFragment(s) ==
    /\ \E m \in sending[s] :
          /\ Transmit(s, m.tier, m.stream, Fragment(m.id, m.next, m.total))
          /\ SetSending(s, {[m EXCEPT !.next = @ + 1]})
    /\ UNCHANGED <<msgCounter, sentOK, serverV3, sacking>>

FragmentFails(s) ==
    /\ s \in Bulk /\ TransmitFails(s) /\ SetSending(s, {})
    /\ UNCHANGED <<msgCounter, sentOK, serverV3, sacking>>

TrackFragment(s) == Track(s) /\ UNCHANGED <<sendV3, serverV3, sacking>>

(* transmitFragmentedV3 returns nil after the last fragment. *)
MessageSent_Early(s) ==
    /\ pc[s] = "idle" /\ \E m \in sending[s] : m.next = m.total - 1
    /\ sentOK' = sentOK \cup {<<m.id, m.total>> : m \in sending[s]}
    /\ SetSending(s, {})
    /\ UNCHANGED <<vars, msgCounter, serverV3, sacking>>

MessageSent(s) ==
    /\ pc[s] = "idle" /\ \E m \in sending[s] : m.next = m.total
    /\ sentOK' = sentOK \cup {<<m.id, m.total>> : m \in sending[s]}
    /\ SetSending(s, {})
    /\ UNCHANGED <<vars, msgCounter, serverV3, sacking>>

(* transmitSingleV3 draws a message id of its own and does not wait. *)
TransmitSingleV3(s) ==
    /\ s \notin Bulk /\ msgCounter < MaxMessages
    /\ msgCounter' = msgCounter + 1
    /\ \E t \in SendTiers, st \in Streams :
          Transmit(s, t, st, Fragment(msgCounter + 1, 0, 1))
    /\ UNCHANGED <<sending, sentOK, serverV3, sacking>>

SingleFails(s) ==
    /\ s \notin Bulk /\ TransmitFails(s)
    /\ UNCHANGED <<sendV3, serverV3, sacking>>

(* Best-effort shaping drops a message before it gets its id. *)
DeferV3(s) ==
    /\ s \notin Bulk /\ DeferBestEffort(s)
    /\ UNCHANGED <<sendV3, serverV3, sacking>>

SenderV3(s) ==
    \/ BeginMessage(s) \/ BeginFragment(s) \/ FragmentAdmitted(s)
    \/ FragmentStalled(s) \/ SendFragment(s) \/ FragmentFails(s)
    \/ TrackFragment(s) \/ MessageSent(s)
    \/ TransmitSingleV3(s) \/ SingleFails(s) \/ DeferV3(s)

-----------------------------------------------------------------------------
(* ackLoopV3.  A packet is worked through before the next one is read.     *)

(* A SACK arrives, maybe once more. *)
RecvSACK(q) ==
    /\ "ack" \in loops /\ sacking = {} /\ q \in sacks
    /\ sacking' = q
    /\ UNCHANGED <<vars, sendV3, serverV3>>

SackEntry_CountsAll(p) ==
    /\ p \in sacking
    /\ sacking' = sacking \ {p}
    /\ inflight' = Without(inflight, {k \in Keys : Matches(k, p)})
    /\ acked' = acked + 1
    /\ UNCHANGED <<phase, loops, local, maxInflight, seqCounter, sent, dropped,
                   retransmits, untracked, unsent, applied, net, sendV3, serverV3>>

(* One number of the SACK goes through processACK; the lock is free before *)
(* the next one.                                                           *)
SackEntry(p) ==
    /\ p \in sacking
    /\ sacking' = sacking \ {p}
    /\ IF \E k \in Keys : Matches(k, p)
          THEN /\ \E k \in Keys : Matches(k, p) /\ inflight' = Without(inflight, {k})
               /\ acked' = acked + 1
          ELSE UNCHANGED <<inflight, acked>>
    /\ UNCHANGED <<phase, loops, local, maxInflight, seqCounter, sent, dropped,
                   retransmits, untracked, unsent, applied, net, sendV3, serverV3>>

(* Packets of V2 and the ACKs, NACKs and configs of V3 are handled as by   *)
(* ackLoop.                                                                *)
AckLoopV3 ==
    \/ sacking = {} /\ AckLoop /\ UNCHANGED <<sendV3, serverV3, sacking>>
    \/ \E q \in sacks : RecvSACK(q)
    \/ \E p \in sacking : SackEntry(p)

(* The context is looked at between two packets only. *)
LoopExitV3(l) ==
    /\ l = "ack" => sacking = {}
    /\ LoopExit(l)
    /\ UNCHANGED <<sendV3, serverV3, sacking>>

-----------------------------------------------------------------------------
(* The server, external: as for V2, and it may gather the acknowledgements *)
(* of one stream into a SACK.                                              *)
Replies == Cardinality(toClient) + Cardinality(sackBuf) + Cardinality(sacks)

GatherSACK ==
    /\ Replies < MaxReplies
    /\ \E d \in toServer \cap DataPackets :
          /\ d.tier # "besteff"
          /\ \A p \in sackBuf : p.stream = d.stream
          /\ sackBuf' = sackBuf \cup {Reply("ack", d)}
    /\ UNCHANGED <<vars, sendV3, sacks, sacking>>

SendSACK ==
    /\ sackBuf # {}
    /\ sacks' = sacks \cup {sackBuf} /\ sackBuf' = {}
    /\ UNCHANGED <<vars, sendV3, sacking>>

ServerV3 ==
    \/ Replies < MaxReplies /\ Server /\ UNCHANGED <<sendV3, serverV3, sacking>>
    \/ GatherSACK \/ SendSACK

-----------------------------------------------------------------------------
(* Connect and Close, keepalives, retransmissions and time are Transport's. *)
SessionV3 ==
    /\ \/ SendHandshake \/ HandshakeTimeout \/ Close \/ SendKeepalive
       \/ \E p \in toClient : HandshakeReply(p)
       \/ \E n \in Windows : SetMaxInflight(n)
       \/ RunRetransmitTick
       \/ Elapse /\ UNCHANGED net
    /\ UNCHANGED <<sendV3, serverV3, sacking>>

NextV3 ==
    \/ SessionV3 \/ AckLoopV3 \/ ServerV3
    \/ \E s \in Senders : SenderV3(s)
    \/ \E l \in loops : LoopExitV3(l)
SpecV3 == InitV3 /\ [][NextV3]_varsV3

(* Goroutines in a send are scheduled and the deadline of the window       *)
(* passes; the retransmit ticker fires and time passes.  Nothing is        *)
(* assumed of the server or of ackLoopV3.                                  *)
InCall(s) ==
    \/ BeginFragment(s) \/ FragmentAdmitted(s) \/ FragmentStalled(s)
    \/ SendFragment(s) \/ FragmentFails(s) \/ TrackFragment(s) \/ MessageSent(s)
FairSpecV3 ==
    /\ SpecV3
    /\ \A s \in Senders : WF_varsV3(InCall(s))
    /\ WF_varsV3(RunRetransmitTick /\ UNCHANGED <<sendV3, serverV3, sacking>>)
    /\ WF_varsV3(Elapse /\ UNCHANGED <<net, sendV3, serverV3, sacking>>)

-----------------------------------------------------------------------------
(* Properties. *)

(* A V3 session is a V2 session: with a SACK read as the ACKs it stands    *)
(* for, every step of the V3 client is a step of Transport or changes      *)
(* nothing there.  So the embedded client's counters, keys and window keep *)
(* their promises although fragments and SACKs bypass transmitWithFlags    *)
(* and ackLoop.                                                            *)
V2 == INSTANCE Transport WITH toClient <- toClient \cup sackBuf \cup UNION sacks
ImplementsTransport == V2!Spec

OnWire == toServer \cap DataPackets
Written3(m) == {d \in OnWire : d.payload.msg = m}

(* A receiver can put a message together: when its send returned nil every *)
(* fragment was written once, under a number of its own, and no datagram   *)
(* of another message carries its id, whatever the senders interleave.     *)
MessagesWhole ==
    \A m \in Message, n \in 1 .. MaxFragments :
       <<m, n>> \in sentOK =>
          /\ Cardinality(Written3(m)) = n
          /\ {d.payload.frag : d \in Written3(m)} = 0 .. n - 1
          /\ \A d, e \in Written3(m) :
               d.payload.total = n /\ d.stream = e.stream /\ d.tier = e.tier

(* A send of a fragmented message returns, whether or not the server       *)
(* answers and also after Close: the window's deadline covers all          *)
(* fragments together.  (A session at the bounds on numbers and failed     *)
(* writes is exempt.)                                                      *)
AtBound == seqCounter = MaxSends \/ unsent = MaxUnsent
SendReturns ==
    \A s \in Senders : sending[s] # {} ~> (sending[s] = {} \/ AtBound)

-----------------------------------------------------------------------------
(* The inductive invariant behind ImplementsTransport. *)

Messages ==
    [id : Message, tier : SendTiers, stream : Streams,
     next : 0 .. MaxFragments, total : 2 .. MaxFragments]

(* Only fragmenting goroutines hold a message, and one past the window has *)
(* a fragment left to send.                                                *)
SendingOK ==
    /\ pc \in [Senders -> Pcs] /\ msgCounter \in 0 .. MaxMessages
    /\ sending \in [Senders -> SUBSET Messages]
    /\ \A s \in Senders : \A m \in sending[s] :
         /\ s \in Bulk /\ sending[s] = {m} /\ m.next <= m.total
         /\ pc[s] \in {"window", "ready"} => m.next < m.total

(* A SACK holds acknowledgements the server sent, and is worked through by *)
(* a running ackLoopV3.                                                    *)
SacksOK ==
    /\ \A p \in sackBuf \cup UNION sacks : p.type = "ack"
    /\ sacking \subseteq UNION sacks
    /\ sacking # {} => "ack" \in loops

IndInvV3 == SendingOK /\ SacksOK

-----------------------------------------------------------------------------
(* The inductive invariant behind MessagesWhole. *)

(* What waits for an acknowledgement was written before. *)
TrackedInv ==
    /\ seqCounter \in 0 .. MaxSends
    /\ current \in [Senders -> SUBSET OnWire]
    /\ \A k \in Keys : inflight[k].data \in OnWire

(* Of message i, of n fragments, the first k were written, once each.      *)
Prefix(i, k, n, t, st) ==
    /\ {d.payload.frag : d \in Written3(i)} = 0 .. k - 1
    /\ \A d, e \in Written3(i) : d.payload.frag = e.payload.frag => d = e
    /\ \A d \in Written3(i) : d.payload.total = n /\ d.tier = t /\ d.stream = st

(* A message id belongs to one send, under way or returned.                *)
SendingInv ==
    \A s \in Senders : \A m \in sending[s] :
       /\ m.id <= msgCounter /\ Prefix(m.id, m.next, m.total, m.tier, m.stream)
       /\ \A r \in Senders \ {s} : \A q \in sending[r] : q.id # m.id
SentInv ==
    \A m \in Message, n \in 1 .. MaxFragments : <<m, n>> \in sentOK =>
       /\ m <= msgCounter /\ \E t \in SendTiers, st \in Streams : Prefix(m, n, n, t, st)
       /\ \A s \in Senders : \A q \in sending[s] : q.id # m
MessagesInv ==
    /\ TrackedInv /\ SendingInv /\ SentInv
    /\ \A d \in OnWire : d.payload \in Fragments /\ d.payload.msg <= msgCounter
=============================================================================

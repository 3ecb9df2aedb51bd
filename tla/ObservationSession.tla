------------------------- MODULE ObservationSession -------------------------
(***************************************************************************)
(* Observation nodes that stream evidence to the service:                  *)
(* src/tools/pathobs_node_main.cpp, command_serve of                       *)
(* src/tools/pathobs_main.cpp, and the framed channel between them         *)
(* (src/src/transport.cpp over src/src/socket.cpp).                        *)
(*                                                                         *)
(* A direction of a connection is the sequence of frames in flight.  TCP   *)
(* neither loses nor reorders them, but a node may be killed, in the       *)
(* middle of a frame too (Cut), and both ends may close.  A frame is what  *)
(* receive() makes of it: a valid one of some type, or Garbage, which      *)
(* fails a test of the header or of the checksum.  The service serves one  *)
(* connection at a time, in the order of the backlog.                      *)
(***************************************************************************)
EXTENDS Naturals, Sequences, FiniteSets, SequencesExt

CONSTANTS Nodes,
          NoNode,
          Program,  \* Program[n]: the frames node n sends, "Hello" and
                    \* "Evidence" or, from a broken node, "Garbage" or
                    \* evidence that does not decode, "Malformed"
          Count,    \* --count: connections the service accepts
          Backlog   \* options.backlog

ASSUME SessionAssumption ==
    /\ IsFiniteSet(Nodes) /\ NoNode \notin Nodes
    /\ Program \in [Nodes -> Seq({"Hello", "Evidence", "Malformed", "Garbage"})]
    /\ Count \in Nat /\ Backlog \in Nat \ {0}

VARIABLES pc,       \* the node is at "connect", "send", "await", "ok" (exit 0)
                    \* or "failed" (any other end)
          next,     \* the frame of its program the node is at
          up,       \* frames from the node in flight
          down,     \* frames to the node in flight
          service,  \* "accept", "serve", "done" (exit) or "failed" (exit 1)
          backlog,  \* connections not yet accepted
          conn,     \* the node being served
          hung,     \* nodes whose connection the service has closed
          accepted, \* connections accepted
          ingested, \* evidence of the node that ingest_evidence answered
          answered  \* acknowledgements the node has received

nodeVars == <<pc, next, answered>>
serviceVars == <<service, backlog, conn, hung, accepted, ingested>>
vars == <<nodeVars, up, down, serviceVars>>

Exited(n) == pc[n] \in {"ok", "failed"}
Gone(n) == n \in hung \/ service \in {"done", "failed"}

Init ==
    /\ pc = [n \in Nodes |-> "connect"]
    /\ next = [n \in Nodes |-> 1]
    /\ up = [n \in Nodes |-> <<>>] /\ down = [n \in Nodes |-> <<>>]
    /\ service = "accept" /\ backlog = <<>> /\ conn = NoNode
    /\ hung = {} /\ accepted = 0
    /\ ingested = [n \in Nodes |-> 0]
    /\ answered = [n \in Nodes |-> 0]

Exit(n, how) == pc' = [pc EXCEPT ![n] = how]

-----------------------------------------------------------------------------
\* The node.  A listener that is gone or full refuses; otherwise the
\* connection waits in the backlog.
Connect(n) ==
    /\ pc[n] = "connect"
    /\ \/ /\ service \in {"accept", "serve"} /\ Len(backlog) < Backlog
          /\ backlog' = Append(backlog, n)
          /\ pc' = [pc EXCEPT ![n] = "send"]
       \/ /\ service \in {"done", "failed"} \/ Len(backlog) >= Backlog
          /\ Exit(n, "failed")
          /\ UNCHANGED backlog
    /\ UNCHANGED <<next, up, down, service, conn, hung, accepted, ingested, answered>>

\* Mutant: the acknowledgement is not awaited.
SendWithoutWaiting(n, f) ==
    /\ up' = [up EXCEPT ![n] = Append(@, f)]
    /\ next' = [next EXCEPT ![n] = @ + 1]
    /\ UNCHANGED pc

\* A frame goes out; after evidence the node waits for the answer.  A node
\* that writes garbage does so past the channel and leaves.
Sent(n, f) ==
    /\ up' = [up EXCEPT ![n] = Append(@, f)]
    /\ next' = [next EXCEPT ![n] = @ + 1]
    /\ pc' = [pc EXCEPT ![n] = CASE f \in {"Evidence", "Malformed"} -> "await"
                                 [] f = "Garbage" -> "failed"
                                 [] OTHER -> "send"]

Send(n) ==
    /\ pc[n] = "send"
    /\ next[n] <= Len(Program[n])
    /\ \/ Sent(n, Program[n][next[n]])
       \/ /\ Gone(n)  \* the peer has closed: send() may fail
          /\ Exit(n, "failed")
          /\ UNCHANGED <<next, up>>
    /\ UNCHANGED <<down, answered, serviceVars>>

\* receive() for the acknowledgement: its type is not looked at.
ReceiveReply(n) ==
    /\ pc[n] = "await"
    /\ \/ /\ down[n] # <<>>
          /\ down' = [down EXCEPT ![n] = Tail(@)]
          /\ answered' = [answered EXCEPT ![n] = @ + 1]
          /\ pc' = [pc EXCEPT ![n] = "send"]
       \/ /\ down[n] = <<>> /\ Gone(n)
          /\ Exit(n, "failed")
          /\ UNCHANGED <<down, answered>>
    /\ UNCHANGED <<next, up, serviceVars>>

SayBye(n) ==
    /\ pc[n] = "send"
    /\ next[n] > Len(Program[n])
    /\ up' = [up EXCEPT ![n] = Append(@, "Bye")]
    /\ Exit(n, "ok")
    /\ UNCHANGED <<next, down, answered, serviceVars>>

\* The process is killed, between two frames or within one.
Killed(n) ==
    /\ ~ Exited(n)
    /\ Exit(n, "failed")
    /\ \/ UNCHANGED up
       \/ pc[n] = "send" /\ up' = [up EXCEPT ![n] = Append(@, "Cut")]
    /\ UNCHANGED <<next, down, answered, serviceVars>>

NodeStep(n) == Connect(n) \/ Send(n) \/ ReceiveReply(n) \/ SayBye(n)

-----------------------------------------------------------------------------
\* The service.
Accept ==
    /\ service = "accept"
    /\ accepted < Count
    /\ backlog # <<>>
    /\ conn' = Head(backlog)
    /\ backlog' = Tail(backlog)
    /\ accepted' = accepted + 1
    /\ service' = "serve"
    /\ UNCHANGED <<nodeVars, up, down, hung, ingested>>

\* accept() fails: the loop ends short of its count.
AcceptFails ==
    /\ service = "accept"
    /\ accepted < Count
    /\ service' = "failed"
    /\ UNCHANGED <<nodeVars, up, down, backlog, conn, hung, accepted, ingested>>

HangUp ==
    /\ hung' = hung \cup {conn}
    /\ conn' = NoNode
    /\ service' = "accept"

Arrives(f) ==
    /\ service = "serve"
    /\ up[conn] # <<>>
    /\ Head(up[conn]) = f
    /\ up' = [up EXCEPT ![conn] = Tail(@)]

\* A Hello registers the source; neither a payload that does not decode nor a
\* refused registration is answered.
ReceiveHello ==
    /\ Arrives("Hello")
    /\ UNCHANGED <<nodeVars, down, serviceVars>>

\* Mutant: a record that is not accepted gets no answer.
AnswerAcceptedOnly ==
    /\ Arrives("Evidence")
    /\ ingested' = [ingested EXCEPT ![conn] = @ + 1]
    /\ \/ down' = [down EXCEPT ![conn] = Append(@, "Ack")]
       \/ UNCHANGED down
    /\ UNCHANGED <<nodeVars, service, backlog, conn, hung, accepted>>

\* Evidence is ingested and answered, accepted or not; the answer is lost on a
\* node that has left.
ReceiveEvidence ==
    /\ Arrives("Evidence")
    /\ ingested' = [ingested EXCEPT ![conn] = @ + 1]
    /\ down' = [down EXCEPT ![conn] = Append(@, "Ack")]
    /\ UNCHANGED <<nodeVars, service, backlog, conn, hung, accepted>>

\* Evidence that does not decode is passed over: no answer.
ReceiveMalformed ==
    /\ Arrives("Malformed")
    /\ UNCHANGED <<nodeVars, down, serviceVars>>

\* An error of ingest_evidence() ends the service.
IngestFails ==
    /\ Arrives("Evidence")
    /\ service' = "failed"
    /\ UNCHANGED <<nodeVars, down, backlog, conn, hung, accepted, ingested>>

\* Bye, a violation of the framing or a frame that ends early: hang up.
ReceiveLast ==
    /\ Arrives("Bye") \/ Arrives("Garbage") \/ Arrives("Cut")
    /\ HangUp
    /\ UNCHANGED <<nodeVars, down, backlog, accepted, ingested>>

ReceiveClosed ==
    /\ service = "serve"
    /\ up[conn] = <<>>
    /\ Exited(conn)
    /\ HangUp
    /\ UNCHANGED <<nodeVars, up, down, backlog, accepted, ingested>>

\* After the last connection: compare_all(), stop() and the end of the process,
\* which also ends what is left in the backlog.
Finish ==
    /\ service = "accept"
    /\ accepted = Count
    /\ service' \in {"done", "failed"}
    /\ UNCHANGED <<nodeVars, up, down, backlog, conn, hung, accepted, ingested>>

ServiceStep ==
    \/ Accept \/ AcceptFails \/ ReceiveHello \/ ReceiveEvidence \/ ReceiveMalformed
    \/ IngestFails \/ ReceiveLast \/ ReceiveClosed \/ Finish

Next ==
    \/ \E n \in Nodes : NodeStep(n)
    \/ \E n \in Nodes : Killed(n)
    \/ ServiceStep

\* Each process is one thread that takes the next step when it can.
Fairness ==
    /\ \A n \in Nodes : WF_vars(NodeStep(n))
    /\ WF_vars(ServiceStep)

Spec == Init /\ [][Next]_vars /\ Fairness
-----------------------------------------------------------------------------
Records(n) ==
    Cardinality({i \in DOMAIN Program[n] : Program[n][i] \in {"Evidence", "Malformed"}})

\* The types of the processes and of the frames in flight.
TypeOK ==
    /\ pc \in [Nodes -> {"connect", "send", "await", "ok", "failed"}]
    /\ \A n \in Nodes : next[n] \in 1..Len(Program[n]) + 1
    /\ up \in [Nodes -> Seq({"Hello", "Evidence", "Malformed", "Garbage", "Bye", "Cut"})]
    /\ down \in [Nodes -> Seq({"Ack"})]
    /\ service \in {"accept", "serve", "done", "failed"}
    /\ backlog \in Seq(Nodes) /\ Len(backlog) <= Backlog
    /\ conn \in Nodes \cup {NoNode}
    /\ hung \subseteq Nodes
    /\ accepted \in 0..Count
    /\ ingested \in [Nodes -> Nat] /\ answered \in [Nodes -> Nat]

\* A node that reports success has had every record of its program ingested by
\* the service, even when the service fails later or others are killed.
SuccessIsIngested ==
    \A n \in Nodes : pc[n] = "ok" => ingested[n] = Records(n)

\* The service has passed over evidence that does not decode; it waits for the
\* next frame of a node that waits for the answer.
Stuck ==
    /\ service = "serve" /\ up[conn] = <<>>
    /\ pc[conn] = "await" /\ Program[conn][next[conn] - 1] = "Malformed"

\* No node waits for ever for an answer or for its turn: with nodes that are
\* killed, connections that are refused and a service that fails or ends, every
\* node comes to an end.  There is no timeout, so a record that does not decode
\* is the one exception, and it holds up everybody.
EveryNodeEnds == <>[]Stuck \/ \A n \in Nodes : <>Exited(n)

\* The service comes to an end, with the same exception, when it is to serve no
\* more connections than there are nodes that reach it.
ServiceEnds ==
    \/ <>[]Stuck
    \/ (\A n \in Nodes : pc[n] # "connect") /\ accepted + Len(backlog) >= Count
          ~> service \in {"done", "failed"}

\* Both sides of the protocol come to an end.
SessionEnds == EveryNodeEnds /\ ServiceEnds
=============================================================================

---------------------------- MODULE RequestPath -----------------------------
(***************************************************************************)
(* What travels on the pooled connections: the exchange handle_one() makes  *)
(* with the connection it borrowed, the empty message of the reaper's       *)
(* health ping, and a backend that answers each connection's messages in    *)
(* order, as tools/backend_echo does, late, partly or not at all.  A reply  *)
(* carries no identification: it belongs to whoever reads it.  BackendPool  *)
(* decides who that is; a message is the token of the request it is part of.*)
(***************************************************************************)
EXTENDS BackendPool

VARIABLES
    stage,     \* stage[b]: where b's handler is with its exchange
    reply,     \* reply[b]: what b's handler read from the backend
    pinging,   \* the reaper has written a ping and waits for the answer
    requests,  \* requests[f]: messages on their way to the backend
    replies,   \* replies[f]: messages on their way back
    serving    \* descriptors whose other end the backend has open

exchange == <<stage, reply, pinging, requests, replies, serving>>
pathVars == <<vars, exchange>>

NoReply == <<>>
Ping == <<"ping">>
Torn == <<"torn">>  \* part of a message
Request(b) == <<b>>

PathInit ==
    /\ Init
    /\ stage = [b \in Borrowers |-> "idle"]
    /\ reply = [b \in Borrowers |-> NoReply]
    /\ pinging = FALSE
    /\ requests = [f \in Fds |-> <<>>]
    /\ replies = [f \in Fds |-> <<>>]
    /\ serving = {}

-----------------------------------------------------------------------------
(* A step of the pool puts nothing on a connection; what is on a connection goes
   when it is closed, and a new one has nothing on it. *)
Cleared ==
    /\ requests' = [f \in Fds |-> IF f \in open' THEN requests[f] ELSE <<>>]
    /\ replies' = [f \in Fds |-> IF f \in open' THEN replies[f] ELSE <<>>]
    /\ serving' = (serving \cap open') \cup (open' \ open)
    /\ UNCHANGED <<stage, reply, pinging>>

-----------------------------------------------------------------------------
(* The handler, between borrow() and release(). *)

(* write_message() of the request; a failure may leave part of it behind. *)
WriteBackend(b, ok) ==
    /\ borrower[b] = "hold" /\ stage[b] = "idle"
    /\ stage' = [stage EXCEPT ![b] = IF ok THEN "read" ELSE "failed"]
    /\ \E m \in IF ok THEN {<<Request(b)>>} ELSE {<<>>, <<Torn>>} :
          requests' = [requests EXCEPT ![fd[b]] = @ \o m]
    /\ UNCHANGED <<vars, reply, pinging, replies, serving>>

(* read_message() gets what comes first. *)
ReadBackend(b) ==
    /\ borrower[b] = "hold" /\ stage[b] = "read"
    /\ replies[fd[b]] # <<>>
    /\ reply' = [reply EXCEPT ![b] = Head(replies[fd[b]])]
    /\ replies' = [replies EXCEPT ![fd[b]] = Tail(@)]
    /\ stage' = [stage EXCEPT ![b] = "respond"]
    /\ UNCHANGED <<vars, pinging, requests, serving>>

(* read_message() fails: a timeout, a closed connection, a bad frame. *)
ReadBackendFails(b) ==
    /\ borrower[b] = "hold" /\ stage[b] = "read"
    /\ stage' = [stage EXCEPT ![b] = "failed"]
    /\ UNCHANGED <<vars, reply, pinging, requests, replies, serving>>

ConnOkAlways(b) == TRUE

(* conn_ok: a failed write to the client does not count against the backend. *)
ConnOk(b) == stage[b] = "respond"

(* The client has got its reply, or the error, or neither; then release(). *)
Release(b) ==
    /\ stage[b] \in {"respond", "failed"}
    /\ ReleaseCall(b, ConnOk(b))
    /\ stage' = [stage EXCEPT ![b] = "idle"]
    /\ reply' = [reply EXCEPT ![b] = NoReply]
    /\ UNCHANGED <<pinging, requests, replies, serving>>

-----------------------------------------------------------------------------
(* health_ping_() *)

PingWrites ==
    /\ reaper = "ping" /\ ~pinging
    /\ pinging' = TRUE
    /\ requests' = [requests EXCEPT ![Head(to_check).fd] = Append(@, Ping)]
    /\ UNCHANGED <<vars, stage, reply, replies, serving>>

(* The answer must be the empty message. *)
PingReads ==
    /\ pinging
    /\ LET f == Head(to_check).fd IN
          /\ replies[f] # <<>>
          /\ ReaperPings(Head(replies[f]) = Ping)
          /\ replies' = [replies EXCEPT ![f] = Tail(@)]
    /\ pinging' = FALSE
    /\ UNCHANGED <<stage, reply, requests, serving>>

(* The write or the read fails, or no answer comes in time. *)
PingFails ==
    /\ ReaperPings(FALSE)
    /\ pinging' = FALSE
    /\ UNCHANGED <<stage, reply, requests, replies, serving>>

-----------------------------------------------------------------------------
(* The backend's serve_one(). *)

(* The next whole message is echoed; one that is torn swallows what follows. *)
Echoes(f) ==
    /\ f \in open \cap serving
    /\ requests[f] # <<>>
    /\ Head(requests[f]) = Torn => Len(requests[f]) > 1
    /\ replies' = [replies EXCEPT ![f] = Append(@, Head(requests[f]))]
    /\ requests' = [requests EXCEPT ![f] = Tail(@)]
    /\ UNCHANGED <<vars, stage, reply, pinging, serving>>

(* Its read timed out, its write failed, or it ended. *)
BackendCloses(f) ==
    /\ f \in open \cap serving
    /\ serving' = serving \ {f}
    /\ UNCHANGED <<vars, stage, reply, pinging, requests, replies>>

-----------------------------------------------------------------------------
HandlerStep(b) ==
    \/ (BorrowStep(b) \/ BorrowTimesOut(b) \/ ReleaseStep(b)) /\ Cleared
    \/ \E ok \in BOOLEAN : WriteBackend(b, ok)
    \/ ReadBackend(b)
    \/ ReadBackendFails(b)
    \/ Release(b)

ReaperMoves ==
    \/ /\ \/ ReaperExits
          \/ ReaperScans
          \/ ReaperClosesVictims
          \/ ReaperClosesDead
          \/ ReaperPushes
       /\ Cleared
    \/ PingWrites
    \/ PingReads
    \/ PingFails

PathNext ==
    \/ \E b \in Borrowers :
          \/ HandlerStep(b)
          \/ (BorrowCall(b) \/ SpuriousWake(b)) /\ Cleared
    \/ ReaperMoves
    \/ \E f \in Fds : Echoes(f) \/ BackendCloses(f)
    \/ (ShutdownBegins \/ ShutdownNotifies \/ Tick) /\ Cleared
    \/ AllDone /\ UNCHANGED pathVars

PathSpec == PathInit /\ [][PathNext]_pathVars

-----------------------------------------------------------------------------
(* Properties. *)

(* The reply a handler passes on to its client answers that client's request,
   and the answer the reaper judges is the answer to its ping.  Messages carry no
   identification, so this rests on handle_one() giving back as healthy only a
   connection whose exchange was completed, on the pool lending a connection to
   one user at a time, on the ping reading its answer before the connection is
   lent again, and on a descriptor not being closed under its user. *)
NoCrossTalk ==
    /\ \A b \in Borrowers : stage[b] = "respond" => reply[b] = Request(b)
    /\ pinging => LET f == Head(to_check).fd IN replies[f] = <<>> \/ Head(replies[f]) = Ping
=============================================================================

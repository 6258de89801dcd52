------------------------------ MODULE Handler -------------------------------
(***************************************************************************)
(* handle_one(): what a worker does with one accepted connection, step by  *)
(* step, together with the metrics it updates.  stage[c] says where        *)
(* connection c is; the backend and the peers answer nondeterministically  *)
(* (parameter ok of the I/O steps).  Both overloads and both transports    *)
(* have this control flow; Tls selects the branch with the handshake.      *)
(***************************************************************************)
EXTENDS Integers

CONSTANTS
    Conns,  \* client connections
    Tls     \* opts.server_tls # nullptr

ASSUME TlsAssumption == Tls \in BOOLEAN

VARIABLES
    stage,      \* stage[c]: where c is, see Stages
    lease,      \* lease[c]: c's handler holds a backend connection
    reply,      \* reply[c]: what was sent to the client in full
    closes,     \* closes[c]: how often the client fd of c was closed
    in_flight,  \* Metrics::in_flight_
    completed,  \* Metrics::completed_
    errored     \* Metrics::errored_

handlerVars == <<stage, lease, reply, closes, in_flight, completed, errored>>

(* Stages of a connection that has not reached handle_one. *)
Outside == {"none", "backlog", "refused"}
Waiting == {"submitting", "queued", "taken"}

(* Stages between inc_in_flight and dec_in_flight, named for what comes next. *)
InHandler == {"handshake", "read_client", "borrow", "write_backend",
              "read_backend", "write_client", "reply_error", "release_failed",
              "release_ok", "release_errored", "count_errored",
              "count_handshake", "count_completed", "close", "leave"}

Stages == Outside \cup Waiting \cup InHandler \cup {"turned_away", "done"}

(* Stages in which c has been counted in completed or in errored. *)
Counted == {"close", "leave", "done"}

HandlerInit ==
    /\ stage \in [Conns -> Outside]
    /\ lease = [c \in Conns |-> FALSE]
    /\ reply = [c \in Conns |-> "none"]
    /\ closes = [c \in Conns |-> 0]
    /\ in_flight = 0
    /\ completed = 0
    /\ errored = 0

Goto(c, from, to) ==
    /\ stage[c] = from
    /\ stage' = [stage EXCEPT ![c] = to]

EnterUncounted(c) ==
    /\ Goto(c, "taken", IF Tls THEN "handshake" ELSE "read_client")
    /\ UNCHANGED <<lease, reply, closes, in_flight, completed, errored>>

(* metrics.inc_in_flight() *)
Enter(c) ==
    /\ Goto(c, "taken", IF Tls THEN "handshake" ELSE "read_client")
    /\ in_flight' = in_flight + 1
    /\ UNCHANGED <<lease, reply, closes, completed, errored>>

HandshakeFailClosesTwice(c, ok) ==
    /\ Goto(c, "handshake", IF ok THEN "read_client" ELSE "count_errored")
    /\ closes' = IF ok THEN closes ELSE [closes EXCEPT ![c] = @ + 1]
    /\ UNCHANGED <<lease, reply, in_flight, completed, errored>>

(* accept_handshake(): every failure closes the fd before it returns null. *)
Handshake(c, ok) ==
    /\ Goto(c, "handshake", IF ok THEN "read_client" ELSE "count_handshake")
    /\ closes' = IF ok THEN closes ELSE [closes EXCEPT ![c] = @ + 1]
    /\ UNCHANGED <<lease, reply, in_flight, completed, errored>>

(* read_message() from the client. *)
ReadClient(c, ok) ==
    /\ Goto(c, "read_client", IF ok THEN "borrow" ELSE "count_errored")
    /\ UNCHANGED <<lease, reply, closes, in_flight, completed, errored>>

(* backend_set.borrow() *)
Borrow(c, ok) ==
    /\ Goto(c, "borrow", IF ok THEN "write_backend" ELSE "reply_error")
    /\ lease' = [lease EXCEPT ![c] = ok]
    /\ UNCHANGED <<reply, closes, in_flight, completed, errored>>

(* write_message() to the backend. *)
WriteBackend(c, ok) ==
    /\ Goto(c, "write_backend", IF ok THEN "read_backend" ELSE "reply_error")
    /\ UNCHANGED <<lease, reply, closes, in_flight, completed, errored>>

(* read_message() from the backend. *)
ReadBackend(c, ok) ==
    /\ Goto(c, "read_backend", IF ok THEN "write_client" ELSE "reply_error")
    /\ UNCHANGED <<lease, reply, closes, in_flight, completed, errored>>

(* reply_error_plain()/reply_error_tls(): best effort, the result is ignored. *)
ReplyError(c, ok) ==
    /\ Goto(c, "reply_error", IF lease[c] THEN "release_failed" ELSE "count_errored")
    /\ reply' = [reply EXCEPT ![c] = IF ok THEN "error" ELSE @]
    /\ UNCHANGED <<lease, closes, in_flight, completed, errored>>

WriteClientResultIgnored(c, ok) ==
    /\ Goto(c, "write_client", "release_ok")
    /\ reply' = [reply EXCEPT ![c] = IF ok THEN "response" ELSE @]
    /\ UNCHANGED <<lease, closes, in_flight, completed, errored>>

(* write_message() of the response to the client. *)
WriteClient(c, ok) ==
    /\ Goto(c, "write_client", IF ok THEN "release_ok" ELSE "release_errored")
    /\ reply' = [reply EXCEPT ![c] = IF ok THEN "response" ELSE @]
    /\ UNCHANGED <<lease, closes, in_flight, completed, errored>>

(* backend_set.release(handle, conn_ok) *)
Release(c) ==
    /\ \/ Goto(c, "release_failed", "count_errored")
       \/ Goto(c, "release_errored", "count_errored")
       \/ Goto(c, "release_ok", "count_completed")
    /\ lease' = [lease EXCEPT ![c] = FALSE]
    /\ UNCHANGED <<reply, closes, in_flight, completed, errored>>

(* metrics.inc_errored(); after a failed handshake the fd is closed already. *)
CountErrored(c) ==
    /\ \/ Goto(c, "count_errored", "close")
       \/ Goto(c, "count_handshake", "leave")
    /\ errored' = errored + 1
    /\ UNCHANGED <<lease, reply, closes, in_flight, completed>>

(* metrics.inc_completed() *)
CountCompleted(c) ==
    /\ Goto(c, "count_completed", "close")
    /\ completed' = completed + 1
    /\ UNCHANGED <<lease, reply, closes, in_flight, errored>>

(* safe_close(client_fd) / close_stream(client) *)
CloseClient(c) ==
    /\ Goto(c, "close", "leave")
    /\ closes' = [closes EXCEPT ![c] = @ + 1]
    /\ UNCHANGED <<lease, reply, in_flight, completed, errored>>

(* metrics.dec_in_flight() and return *)
Leave(c) ==
    /\ Goto(c, "leave", "done")
    /\ in_flight' = in_flight - 1
    /\ UNCHANGED <<lease, reply, closes, completed, errored>>

(* The steps that wait for a peer: bounded by poll() deadlines on reads only. *)
SendStep(c) ==
    \E ok \in BOOLEAN : WriteBackend(c, ok) \/ WriteClient(c, ok) \/ ReplyError(c, ok)

(* Every other step: local, a read under a poll() deadline, or a timed wait. *)
LocalStep(c) ==
    \/ Enter(c)
    \/ \E ok \in BOOLEAN :
          Handshake(c, ok) \/ ReadClient(c, ok) \/ Borrow(c, ok) \/ ReadBackend(c, ok)
    \/ Release(c)
    \/ CountErrored(c)
    \/ CountCompleted(c)
    \/ CloseClient(c)
    \/ Leave(c)

HandleOne(c) == LocalStep(c) \/ SendStep(c)
=============================================================================

-------------------------------- MODULE Aip --------------------------------
(***************************************************************************)
(* The IPC protocol AIP of src/internal/ipc: one Client, one Server and    *)
(* the connection between them.  Calls of the client share the connection; *)
(* its readLoop matches responses to calls by sequence number.  The server *)
(* handles each request in a goroutine of its own.  Either side may close  *)
(* at any time.                                                            *)
(*                                                                         *)
(* A frame is its opcode, its sequence number and, for its payload, the    *)
(* call it belongs to.  Each direction of the connection is a FIFO of at   *)
(* most Wire frames; a writer waits for room.  Ping is not modelled: no    *)
(* code in src/ sends one.                                                 *)
(***************************************************************************)
EXTENDS Integers, Sequences, FiniteSets

CONSTANTS
    Calls,     \* calls of Client.Call
    None,      \* no call
    SeqMod,    \* sequence numbers are modulo this (2^32)
    Wire,      \* frames a direction of the connection buffers
    MaxEvents, \* bound: events the server broadcasts
    Closers    \* who may call Close: "client" and/or "server"

ASSUME AipConstants ==
    /\ IsFiniteSet(Calls) /\ None \notin Calls
    /\ SeqMod \in Nat \ {0} /\ Wire \in Nat \ {0} /\ MaxEvents \in Nat
    /\ Closers \subseteq {"client", "server"}

Seqs == 0..SeqMod - 1
Frames == [op : {"request", "response", "error", "event", "disconnect"},
           seq : Seqs, call : Calls \cup {None}]
Control(op) == [op |-> op, seq |-> 0, call |-> None]

VARIABLES
    \* client
    pc,         \* per call: its control state
    seq,        \* per call: its sequence number
    seqCounter,
    pending,    \* from sequence numbers to the calls registered under them
    chan,       \* per call: what its response channel (capacity 1) holds
    chanClosed, \* calls whose response channel is closed
    result,     \* per call: how Call ends
    got,        \* per call: the call whose answer it returns
    closed,     \* the closed channel is closed
    closing,    \* control state of the body of closeOnce
    rl,         \* control state of readLoop
    rlTo,       \* the call whose channel it has looked up
    rlFrame,    \* the frame for that channel
    panicked,   \* it sent on a closed channel
    \* connection
    toServer, toClient,   \* frames under way
    clientEnd, serverEnd, \* open or closed
    \* server
    listening,   \* its listener is open
    conn,        \* control state of the server's side of the connection
    inConns,     \* the connection is in s.conns
    serverClose, \* control state of Server.Close
    rpc,         \* per call: control state of its processRPC
    bcast,       \* control state of Broadcast, which holds connsMu
    events       \* events broadcast so far

callVars == <<pc, seq, seqCounter, result, got>>
chanVars == <<pending, chan, chanClosed>>
closeVars == <<closed, closing>>
rlVars == <<rl, rlTo, rlFrame, panicked>>
wireVars == <<toServer, toClient>>
connVars == <<listening, conn, inConns, serverClose>>
workVars == <<rpc, bcast, events>>
vars == <<callVars, chanVars, closeVars, rlVars, wireVars, clientEnd, serverEnd, connVars, workVars>>

TypeOK ==
    /\ pc \in [Calls -> {"new", "write", "wait", "leave", "returned"}]
    /\ seq \in [Calls -> Seqs] /\ seqCounter \in Seqs
    /\ pending \in [Seqs -> Calls \cup {None}]
    /\ chan \in [Calls -> Seq(Frames)] /\ \A c \in Calls : Len(chan[c]) <= 1
    /\ chanClosed \subseteq Calls
    /\ result \in [Calls -> {"none", "answer", "rpcError", "failed", "timeout"}]
    /\ got \in [Calls -> Calls \cup {None}]
    /\ closed \in BOOLEAN /\ closing \in {"no", "notify", "conn", "pending", "done"}
    /\ rl \in {"read", "send", "close", "gone"}
    /\ rlTo \in Calls \cup {None} /\ rlFrame \in Frames /\ panicked \in BOOLEAN
    /\ toServer \in Seq(Frames) /\ toClient \in Seq(Frames)
    /\ Len(toServer) <= Wire /\ Len(toClient) <= Wire
    /\ clientEnd \in {"open", "closed"} /\ serverEnd \in {"open", "closed"}
    /\ listening \in BOOLEAN /\ inConns \in BOOLEAN
    /\ conn \in {"backlog", "accepted", "serving", "closing", "leaving", "gone"}
    /\ serverClose \in {"no", "conns", "done"}
    /\ rpc \in [Calls -> {"none", "handler", "response", "error", "done"}]
    /\ bcast \in {"idle", "writing"} /\ events \in 0..MaxEvents

Init ==
    /\ pc = [c \in Calls |-> "new"] /\ seq = [c \in Calls |-> 0] /\ seqCounter = 0
    /\ pending = [n \in Seqs |-> None]
    /\ chan = [c \in Calls |-> <<>>] /\ chanClosed = {}
    /\ result = [c \in Calls |-> "none"] /\ got = [c \in Calls |-> None]
    /\ closed = FALSE /\ closing = "no"
    /\ rl = "read" /\ rlTo = None /\ rlFrame = Control("event") /\ panicked = FALSE
    /\ toServer = <<>> /\ toClient = <<>> /\ clientEnd = "open" /\ serverEnd = "open"
    /\ listening = TRUE /\ conn = "backlog" /\ inConns = FALSE /\ serverClose = "no"
    /\ rpc = [c \in Calls |-> "none"] /\ bcast = "idle" /\ events = 0

-----------------------------------------------------------------------------
(* The connection (external): net.Conn of a Unix socket, pipe or TCP.       *)

\* A write needs room while both ends are open.  Over a closed end it fails,
\* or, if it is the peer that has closed, may still be taken and lost.
Writable(mine, theirs, wire) == mine = "open" /\ theirs = "open" /\ Len(wire) < Wire
WriteFails(mine, theirs) == mine = "closed" \/ theirs = "closed"
WriteLost(mine, theirs) == mine = "open" /\ theirs = "closed"

\* A read ends at once on a closed end, and once the peer has closed; frames the
\* peer sent before that may be read first.
ReadEnds(mine, theirs) == mine = "closed" \/ theirs = "closed"
Readable(mine, wire) == mine = "open" /\ wire # <<>>

-----------------------------------------------------------------------------
(* Client.Call.                                                             *)

\* Mutant: the sequence number is read and stored, not added atomically.
CallStartStaleSeq(c) ==
    /\ pc[c] = "new"
    /\ pc' = [pc EXCEPT ![c] = "write"]
    /\ \E n \in {seqCounter, (seqCounter + 1) % SeqMod} :
        /\ seqCounter' = n
        /\ seq' = [seq EXCEPT ![c] = n]
        /\ pending' = [pending EXCEPT ![n] = c]
    /\ UNCHANGED <<chan, chanClosed, result, got, closeVars, rlVars>>
    /\ UNCHANGED <<wireVars, clientEnd, serverEnd, connVars, workVars>>

\* Take a sequence number and register the response channel.
CallStart(c) ==
    /\ pc[c] = "new"
    /\ pc' = [pc EXCEPT ![c] = "write"]
    /\ seqCounter' = (seqCounter + 1) % SeqMod
    /\ seq' = [seq EXCEPT ![c] = seqCounter']
    /\ pending' = [pending EXCEPT ![seqCounter'] = c]
    /\ UNCHANGED <<chan, chanClosed, result, got, closeVars, rlVars>>
    /\ UNCHANGED <<wireVars, clientEnd, serverEnd, connVars, workVars>>

Ends(c, how) == pc' = [pc EXCEPT ![c] = "leave"] /\ result' = [result EXCEPT ![c] = how]

CallWrite(c) ==
    /\ pc[c] = "write"
    /\ \/ /\ Writable(clientEnd, serverEnd, toServer)
          /\ toServer' = Append(toServer, [op |-> "request", seq |-> seq[c], call |-> c])
          /\ pc' = [pc EXCEPT ![c] = "wait"] /\ UNCHANGED result
       \/ /\ WriteLost(clientEnd, serverEnd)
          /\ pc' = [pc EXCEPT ![c] = "wait"] /\ UNCHANGED <<result, toServer>>
       \/ /\ WriteFails(clientEnd, serverEnd)
          /\ Ends(c, "failed") /\ UNCHANGED toServer
    /\ UNCHANGED <<seq, seqCounter, got, chanVars, closeVars, rlVars>>
    /\ UNCHANGED <<toClient, clientEnd, serverEnd, connVars, workVars>>

\* The cases of Call's select.
CallReceive(c) ==
    /\ pc[c] = "wait" /\ chan[c] # <<>>
    /\ chan' = [chan EXCEPT ![c] = <<>>]
    /\ got' = [got EXCEPT ![c] = Head(chan[c]).call]
    /\ Ends(c, IF Head(chan[c]).op = "error" THEN "rpcError" ELSE "answer")
    /\ UNCHANGED <<seq, seqCounter, pending, chanClosed, closeVars, rlVars>>
    /\ UNCHANGED <<wireVars, clientEnd, serverEnd, connVars, workVars>>

CallChanClosed(c) ==
    /\ pc[c] = "wait" /\ chan[c] = <<>> /\ c \in chanClosed
    /\ Ends(c, "failed")
    /\ UNCHANGED <<seq, seqCounter, got, chanVars, closeVars, rlVars>>
    /\ UNCHANGED <<wireVars, clientEnd, serverEnd, connVars, workVars>>

CallTimeout(c) ==
    /\ pc[c] = "wait"
    /\ Ends(c, "timeout")
    /\ UNCHANGED <<seq, seqCounter, got, chanVars, closeVars, rlVars>>
    /\ UNCHANGED <<wireVars, clientEnd, serverEnd, connVars, workVars>>

CallSeesClosed(c) ==
    /\ pc[c] = "wait" /\ closed
    /\ Ends(c, "failed")
    /\ UNCHANGED <<seq, seqCounter, got, chanVars, closeVars, rlVars>>
    /\ UNCHANGED <<wireVars, clientEnd, serverEnd, connVars, workVars>>

\* The deferred delete from pending.
CallLeave(c) ==
    /\ pc[c] = "leave"
    /\ pc' = [pc EXCEPT ![c] = "returned"]
    /\ pending' = [pending EXCEPT ![seq[c]] = None]
    /\ UNCHANGED <<seq, seqCounter, result, got, chan, chanClosed, closeVars, rlVars>>
    /\ UNCHANGED <<wireVars, clientEnd, serverEnd, connVars, workVars>>

-----------------------------------------------------------------------------
(* Client.Close.  The user calls it at any time, readLoop when its read     *)
(* fails; closeOnce lets one of them in and makes the other wait.           *)

CloseBegin ==
    /\ closing = "no"
    /\ closing' = "notify" /\ closed' = TRUE
    /\ UNCHANGED <<callVars, chanVars, rlVars, wireVars, clientEnd, serverEnd, connVars, workVars>>

CloseNotify ==
    /\ closing = "notify"
    /\ \/ /\ Writable(clientEnd, serverEnd, toServer)
          /\ toServer' = Append(toServer, Control("disconnect"))
       \/ WriteFails(clientEnd, serverEnd) /\ UNCHANGED toServer
    /\ closing' = "conn"
    /\ UNCHANGED <<callVars, chanVars, closed, rlVars, toClient, clientEnd, serverEnd, connVars, workVars>>

CloseConn ==
    /\ closing = "conn"
    /\ clientEnd' = "closed"
    /\ closing' = "pending"
    /\ UNCHANGED <<callVars, chanVars, closed, rlVars, wireVars, serverEnd, connVars, workVars>>

\* Close the channel of every pending call.
ClosePending ==
    /\ closing = "pending"
    /\ chanClosed' = chanClosed \cup ({pending[n] : n \in Seqs} \ {None})
    /\ pending' = [n \in Seqs |-> None]
    /\ closing' = "done"
    /\ UNCHANGED <<callVars, chan, closed, rlVars>>
    /\ UNCHANGED <<wireVars, clientEnd, serverEnd, connVars, workVars>>

-----------------------------------------------------------------------------
(* Client.readLoop.                                                         *)

\* A response is looked up under the lock; one nobody waits for is dropped.
\* An event is handed to its handlers, each in a goroutine (not modelled).
ReadFrame ==
    /\ rl = "read" /\ Readable(clientEnd, toClient)
    /\ toClient' = Tail(toClient)
    /\ LET f == Head(toClient) IN
       IF f.op \in {"response", "error"} /\ pending[f.seq] # None
       THEN rl' = "send" /\ rlTo' = pending[f.seq] /\ rlFrame' = f
       ELSE UNCHANGED <<rl, rlTo, rlFrame>>
    /\ UNCHANGED <<callVars, chanVars, closeVars, panicked, toServer>>
    /\ UNCHANGED <<clientEnd, serverEnd, connVars, workVars>>

\* It is sent after the unlock: to a full channel it waits, to a closed one it
\* panics.
ReadSend ==
    /\ rl = "send"
    /\ IF rlTo \in chanClosed
       THEN panicked' = TRUE /\ UNCHANGED <<chan, rl, rlTo, rlFrame>>
       ELSE /\ chan[rlTo] = <<>>
            /\ chan' = [chan EXCEPT ![rlTo] = <<rlFrame>>]
            /\ rl' = "read" /\ rlTo' = None /\ rlFrame' = Control("event")
            /\ UNCHANGED panicked
    /\ UNCHANGED <<callVars, pending, chanClosed, closeVars>>
    /\ UNCHANGED <<wireVars, clientEnd, serverEnd, connVars, workVars>>

\* Mutant: readLoop returns without closing the client.
ReadFailsQuietly ==
    /\ rl = "read" /\ ReadEnds(clientEnd, serverEnd)
    /\ rl' = "gone"
    /\ UNCHANGED <<callVars, chanVars, closeVars, rlTo, rlFrame, panicked>>
    /\ UNCHANGED <<wireVars, clientEnd, serverEnd, connVars, workVars>>

ReadFails ==
    /\ rl = "read" /\ ReadEnds(clientEnd, serverEnd)
    /\ rl' = "close"
    /\ UNCHANGED <<callVars, chanVars, closeVars, rlTo, rlFrame, panicked>>
    /\ UNCHANGED <<wireVars, clientEnd, serverEnd, connVars, workVars>>

ReadCloses == rl = "close" /\ CloseBegin

ReadReturns ==
    /\ rl = "close" /\ closing = "done"
    /\ rl' = "gone"
    /\ UNCHANGED <<callVars, chanVars, closeVars, rlTo, rlFrame, panicked>>
    /\ UNCHANGED <<wireVars, clientEnd, serverEnd, connVars, workVars>>

-----------------------------------------------------------------------------
(* The server: acceptLoop, handleConn, processRPC.                          *)

ClientSide == <<callVars, chanVars, closeVars, rlVars, clientEnd>>

Accept ==
    /\ conn = "backlog" /\ listening
    /\ conn' = "accepted"
    /\ UNCHANGED <<ClientSide, wireVars, serverEnd, listening, inConns, serverClose, workVars>>

\* s.conns gets the connection, and handleConn starts.
Register ==
    /\ conn = "accepted" /\ bcast = "idle"
    /\ conn' = "serving" /\ inConns' = TRUE
    /\ UNCHANGED <<ClientSide, wireVars, serverEnd, listening, serverClose, workVars>>

\* A request gets a goroutine; OpEventEmit has no case.
HandleFrame ==
    /\ conn = "serving" /\ Readable(serverEnd, toServer)
    /\ toServer' = Tail(toServer)
    /\ LET f == Head(toServer) IN
       /\ rpc' = IF f.op = "request" THEN [rpc EXCEPT ![f.call] = "handler"] ELSE rpc
       /\ conn' = IF f.op = "disconnect" THEN "closing" ELSE conn
    /\ UNCHANGED <<ClientSide, toClient, serverEnd, listening, inConns, serverClose, bcast, events>>

HandleFails ==
    /\ conn = "serving" /\ ReadEnds(serverEnd, clientEnd)
    /\ conn' = "closing"
    /\ UNCHANGED <<ClientSide, wireVars, serverEnd, listening, inConns, serverClose, workVars>>

\* handleConn's deferred function.
HandleClose ==
    /\ conn = "closing"
    /\ serverEnd' = "closed" /\ conn' = "leaving"
    /\ UNCHANGED <<ClientSide, wireVars, listening, inConns, serverClose, workVars>>

\* Mutant: the connection stays in s.conns.
HandleForgetNothing ==
    /\ conn = "leaving"
    /\ conn' = "gone"
    /\ UNCHANGED <<ClientSide, wireVars, serverEnd, listening, inConns, serverClose, workVars>>

HandleForget ==
    /\ conn = "leaving" /\ bcast = "idle"
    /\ conn' = "gone" /\ inConns' = FALSE
    /\ UNCHANGED <<ClientSide, wireVars, serverEnd, listening, serverClose, workVars>>

\* The handler returns a result or an error; no such method is an error too.
RpcReturn(c) ==
    /\ rpc[c] = "handler"
    /\ \E how \in {"response", "error"} : rpc' = [rpc EXCEPT ![c] = how]
    /\ UNCHANGED <<ClientSide, wireVars, serverEnd, connVars, bcast, events>>

\* Write frame f to the client, or fail to.
ServerWrites(f) ==
    \/ Writable(serverEnd, clientEnd, toClient) /\ toClient' = Append(toClient, f)
    \/ WriteFails(serverEnd, clientEnd) /\ UNCHANGED toClient

Answer(c) == [op |-> rpc[c], seq |-> seq[c], call |-> c]

\* Mutant: no return after sendRPCError, so the result is sent as well.
RpcWriteTwice(c) ==
    /\ rpc[c] \in {"response", "error"}
    /\ ServerWrites(Answer(c))
    /\ rpc' = [rpc EXCEPT ![c] = IF rpc[c] = "error" THEN "response" ELSE "done"]
    /\ UNCHANGED <<ClientSide, toServer, serverEnd, connVars, bcast, events>>

\* The answer carries the sequence number of its request.
RpcWrite(c) ==
    /\ rpc[c] \in {"response", "error"}
    /\ ServerWrites(Answer(c))
    /\ rpc' = [rpc EXCEPT ![c] = "done"]
    /\ UNCHANGED <<ClientSide, toServer, serverEnd, connVars, bcast, events>>

\* Server.Close; connections not yet accepted go with the listener.
ServerCloseListener ==
    /\ serverClose = "no"
    /\ serverClose' = "conns" /\ listening' = FALSE
    /\ IF conn = "backlog" THEN conn' = "gone" /\ serverEnd' = "closed"
                           ELSE UNCHANGED <<conn, serverEnd>>
    /\ UNCHANGED <<ClientSide, wireVars, inConns, workVars>>

ServerCloseConns ==
    /\ serverClose = "conns" /\ bcast = "idle"
    /\ serverClose' = "done" /\ inConns' = FALSE
    /\ serverEnd' = IF inConns THEN "closed" ELSE serverEnd
    /\ UNCHANGED <<ClientSide, wireVars, listening, conn, workVars>>

\* Broadcast holds connsMu while it writes to each connection in s.conns.
BroadcastBegin ==
    /\ bcast = "idle" /\ events < MaxEvents
    /\ events' = events + 1
    /\ bcast' = IF inConns THEN "writing" ELSE "idle"
    /\ UNCHANGED <<ClientSide, wireVars, serverEnd, connVars, rpc>>

BroadcastWrite ==
    /\ bcast = "writing"
    /\ ServerWrites(Control("event"))
    /\ bcast' = "idle"
    /\ UNCHANGED <<ClientSide, toServer, serverEnd, connVars, rpc, events>>

-----------------------------------------------------------------------------
(* A panic in readLoop ends the process of the client, and the run.         *)

CallStep(c) ==
    ~panicked /\ (CallWrite(c) \/ CallReceive(c) \/ CallChanClosed(c) \/ CallSeesClosed(c) \/ CallLeave(c))
CloseStep == ~panicked /\ (CloseNotify \/ CloseConn \/ ClosePending)
ReadStep == ~panicked /\ (ReadFrame \/ ReadSend \/ ReadFails \/ ReadCloses \/ ReadReturns)
AcceptStep == ~panicked /\ (Accept \/ Register)
HandleStep == ~panicked /\ (HandleFrame \/ HandleFails \/ HandleClose \/ HandleForget)
RpcStep(c) == ~panicked /\ (RpcReturn(c) \/ RpcWrite(c))
ServerCloseStep == ~panicked /\ ServerCloseConns
BroadcastStep == ~panicked /\ BroadcastWrite

\* What the programs on the two sides decide to do, and the clock.
Program ==
    /\ ~panicked
    /\ \/ \E c \in Calls : CallStart(c) \/ CallTimeout(c)
       \/ "client" \in Closers /\ CloseBegin
       \/ "server" \in Closers /\ ServerCloseListener
       \/ BroadcastBegin

Next ==
    \/ Program
    \/ \E c \in Calls : CallStep(c) \/ RpcStep(c)
    \/ CloseStep \/ ReadStep \/ AcceptStep \/ HandleStep \/ ServerCloseStep \/ BroadcastStep

(***************************************************************************)
(* Fairness: goroutines that can run do, and handlers return.  A timeout   *)
(* is not assumed to fire: what follows does not rest on it.               *)
(***************************************************************************)
Fairness ==
    /\ \A c \in Calls : WF_vars(CallStep(c)) /\ WF_vars(RpcStep(c))
    /\ WF_vars(CloseStep) /\ WF_vars(ReadStep)
    /\ WF_vars(AcceptStep) /\ WF_vars(HandleStep)
    /\ WF_vars(ServerCloseStep) /\ WF_vars(BroadcastStep)

Spec == Init /\ [][Next]_vars

FairSpec == Spec /\ Fairness

-----------------------------------------------------------------------------
(* Properties.                                                              *)

\* A call returns the answer to its own request, whatever calls overlap, time
\* out or are answered out of order (docs/aluka-ipc-protocol-spec.md, 3.2.5);
\* and a call that has returned is registered no more, so a late answer finds no
\* one, even when Close replaced the map while the call was in it.
OwnAnswer ==
    /\ TypeOK
    /\ \A c \in Calls : got[c] \in {c, None}
    /\ \A n \in Seqs : pending[n] # None => pc[pending[n]] # "returned"

\* readLoop never waits for room in a response channel: one response per call,
\* and a place for it, so one slow caller does not hold up the others.
ReadLoopNotHeldUp == rl = "send" => chan[rlTo] = <<>> \/ rlTo \in chanClosed

\* Every call that was started returns without its timeout's help: it is
\* answered, or the end of the connection reaches it, whichever side closes.
CallReturns == \A c \in Calls : pc[c] # "new" ~> pc[c] = "returned" \/ panicked

\* After the client has gone, handleConn ends and s.conns forgets it: Broadcast
\* does not go on writing to it (server.go:127-132).
ServerForgetsClient == clientEnd = "closed" ~> panicked \/ (conn = "gone" /\ ~inConns)

\* Closing the client never crashes the process: a pending call gets an error
\* (client.go:111).
CloseNeverPanics == ~panicked

\* Server.Close disconnects every connection (server.go:88).
ServerCloseDisconnects == serverClose = "done" ~> serverEnd = "closed" \/ panicked
=============================================================================

----------------------------- MODULE Aip_proofs -----------------------------
(***************************************************************************)
(* Proofs about Aip for any set of calls no larger than the range of the   *)
(* sequence numbers, any wire capacity and any number of events: a call    *)
(* returns the answer to its own request or none.                          *)
(***************************************************************************)
EXTENDS Aip, FiniteSetTheorems, TLAPS

-----------------------------------------------------------------------------
(* The inductive invariant                                                  *)

Started == {c \in Calls : pc[c] # "new"}

\* Sequence numbers are given out in order, to one call each; the last call may
\* take the number 0, when the counter wraps.
Numbered ==
    /\ Cardinality(Started) < SeqMod =>
        seqCounter = Cardinality(Started) /\ \A c \in Started : seq[c] \in 1..seqCounter
    /\ \A c, d \in Started : seq[c] = seq[d] => c = d

\* A frame under way names the call whose number it carries ...
Carries(f) == f.call \in Started /\ f.seq = seq[f.call]
Requests == \A i \in 1..Len(toServer) : toServer[i].op = "request" => Carries(toServer[i])
Answers == \A i \in 1..Len(toClient) : toClient[i].op \in {"response", "error"} => Carries(toClient[i])
Served == \A c \in Calls : rpc[c] # "none" => c \in Started

\* ... so the call registered under the number is the one it answers.
Registered ==
    \A n \in Seqs : pending[n] # None =>
        /\ pending[n] \in Started /\ pc[pending[n]] # "returned"
        /\ seq[pending[n]] = n
LookedUp == rl = "send" => rlTo \in Calls /\ rlFrame.call = rlTo
Delivered == \A c \in Calls : chan[c] # <<>> => Head(chan[c]).call = c
Own == \A c \in Calls : got[c] \in {c, None}

Wired == Requests /\ Answers /\ Served
Matched == Registered /\ LookedUp /\ Delivered /\ Own
IInv == TypeOK /\ Numbered /\ Wired /\ Matched

-----------------------------------------------------------------------------
(* Types                                                                    *)

LEMMA TailKeeps ==
    ASSUME NEW s \in Seq(Frames), s # <<>>
    PROVE  /\ Tail(s) \in Seq(Frames) /\ Head(s) \in Frames /\ Head(s) = s[1]
           /\ Len(s) \in Nat /\ Len(s) > 0 /\ Len(Tail(s)) = Len(s) - 1
           /\ \A i \in 1..Len(Tail(s)) : i + 1 \in 1..Len(s) /\ Tail(s)[i] = s[i + 1]
OBVIOUS

LEMMA AppendKeeps ==
    ASSUME NEW s \in Seq(Frames), NEW f \in Frames
    PROVE  /\ Append(s, f) \in Seq(Frames) /\ Len(Append(s, f)) = Len(s) + 1 /\ Len(s) \in Nat
           /\ \A i \in 1..Len(Append(s, f)) : Append(s, f)[i] = IF i = Len(s) + 1 THEN f ELSE s[i]
           /\ \A i \in 1..Len(Append(s, f)) : i # Len(s) + 1 => i \in 1..Len(s)
OBVIOUS

LEMMA ControlFrame == \A op \in {"event", "disconnect"} : Control(op) \in Frames
BY AipConstants DEF Control, Frames, Seqs

LEMMA InitTyped == Init => TypeOK
<1> SUFFICES ASSUME Init PROVE TypeOK
    OBVIOUS
<1>1. 0 \in Seqs
    BY AipConstants DEF Seqs
<1>2. Control("event") \in Frames
    BY ControlFrame
<1>3. QED
    BY <1>1, <1>2, AipConstants DEF Init, TypeOK

\* The client's calls.
LEMMA CallTypes ==
    ASSUME TypeOK, NEW c \in Calls,
           CallStart(c) \/ CallWrite(c) \/ CallReceive(c) \/ CallChanClosed(c) \/ CallTimeout(c)
           \/ CallSeesClosed(c) \/ CallLeave(c)
    PROVE  TypeOK'
<1> USE DEF closeVars, chanVars, rlVars, wireVars, connVars, workVars, Ends
<1>1. CASE CallStart(c)
    <2>1. (seqCounter + 1) % SeqMod \in Seqs
        BY AipConstants DEF TypeOK, Seqs
    <2>2. QED
        BY <1>1, <2>1 DEF CallStart, TypeOK
<1>2. CASE CallWrite(c)
    <2> DEFINE f == [op |-> "request", seq |-> seq[c], call |-> c]
    <2>1. f \in Frames
        BY DEF TypeOK, Frames
    <2>2. toServer' \in Seq(Frames) /\ Len(toServer') <= Wire
        <3>1. CASE Writable(clientEnd, serverEnd, toServer) /\ toServer' = Append(toServer, f)
            BY <2>1, <3>1, AppendKeeps, AipConstants DEF TypeOK, Writable
        <3>2. CASE toServer' = toServer
            BY <3>2 DEF TypeOK
        <3>3. QED
            BY <1>2, <3>1, <3>2 DEF CallWrite
    <2>3. /\ pc' \in [Calls -> {"new", "write", "wait", "leave", "returned"}]
          /\ result' \in [Calls -> {"none", "answer", "rpcError", "failed", "timeout"}]
        BY <1>2 DEF CallWrite, TypeOK
    <2>4. QED
        BY <1>2, <2>2, <2>3 DEF CallWrite, TypeOK
<1>3. CASE CallReceive(c)
    <2>1. Head(chan[c]).call \in Calls \cup {None}
        <3>1. chan[c] \in Seq(Frames) /\ chan[c] # <<>>
            BY <1>3 DEF TypeOK, CallReceive
        <3>2. QED
            BY <3>1, TailKeeps DEF Frames
    <2>2. chan' \in [Calls -> Seq(Frames)] /\ \A d \in Calls : Len(chan'[d]) <= 1
        <3>1. <<>> \in Seq(Frames) /\ Len(<<>>) = 0
            OBVIOUS
        <3>2. chan' = [chan EXCEPT ![c] = <<>>]
            BY <1>3 DEF CallReceive
        <3>3. QED
            BY <3>1, <3>2 DEF TypeOK
    <2>3. QED
        BY <1>3, <2>1, <2>2 DEF CallReceive, TypeOK
<1>4. CASE CallChanClosed(c) \/ CallTimeout(c) \/ CallSeesClosed(c)
    <2>1. \E how \in {"failed", "timeout"} : Ends(c, how)
        BY <1>4 DEF CallChanClosed, CallTimeout, CallSeesClosed
    <2>2. /\ pc' \in [Calls -> {"new", "write", "wait", "leave", "returned"}]
          /\ result' \in [Calls -> {"none", "answer", "rpcError", "failed", "timeout"}]
        BY <2>1 DEF TypeOK
    <2>3. /\ UNCHANGED <<seq, seqCounter, got, chanVars, closeVars, rlVars>>
          /\ UNCHANGED <<wireVars, clientEnd, serverEnd, connVars, workVars>>
        BY <1>4 DEF CallChanClosed, CallTimeout, CallSeesClosed
    <2>4. QED
        BY <2>2, <2>3 DEF TypeOK
<1>5. CASE CallLeave(c)
    BY <1>5 DEF CallLeave, TypeOK
<1>6. QED
    BY <1>1, <1>2, <1>3, <1>4, <1>5

\* Client.Close and readLoop.
LEMMA CloseTypes ==
    ASSUME TypeOK, CloseBegin \/ CloseNotify \/ CloseConn \/ ClosePending
    PROVE  TypeOK'
<1> USE DEF callVars, closeVars, chanVars, rlVars, wireVars, connVars, workVars
<1>1. CASE CloseBegin \/ CloseConn
    <2>1. CASE CloseBegin
        BY <2>1 DEF CloseBegin, TypeOK
    <2>2. CASE CloseConn
        BY <2>2 DEF CloseConn, TypeOK
    <2>3. QED
        BY <1>1, <2>1, <2>2
<1>2. CASE CloseNotify
    <2>1. toServer' \in Seq(Frames) /\ Len(toServer') <= Wire
        <3>1. CASE Writable(clientEnd, serverEnd, toServer) /\ toServer' = Append(toServer, Control("disconnect"))
            BY <3>1, ControlFrame, AppendKeeps, AipConstants DEF TypeOK, Writable
        <3>2. CASE toServer' = toServer
            BY <3>2 DEF TypeOK
        <3>3. QED
            BY <1>2, <3>1, <3>2 DEF CloseNotify
    <2>2. QED
        BY <1>2, <2>1 DEF CloseNotify, TypeOK
<1>3. CASE ClosePending
    BY <1>3 DEF ClosePending, TypeOK
<1>4. QED
    BY <1>1, <1>2, <1>3

LEMMA ReadTypes ==
    ASSUME TypeOK, LookedUp, ReadFrame \/ ReadSend \/ ReadFails \/ ReadCloses \/ ReadReturns
    PROVE  TypeOK'
<1> USE DEF callVars, closeVars, chanVars, rlVars, wireVars, connVars, workVars
<1>1. CASE ReadFrame
    <2> DEFINE f == Head(toClient)
    <2>1. toClient \in Seq(Frames) /\ toClient # <<>> /\ toClient' = Tail(toClient)
        BY <1>1 DEF TypeOK, ReadFrame, Readable
    <2>2. f \in Frames /\ toClient' \in Seq(Frames) /\ Len(toClient') <= Wire
        BY <2>1, TailKeeps, AipConstants DEF TypeOK
    <2>3. pending[f.seq] \in Calls \cup {None}
        BY <2>2 DEF TypeOK, Frames
    <2>4. rl' \in {"read", "send", "close", "gone"} /\ rlTo' \in Calls \cup {None} /\ rlFrame' \in Frames
        <3>1. CASE f.op \in {"response", "error"} /\ pending[f.seq] # None
            BY <1>1, <2>2, <2>3, <3>1 DEF ReadFrame
        <3>2. CASE ~(f.op \in {"response", "error"} /\ pending[f.seq] # None)
            BY <1>1, <3>2 DEF ReadFrame, TypeOK
        <3>3. QED
            BY <3>1, <3>2
    <2>5. QED
        BY <1>1, <2>2, <2>4 DEF ReadFrame, TypeOK
<1>2. CASE ReadSend
    <2>1. CASE rlTo \in chanClosed
        BY <1>2, <2>1 DEF ReadSend, TypeOK
    <2>2. CASE rlTo \notin chanClosed
        <3>1. /\ rlTo \in Calls /\ chan' = [chan EXCEPT ![rlTo] = <<rlFrame>>] /\ rlFrame \in Frames
              /\ rl' = "read" /\ rlTo' = None /\ rlFrame' = Control("event") /\ panicked' = panicked
            BY <1>2, <2>2 DEF ReadSend, LookedUp, TypeOK
        <3>2. <<rlFrame>> \in Seq(Frames) /\ Len(<<rlFrame>>) = 1
            BY <3>1
        <3>3. chan' \in [Calls -> Seq(Frames)] /\ \A c \in Calls : Len(chan'[c]) <= 1
            BY <3>1, <3>2 DEF TypeOK
        <3>4. Control("event") \in Frames
            BY ControlFrame
        <3>5. QED
            BY <1>2, <3>1, <3>3, <3>4 DEF ReadSend, TypeOK
    <2>3. QED
        BY <2>1, <2>2
<1>3. CASE ReadFails \/ ReadReturns
    BY <1>3 DEF ReadFails, ReadReturns, TypeOK
<1>4. CASE ReadCloses
    BY <1>4, CloseTypes DEF ReadCloses
<1>5. QED
    BY <1>1, <1>2, <1>3, <1>4

\* The server.
LEMMA ServerTypes ==
    ASSUME TypeOK, Requests,
           Accept \/ Register \/ HandleFrame \/ HandleFails \/ HandleClose \/ HandleForget
           \/ ServerCloseListener \/ ServerCloseConns \/ BroadcastBegin
    PROVE  TypeOK'
<1> USE DEF ClientSide, callVars, closeVars, chanVars, rlVars, wireVars, connVars, workVars
<1>1. CASE Accept \/ Register \/ HandleFails \/ HandleClose \/ HandleForget
    <2>1. CASE Accept
        BY <2>1 DEF Accept, TypeOK
    <2>2. CASE Register
        BY <2>2 DEF Register, TypeOK
    <2>3. CASE HandleFails
        BY <2>3 DEF HandleFails, TypeOK
    <2>4. CASE HandleClose
        BY <2>4 DEF HandleClose, TypeOK
    <2>5. CASE HandleForget
        <3>1. conn' \in {"backlog", "accepted", "serving", "closing", "leaving", "gone"} /\ inConns' \in BOOLEAN
            BY <2>5 DEF HandleForget
        <3>2. UNCHANGED <<ClientSide, wireVars, serverEnd, listening, serverClose, workVars>>
            BY <2>5 DEF HandleForget
        <3>3. QED
            BY <3>1, <3>2 DEF TypeOK
    <2>6. QED
        BY <1>1, <2>1, <2>2, <2>3, <2>4, <2>5
<1>2. CASE HandleFrame
    <2> DEFINE f == Head(toServer)
    <2>1. toServer \in Seq(Frames) /\ toServer # <<>> /\ toServer' = Tail(toServer)
        BY <1>2 DEF TypeOK, HandleFrame, Readable
    <2>2. toServer' \in Seq(Frames) /\ Len(toServer') <= Wire /\ f = toServer[1] /\ 1 \in 1..Len(toServer)
        BY <2>1, TailKeeps, AipConstants DEF TypeOK
    <2>3. f.op = "request" => f.call \in Calls
        BY <2>2 DEF Requests, Carries, Started
    <2>4. rpc' \in [Calls -> {"none", "handler", "response", "error", "done"}]
        <3>1. rpc' = rpc \/ (f.op = "request" /\ rpc' = [rpc EXCEPT ![f.call] = "handler"])
            BY <1>2 DEF HandleFrame
        <3>2. QED
            BY <2>3, <3>1 DEF TypeOK
    <2>5. conn' \in {"backlog", "accepted", "serving", "closing", "leaving", "gone"}
        BY <1>2 DEF HandleFrame, TypeOK
    <2>6. QED
        BY <1>2, <2>2, <2>4, <2>5 DEF HandleFrame, TypeOK
<1>3. CASE ServerCloseListener
    <2>1. serverEnd' \in {"open", "closed"} /\ listening' = FALSE /\ serverClose' = "conns"
          /\ conn' \in {"backlog", "accepted", "serving", "closing", "leaving", "gone"}
        BY <1>3 DEF ServerCloseListener, TypeOK
    <2>2. UNCHANGED <<ClientSide, wireVars, inConns, workVars>>
        BY <1>3 DEF ServerCloseListener
    <2>3. QED
        BY <2>1, <2>2 DEF TypeOK
<1>4. CASE ServerCloseConns
    <2>1. serverEnd' \in {"open", "closed"} /\ inConns' \in BOOLEAN /\ serverClose' \in {"no", "conns", "done"}
        BY <1>4 DEF ServerCloseConns, TypeOK
    <2>2. UNCHANGED <<ClientSide, wireVars, listening, conn, workVars>>
        BY <1>4 DEF ServerCloseConns
    <2>3. QED
        BY <2>1, <2>2 DEF TypeOK
<1>5. CASE BroadcastBegin
    BY <1>5, AipConstants DEF BroadcastBegin, TypeOK
<1>6. QED
    BY <1>1, <1>2, <1>3, <1>4, <1>5

LEMMA WriteTypes ==
    ASSUME TypeOK, NEW f \in Frames, ServerWrites(f)
    PROVE  toClient' \in Seq(Frames) /\ Len(toClient') <= Wire
<1>1. CASE Writable(serverEnd, clientEnd, toClient) /\ toClient' = Append(toClient, f)
    BY <1>1, AppendKeeps, AipConstants DEF TypeOK, Writable
<1>2. CASE toClient' = toClient
    BY <1>2 DEF TypeOK
<1>3. QED
    BY <1>1, <1>2 DEF ServerWrites

LEMMA AnswerTypes ==
    ASSUME TypeOK, BroadcastWrite \/ \E c \in Calls : RpcReturn(c) \/ RpcWrite(c)
    PROVE  TypeOK'
<1> USE DEF ClientSide, callVars, closeVars, chanVars, rlVars, wireVars, connVars, workVars
<1>1. CASE BroadcastWrite
    <2>1. toClient' \in Seq(Frames) /\ Len(toClient') <= Wire
        BY <1>1, ControlFrame, WriteTypes DEF BroadcastWrite
    <2>2. QED
        BY <1>1, <2>1 DEF BroadcastWrite, TypeOK
<1>2. ASSUME NEW c \in Calls, RpcReturn(c) PROVE TypeOK'
    <2>1. rpc' \in [Calls -> {"none", "handler", "response", "error", "done"}]
        BY <1>2 DEF RpcReturn, TypeOK
    <2>2. QED
        BY <1>2, <2>1 DEF RpcReturn, TypeOK
<1>3. ASSUME NEW c \in Calls, RpcWrite(c) PROVE TypeOK'
    <2>1. Answer(c) \in Frames
        BY <1>3 DEF RpcWrite, Answer, Frames, TypeOK
    <2>2. toClient' \in Seq(Frames) /\ Len(toClient') <= Wire
        BY <1>3, <2>1, WriteTypes DEF RpcWrite
    <2>3. QED
        BY <1>3, <2>2 DEF RpcWrite, TypeOK
<1>4. QED
    BY <1>1, <1>2, <1>3

-----------------------------------------------------------------------------
(* What a step leaves as it is                                              *)

\* Calls that were started stay so, and keep their numbers.
Grow == Started \subseteq Started' /\ \A c \in Started : seq'[c] = seq[c]

LEMMA Stays ==
    ASSUME IInv, Grow
    PROVE  /\ Started' = Started /\ seqCounter' = seqCounter => Numbered'
           /\ toServer' = toServer => Requests'
           /\ toClient' = toClient => Answers'
           /\ rpc' = rpc => Served'
           /\ pending' = pending /\ (\A c \in Calls : pc'[c] = "returned" => pc[c] = "returned") => Registered'
           /\ UNCHANGED <<rl, rlTo, rlFrame>> => LookedUp'
           /\ chan' = chan => Delivered'
           /\ got' = got => Own'
<1>0. TypeOK /\ Numbered /\ Requests /\ Answers /\ Served /\ Registered /\ LookedUp /\ Delivered /\ Own
    BY DEF IInv, Wired, Matched
<1>1. ASSUME Started' = Started, seqCounter' = seqCounter PROVE Numbered'
    BY <1>0, <1>1 DEF Numbered, Grow
<1>2. ASSUME toServer' = toServer PROVE Requests'
    BY <1>0, <1>2 DEF Requests, Carries, Grow
<1>3. ASSUME toClient' = toClient PROVE Answers'
    BY <1>0, <1>3 DEF Answers, Carries, Grow
<1>4. ASSUME rpc' = rpc PROVE Served'
    BY <1>0, <1>4 DEF Served, Grow
<1>5. ASSUME pending' = pending, \A c \in Calls : pc'[c] = "returned" => pc[c] = "returned" PROVE Registered'
    <2>1. SUFFICES ASSUME NEW n \in Seqs, pending[n] # None
                   PROVE  pending[n] \in Started' /\ pc'[pending[n]] # "returned" /\ seq'[pending[n]] = n
        BY <1>5 DEF Registered
    <2>2. pending[n] \in Started /\ pc[pending[n]] # "returned" /\ seq[pending[n]] = n
        BY <1>0, <2>1 DEF Registered
    <2>3. pending[n] \in Calls
        BY <2>2 DEF Started
    <2>4. QED
        BY <1>5, <2>2, <2>3 DEF Grow
<1>6. ASSUME UNCHANGED <<rl, rlTo, rlFrame>> PROVE LookedUp'
    BY <1>0, <1>6 DEF LookedUp
<1>7. ASSUME chan' = chan PROVE Delivered'
    BY <1>0, <1>7 DEF Delivered
<1>8. ASSUME got' = got PROVE Own'
    BY <1>0, <1>8 DEF Own
<1>9. QED
    BY <1>1, <1>2, <1>3, <1>4, <1>5, <1>6, <1>7, <1>8

\* A frame leaves a direction at its head, or joins it at its end.
LEMMA WireMoves ==
    ASSUME IInv, Grow
    PROVE  /\ toServer # <<>> /\ toServer' = Tail(toServer) => Requests'
           /\ toClient # <<>> /\ toClient' = Tail(toClient) => Answers'
           /\ \A f \in Frames :
                /\ toServer' = Append(toServer, f) /\ (f.op = "request" => Carries(f)) => Requests'
                /\ toClient' = Append(toClient, f) /\ (f.op \in {"response", "error"} => Carries(f)) => Answers'
<1>0. toServer \in Seq(Frames) /\ toClient \in Seq(Frames) /\ Requests /\ Answers
    BY DEF IInv, Wired, TypeOK
<1>1. ASSUME toServer # <<>>, toServer' = Tail(toServer) PROVE Requests'
    BY <1>0, <1>1, TailKeeps DEF Requests, Carries, Grow
<1>2. ASSUME toClient # <<>>, toClient' = Tail(toClient) PROVE Answers'
    BY <1>0, <1>2, TailKeeps DEF Answers, Carries, Grow
<1>3. ASSUME NEW f \in Frames, toServer' = Append(toServer, f), f.op = "request" => Carries(f) PROVE Requests'
    <2>1. SUFFICES ASSUME NEW i \in 1..Len(toServer'), toServer'[i].op = "request"
                   PROVE  toServer'[i].call \in Started' /\ toServer'[i].seq = seq'[toServer'[i].call]
        BY DEF Requests, Carries
    <2>2. Carries(toServer'[i])
        BY <1>0, <1>3, <2>1, AppendKeeps DEF Requests
    <2>3. QED
        BY <2>2 DEF Carries, Grow
<1>4. ASSUME NEW f \in Frames, toClient' = Append(toClient, f), f.op \in {"response", "error"} => Carries(f) PROVE Answers'
    <2>1. SUFFICES ASSUME NEW i \in 1..Len(toClient'), toClient'[i].op \in {"response", "error"}
                   PROVE  toClient'[i].call \in Started' /\ toClient'[i].seq = seq'[toClient'[i].call]
        BY DEF Answers, Carries
    <2>2. Carries(toClient'[i])
        BY <1>0, <1>4, <2>1, AppendKeeps DEF Answers
    <2>3. QED
        BY <2>2 DEF Carries, Grow
<1>5. QED
    BY <1>1, <1>2, <1>3, <1>4

LEMMA QuietStep ==
    ASSUME IInv, TypeOK', UNCHANGED <<pc, seq, seqCounter, pending, chan, got, rlTo, rlFrame, toServer, toClient, rpc>>,
           rl' = "send" => rl = "send"
    PROVE  IInv'
<1>1. Started' = Started /\ Grow
    BY DEF Started, Grow
<1>2. LookedUp'
    BY DEF IInv, Matched, LookedUp
<1>3. QED
    BY <1>1, <1>2, Stays DEF IInv, Wired, Matched

\* A call goes on: it was started before and has not just returned.
LEMMA GoesOn ==
    ASSUME TypeOK, NEW c \in Calls, pc[c] \in {"write", "wait"}, NEW to \in {"wait", "leave"},
           pc' = [pc EXCEPT ![c] = to], seq' = seq
    PROVE  Started' = Started /\ Grow /\ \A d \in Calls : pc'[d] = "returned" => pc[d] = "returned"
BY DEF TypeOK, Started, Grow

-----------------------------------------------------------------------------
(* One action at a time                                                     *)

LEMMA InitHolds == Init => IInv
<1> SUFFICES ASSUME Init PROVE IInv
    OBVIOUS
<1>1. TypeOK
    BY InitTyped
<1>2. Numbered
    <2>1. Started = {} /\ Cardinality({}) = 0
        BY FS_EmptySet DEF Init, Started
    <2>2. QED
        BY <2>1 DEF Init, Numbered
<1>3. Wired
    BY DEF Init, Wired, Requests, Answers, Served
<1>4. Matched
    BY DEF Init, Matched, Registered, LookedUp, Delivered, Own
<1>5. QED
    BY <1>1, <1>2, <1>3, <1>4 DEF IInv

Few == Cardinality(Calls) <= SeqMod

LEMMA StartKeeps ==
    ASSUME Few, IInv, NEW c \in Calls, CallStart(c)
    PROVE  IInv'
<1>0. TypeOK /\ Numbered /\ Registered
    BY DEF IInv, Matched
<1>1. TypeOK'
    BY <1>0, CallTypes
<1>2. /\ pc[c] = "new" /\ pc' = [pc EXCEPT ![c] = "write"] /\ seqCounter' = (seqCounter + 1) % SeqMod
      /\ seq' = [seq EXCEPT ![c] = seqCounter'] /\ pending' = [pending EXCEPT ![seqCounter'] = c]
      /\ UNCHANGED <<chan, got, rl, rlTo, rlFrame, toServer, toClient, rpc>>
    BY DEF CallStart, rlVars, wireVars, workVars
<1>3. c \notin Started /\ Started' = Started \cup {c} /\ Started \subseteq Calls
    BY <1>0, <1>2 DEF Started, TypeOK
<1>4. /\ seqCounter \in Nat /\ seqCounter + 1 <= SeqMod /\ SeqMod \in Nat \ {0}
      /\ seqCounter = Cardinality(Started) /\ Cardinality(Started') = seqCounter + 1
    <2>1. IsFiniteSet(Started) /\ IsFiniteSet(Started')
        BY <1>3, AipConstants, FS_Subset, FS_AddElement
    <2>2. Cardinality(Started') = Cardinality(Started) + 1
        BY <1>3, <2>1, FS_AddElement
    <2>3. Cardinality(Started') <= Cardinality(Calls)
        BY <1>0, <1>3, AipConstants, FS_Subset
    <2>4. Cardinality(Started) \in Nat /\ Cardinality(Calls) \in Nat /\ SeqMod \in Nat \ {0}
        BY <2>1, AipConstants, FS_CardinalityType
    <2>5. QED
        BY <1>0, <2>2, <2>3, <2>4 DEF Numbered, Few
<1>5. Grow
    BY <1>0, <1>2, <1>3 DEF Grow, TypeOK, Started
<1>6. Numbered'
    <2>1. \A d \in Started : seq'[d] = seq[d] /\ seq[d] \in 1..seqCounter
        BY <1>0, <1>4, <1>5 DEF Grow, Numbered
    <2>2. seq'[c] = seqCounter'
        BY <1>0, <1>2 DEF TypeOK
    <2>3. \A d, e \in Started : seq[d] = seq[e] => d = e
        BY <1>0 DEF Numbered
    <2>4. CASE seqCounter + 1 < SeqMod
        <3>1. seqCounter' = seqCounter + 1
            BY <1>2, <1>4, <2>4
        <3>2. \A d \in Started' : seq'[d] \in 1..seqCounter'
            BY <1>3, <1>4, <2>1, <2>2, <3>1
        <3>3. \A d, e \in Started' : seq'[d] = seq'[e] => d = e
            BY <1>3, <1>4, <2>1, <2>2, <2>3, <3>1
        <3>4. QED
            BY <1>4, <3>1, <3>2, <3>3 DEF Numbered
    <2>5. CASE seqCounter + 1 = SeqMod
        <3>1. seqCounter' = 0
            BY <1>2, <1>4, <2>5
        <3>2. \A d, e \in Started' : seq'[d] = seq'[e] => d = e
            BY <1>3, <1>4, <2>1, <2>2, <2>3, <3>1
        <3>3. QED
            BY <1>4, <2>5, <3>2 DEF Numbered
    <2>6. QED
        BY <1>4, <2>4, <2>5
<1>7. Registered'
    <2>1. SUFFICES ASSUME NEW n \in Seqs, pending'[n] # None
                   PROVE  pending'[n] \in Started' /\ pc'[pending'[n]] # "returned" /\ seq'[pending'[n]] = n
        BY DEF Registered
    <2>2. seqCounter' \in Seqs
        BY <1>1 DEF TypeOK
    <2>3. CASE n = seqCounter'
        BY <1>0, <1>2, <1>3, <2>2, <2>3 DEF TypeOK
    <2>4. CASE n # seqCounter'
        <3>1. pending'[n] = pending[n]
            BY <1>0, <1>2, <2>2, <2>4 DEF TypeOK
        <3>2. pending[n] \in Started /\ pc[pending[n]] # "returned" /\ seq[pending[n]] = n
            BY <1>0, <2>1, <3>1 DEF Registered
        <3>3. pending[n] # c /\ pending[n] \in Calls
            BY <1>3, <3>2
        <3>4. QED
            BY <1>0, <1>2, <1>3, <3>1, <3>2, <3>3 DEF TypeOK
    <2>5. QED
        BY <2>3, <2>4
<1>8. Wired' /\ LookedUp' /\ Delivered' /\ Own'
    BY <1>2, <1>5, Stays DEF Wired
<1>9. QED
    BY <1>1, <1>6, <1>7, <1>8 DEF IInv, Matched

LEMMA CallKeeps ==
    ASSUME IInv, NEW c \in Calls,
           CallWrite(c) \/ CallReceive(c) \/ CallChanClosed(c) \/ CallTimeout(c) \/ CallSeesClosed(c) \/ CallLeave(c)
    PROVE  IInv'
<1>0. TypeOK /\ Numbered /\ Registered /\ Delivered /\ Own
    BY DEF IInv, Matched
<1>1. TypeOK'
    BY <1>0, CallTypes
<1>2. UNCHANGED <<seq, seqCounter, rl, rlTo, rlFrame, toClient, rpc>>
    BY DEF CallWrite, CallReceive, CallChanClosed, CallTimeout, CallSeesClosed, CallLeave, rlVars, wireVars, workVars
<1>3. CASE CallWrite(c)
    <2>1. pc[c] = "write" /\ UNCHANGED <<pending, chan, got>> /\ \E to \in {"wait", "leave"} : pc' = [pc EXCEPT ![c] = to]
        BY <1>3 DEF CallWrite, Ends, chanVars
    <2>2. Started' = Started /\ Grow /\ \A d \in Calls : pc'[d] = "returned" => pc[d] = "returned"
        BY <1>0, <1>2, <2>1, GoesOn
    <2>3. Requests'
        <3> DEFINE f == [op |-> "request", seq |-> seq[c], call |-> c]
        <3>1. f \in Frames /\ Carries(f)
            BY <1>0, <2>1 DEF TypeOK, Frames, Carries, Started
        <3>2. toServer' = toServer \/ toServer' = Append(toServer, f)
            BY <1>3 DEF CallWrite
        <3>3. QED
            BY <2>2, <3>1, <3>2, Stays, WireMoves
    <2>4. QED
        BY <1>1, <1>2, <2>1, <2>2, <2>3, Stays DEF IInv, Wired, Matched
<1>4. CASE CallReceive(c)
    <2>1. /\ pc[c] = "wait" /\ chan[c] # <<>> /\ chan' = [chan EXCEPT ![c] = <<>>]
          /\ got' = [got EXCEPT ![c] = Head(chan[c]).call]
          /\ pc' = [pc EXCEPT ![c] = "leave"] /\ UNCHANGED <<pending, toServer>>
        BY <1>4 DEF CallReceive, Ends, wireVars
    <2>2. Started' = Started /\ Grow /\ \A d \in Calls : pc'[d] = "returned" => pc[d] = "returned"
        BY <1>0, <1>2, <2>1, GoesOn
    <2>3. Own'
        BY <1>0, <2>1 DEF Delivered, Own, TypeOK
    <2>4. Delivered'
        BY <1>0, <2>1 DEF Delivered, TypeOK
    <2>5. QED
        BY <1>1, <1>2, <2>1, <2>2, <2>3, <2>4, Stays DEF IInv, Wired, Matched
<1>5. CASE CallChanClosed(c) \/ CallTimeout(c) \/ CallSeesClosed(c)
    <2>1. /\ pc[c] = "wait" /\ pc' = [pc EXCEPT ![c] = "leave"] /\ UNCHANGED <<pending, chan, got, toServer>>
        BY <1>5 DEF CallChanClosed, CallTimeout, CallSeesClosed, Ends, chanVars, wireVars
    <2>2. Started' = Started /\ Grow /\ \A d \in Calls : pc'[d] = "returned" => pc[d] = "returned"
        BY <1>0, <1>2, <2>1, GoesOn
    <2>3. QED
        BY <1>1, <1>2, <2>1, <2>2, Stays DEF IInv, Wired, Matched
<1>6. CASE CallLeave(c)
    <2>1. /\ pc[c] = "leave" /\ pc' = [pc EXCEPT ![c] = "returned"] /\ pending' = [pending EXCEPT ![seq[c]] = None]
          /\ UNCHANGED <<got, chan, toServer>>
        BY <1>6 DEF CallLeave, wireVars
    <2>2. Started' = Started /\ Grow /\ \A d \in Calls : pc'[d] = "returned" => pc[d] = "returned" \/ d = c
        BY <1>0, <1>2, <2>1 DEF TypeOK, Started, Grow
    <2>3. Registered'
        <3>1. SUFFICES ASSUME NEW n \in Seqs, pending'[n] # None
                       PROVE  pending'[n] \in Started' /\ pc'[pending'[n]] # "returned" /\ seq'[pending'[n]] = n
            BY DEF Registered
        <3>2. n # seq[c] /\ pending'[n] = pending[n]
            BY <1>0, <2>1, <3>1 DEF TypeOK
        <3>3. pending[n] \in Started /\ pc[pending[n]] # "returned" /\ seq[pending[n]] = n
            BY <1>0, <3>1, <3>2 DEF Registered
        <3>4. pending[n] # c /\ pending[n] \in Calls
            BY <3>2, <3>3 DEF Started
        <3>5. QED
            BY <1>2, <2>2, <3>2, <3>3, <3>4
    <2>4. QED
        BY <1>1, <1>2, <2>1, <2>2, <2>3, Stays DEF IInv, Wired, Matched
<1>7. QED
    BY <1>3, <1>4, <1>5, <1>6

LEMMA CloseKeeps ==
    ASSUME IInv, CloseBegin \/ CloseNotify \/ CloseConn \/ ClosePending
    PROVE  IInv'
<1>0. TypeOK'
    BY CloseTypes DEF IInv
<1>1. CASE CloseBegin \/ CloseConn
    <2>1. UNCHANGED <<pc, seq, seqCounter, pending, chan, got, rl, rlTo, rlFrame, toServer, toClient, rpc>>
        BY <1>1 DEF CloseBegin, CloseConn, callVars, chanVars, rlVars, wireVars, workVars
    <2>2. QED
        BY <1>0, <2>1, QuietStep
<1>2. CASE CloseNotify
    <2>1. UNCHANGED <<pc, seq, seqCounter, pending, chan, got, rl, rlTo, rlFrame, toClient, rpc>>
        BY <1>2 DEF CloseNotify, callVars, chanVars, rlVars, workVars
    <2>2. Started' = Started /\ Grow
        BY <2>1 DEF Started, Grow
    <2>3. Requests'
        <3>1. toServer' = toServer \/ toServer' = Append(toServer, Control("disconnect"))
            BY <1>2 DEF CloseNotify
        <3>2. Control("disconnect") \in Frames /\ Control("disconnect").op # "request"
            BY ControlFrame DEF Control
        <3>3. QED
            BY <2>2, <3>1, <3>2, Stays, WireMoves
    <2>4. QED
        BY <1>0, <2>1, <2>2, <2>3, Stays DEF IInv, Wired, Matched
<1>3. CASE ClosePending
    <2>1. /\ UNCHANGED <<pc, seq, seqCounter, chan, got, rl, rlTo, rlFrame, toServer, toClient, rpc>>
          /\ pending' = [n \in Seqs |-> None]
        BY <1>3 DEF ClosePending, callVars, rlVars, wireVars, workVars
    <2>2. Started' = Started /\ Grow
        BY <2>1 DEF Started, Grow
    <2>3. Registered'
        BY <2>1 DEF Registered
    <2>4. QED
        BY <1>0, <2>1, <2>2, <2>3, Stays DEF IInv, Wired, Matched
<1>4. QED
    BY <1>1, <1>2, <1>3

LEMMA ReadKeeps ==
    ASSUME IInv, ReadFrame \/ ReadSend \/ ReadFails \/ ReadCloses \/ ReadReturns
    PROVE  IInv'
<1>0. TypeOK /\ Answers /\ Numbered /\ Registered /\ LookedUp /\ Delivered
    BY DEF IInv, Wired, Matched
<1>1. TypeOK'
    BY <1>0, ReadTypes
<1>2. CASE ReadFrame
    <2> DEFINE f == Head(toClient)
    <2>1. /\ toClient # <<>> /\ toClient' = Tail(toClient) /\ rl = "read"
          /\ UNCHANGED <<pc, seq, seqCounter, pending, chan, got, toServer, rpc>>
          /\ \/ f.op \in {"response", "error"} /\ pending[f.seq] # None
                /\ rlTo' = pending[f.seq] /\ rlFrame' = f
             \/ rl' = "read"
        BY <1>2 DEF ReadFrame, Readable, callVars, chanVars, workVars
    <2>2. Started' = Started /\ Grow
        BY <2>1 DEF Started, Grow
    <2>3. Answers'
        BY <2>1, <2>2, WireMoves
    <2>4. LookedUp'
        <3>1. CASE f.op \in {"response", "error"} /\ pending[f.seq] # None
                   /\ rlTo' = pending[f.seq] /\ rlFrame' = f
            <4>1. f = toClient[1] /\ 1 \in 1..Len(toClient) /\ f \in Frames
                BY <1>0, <2>1, TailKeeps DEF TypeOK
            <4>2. f.call \in Started /\ f.seq = seq[f.call] /\ f.seq \in Seqs
                BY <1>0, <3>1, <4>1 DEF Answers, Carries, Frames
            <4>3. pending[f.seq] \in Started /\ seq[pending[f.seq]] = f.seq
                BY <1>0, <3>1, <4>2 DEF Registered
            <4>4. pending[f.seq] = f.call
                BY <1>0, <4>2, <4>3 DEF Numbered
            <4>5. QED
                BY <3>1, <4>2, <4>4 DEF LookedUp, Started
        <3>2. CASE rl' = "read"
            BY <3>2 DEF LookedUp
        <3>3. QED
            BY <2>1, <3>1, <3>2
    <2>5. QED
        BY <1>1, <2>1, <2>2, <2>3, <2>4, Stays DEF IInv, Wired, Matched
<1>3. CASE ReadSend
    <2>1. UNCHANGED <<pc, seq, seqCounter, pending, got, toServer, toClient, rpc>>
        BY <1>3 DEF ReadSend, callVars, wireVars, workVars
    <2>2. Started' = Started /\ Grow
        BY <2>1 DEF Started, Grow
    <2>3. LookedUp' /\ Delivered'
        <3>1. CASE rlTo \in chanClosed
            BY <1>0, <1>3, <3>1 DEF ReadSend, LookedUp, Delivered
        <3>2. CASE rlTo \notin chanClosed
            <4>1. rlTo \in Calls /\ rlFrame.call = rlTo /\ chan' = [chan EXCEPT ![rlTo] = <<rlFrame>>] /\ rl' = "read"
                BY <1>0, <1>3, <3>2 DEF ReadSend, LookedUp
            <4>2. Head(<<rlFrame>>) = rlFrame
                OBVIOUS
            <4>3. QED
                BY <1>0, <4>1, <4>2 DEF LookedUp, Delivered, TypeOK
        <3>3. QED
            BY <3>1, <3>2
    <2>4. QED
        BY <1>1, <2>1, <2>2, <2>3, Stays DEF IInv, Wired, Matched
<1>4. CASE ReadFails \/ ReadReturns
    <2>1. /\ UNCHANGED <<pc, seq, seqCounter, pending, chan, got, rlTo, rlFrame, toServer, toClient, rpc>>
          /\ rl' # "send"
        BY <1>4 DEF ReadFails, ReadReturns, callVars, chanVars, wireVars, workVars
    <2>2. QED
        BY <1>1, <2>1, QuietStep
<1>5. CASE ReadCloses
    BY <1>5, CloseKeeps DEF ReadCloses
<1>6. QED
    BY <1>2, <1>3, <1>4, <1>5

LEMMA ServerKeeps ==
    ASSUME IInv,
           Accept \/ Register \/ HandleFrame \/ HandleFails \/ HandleClose \/ HandleForget
           \/ ServerCloseListener \/ ServerCloseConns \/ BroadcastBegin
    PROVE  IInv'
<1>0. TypeOK /\ Requests /\ Served
    BY DEF IInv, Wired
<1>1. TypeOK'
    BY <1>0, ServerTypes
<1>2. CASE Accept \/ Register \/ HandleFails \/ HandleClose \/ HandleForget
           \/ ServerCloseListener \/ ServerCloseConns \/ BroadcastBegin
    <2>1. UNCHANGED <<ClientSide, wireVars, rpc>>
        BY <1>2 DEF Accept, Register, HandleFails, HandleClose, HandleForget,
                    ServerCloseListener, ServerCloseConns, BroadcastBegin, workVars
    <2>2. QED
        BY <1>1, <2>1, QuietStep DEF ClientSide, callVars, chanVars, rlVars, wireVars
<1>3. CASE HandleFrame
    <2> DEFINE f == Head(toServer)
    <2>1. /\ toServer # <<>> /\ toServer' = Tail(toServer) /\ UNCHANGED <<ClientSide, toClient>>
          /\ rpc' = rpc \/ (f.op = "request" /\ rpc' = [rpc EXCEPT ![f.call] = "handler"])
        BY <1>3 DEF HandleFrame, Readable
    <2>2. UNCHANGED <<pc, seq, seqCounter, pending, chan, got, rl, rlTo, rlFrame>>
        BY <2>1 DEF ClientSide, callVars, chanVars, rlVars
    <2>3. Started' = Started /\ Grow
        BY <2>2 DEF Started, Grow
    <2>4. Requests'
        BY <2>1, <2>3, WireMoves
    <2>5. Served'
        <3>1. f = toServer[1] /\ 1 \in 1..Len(toServer)
            BY <1>0, <2>1, TailKeeps DEF TypeOK
        <3>2. f.op = "request" => f.call \in Started
            BY <1>0, <3>1 DEF Requests, Carries
        <3>3. QED
            BY <1>0, <2>1, <2>3, <3>2 DEF Served, TypeOK
    <2>6. QED
        BY <1>1, <2>1, <2>2, <2>3, <2>4, <2>5, Stays DEF IInv, Wired, Matched
<1>4. QED
    BY <1>2, <1>3

LEMMA AnswerKeeps ==
    ASSUME IInv, BroadcastWrite \/ \E c \in Calls : RpcReturn(c) \/ RpcWrite(c)
    PROVE  IInv'
<1>0. TypeOK /\ Served
    BY DEF IInv, Wired
<1>1. TypeOK'
    BY <1>0, AnswerTypes
<1>2. UNCHANGED <<pc, seq, seqCounter, pending, chan, got, rl, rlTo, rlFrame, toServer>>
    BY DEF BroadcastWrite, RpcReturn, RpcWrite, ClientSide, callVars, chanVars, rlVars, wireVars
<1>3. Started' = Started /\ Grow
    BY <1>2 DEF Started, Grow
<1>4. CASE BroadcastWrite
    <2>1. rpc' = rpc /\ (toClient' = toClient \/ toClient' = Append(toClient, Control("event")))
        BY <1>4 DEF BroadcastWrite, ServerWrites
    <2>2. Control("event") \in Frames /\ Control("event").op \notin {"response", "error"}
        BY ControlFrame DEF Control
    <2>3. Answers'
        BY <1>3, <2>1, <2>2, Stays, WireMoves
    <2>4. QED
        BY <1>1, <1>2, <1>3, <2>1, <2>3, Stays DEF IInv, Wired, Matched
<1>5. ASSUME NEW c \in Calls, RpcReturn(c) PROVE IInv'
    <2>1. /\ rpc[c] = "handler" /\ toClient' = toClient /\ \E how \in {"response", "error"} : rpc' = [rpc EXCEPT ![c] = how]
        BY <1>5 DEF RpcReturn, wireVars
    <2>2. Served'
        BY <1>0, <1>3, <2>1 DEF Served, TypeOK
    <2>3. QED
        BY <1>1, <1>2, <1>3, <2>1, <2>2, Stays DEF IInv, Wired, Matched
<1>6. ASSUME NEW c \in Calls, RpcWrite(c) PROVE IInv'
    <2>1. /\ rpc[c] \in {"response", "error"} /\ rpc' = [rpc EXCEPT ![c] = "done"]
          /\ toClient' = toClient \/ toClient' = Append(toClient, Answer(c))
        BY <1>6 DEF RpcWrite, ServerWrites
    <2>2. c \in Started
        BY <1>0, <2>1 DEF Served
    <2>3. Answer(c) \in Frames /\ Carries(Answer(c))
        BY <1>0, <2>1, <2>2 DEF Answer, Frames, Carries, TypeOK
    <2>4. Answers'
        BY <1>3, <2>1, <2>3, Stays, WireMoves
    <2>5. Served'
        BY <1>0, <1>3, <2>1 DEF Served, TypeOK
    <2>6. QED
        BY <1>1, <1>2, <1>3, <2>4, <2>5, Stays DEF IInv, Wired, Matched
<1>7. QED
    BY <1>4, <1>5, <1>6

LEMMA StutterKeeps == IInv /\ UNCHANGED vars => IInv'
<1> SUFFICES ASSUME IInv, UNCHANGED vars PROVE IInv'
    OBVIOUS
<1> USE DEF vars, callVars, chanVars, closeVars, rlVars, wireVars, connVars, workVars
<1>1. TypeOK'
    BY DEF IInv, TypeOK
<1>2. QED
    BY <1>1, QuietStep

\* Every step keeps the invariant.
LEMMA NextKeeps ==
    ASSUME Few, IInv, [Next]_vars
    PROVE  IInv'
<1>1. ASSUME NEW c \in Calls, CallStep(c) PROVE IInv'
    BY <1>1, CallKeeps DEF CallStep
<1>2. ASSUME NEW c \in Calls, RpcStep(c) PROVE IInv'
    BY <1>2, AnswerKeeps DEF RpcStep
<1>3. CASE CloseStep
    BY <1>3, CloseKeeps DEF CloseStep
<1>4. CASE ReadStep
    BY <1>4, ReadKeeps DEF ReadStep
<1>5. CASE AcceptStep \/ HandleStep \/ ServerCloseStep
    BY <1>5, ServerKeeps DEF AcceptStep, HandleStep, ServerCloseStep
<1>6. CASE BroadcastStep
    BY <1>6, AnswerKeeps DEF BroadcastStep
<1>7. CASE Program
    <2>1. ASSUME NEW c \in Calls, CallStart(c) PROVE IInv'
        BY <2>1, StartKeeps
    <2>2. ASSUME NEW c \in Calls, CallTimeout(c) PROVE IInv'
        BY <2>2, CallKeeps
    <2>3. CASE CloseBegin
        BY <2>3, CloseKeeps
    <2>4. CASE ServerCloseListener \/ BroadcastBegin
        BY <2>4, ServerKeeps
    <2>5. QED
        BY <1>7, <2>1, <2>2, <2>3, <2>4 DEF Program
<1>8. CASE UNCHANGED vars
    BY <1>8, StutterKeeps
<1>9. QED
    BY <1>1, <1>2, <1>3, <1>4, <1>5, <1>6, <1>7, <1>8 DEF Next

\* The client, the server and the connection stay matched, for no more calls
\* than there are sequence numbers.
THEOREM Inductive == Few => (Spec => []IInv)
<1> SUFFICES ASSUME Few PROVE Spec => []IInv
    OBVIOUS
<1>1. IInv /\ [Next]_vars => IInv'
    BY NextKeeps
<1>2. QED
    BY InitHolds, <1>1, PTL DEF Spec

-----------------------------------------------------------------------------
(* One answer per call                                                      *)

Req(c, i) == i \in 1..Len(toServer) /\ toServer[i].op = "request" /\ toServer[i].call = c
Ans(c, i) == i \in 1..Len(toClient) /\ toClient[i].op \in {"response", "error"} /\ toClient[i].call = c
Sending(c) == rl = "send" /\ rlTo = c

\* A call's request, its processRPC and its answer follow each other: at any
\* time one of them is under way, in one place.
Unsent == \A c \in Calls : pc[c] \in {"new", "write"} => rpc[c] = "none" /\ \A i \in Nat : ~Req(c, i)
OneRequest ==
    \A c \in Calls, i \in Nat : Req(c, i) =>
        rpc[c] = "none" /\ \A j \in Nat : Req(c, j) => j = i
Unanswered ==
    \A c \in Calls : rpc[c] # "done" => chan[c] = <<>> /\ ~Sending(c) /\ \A i \in Nat : ~Ans(c, i)
OneAnswer ==
    \A c \in Calls, i \in Nat : Ans(c, i) =>
        chan[c] = <<>> /\ ~Sending(c) /\ \A j \in Nat : Ans(c, j) => j = i
Room == \A c \in Calls : Sending(c) => chan[c] = <<>>
Once == Unsent /\ OneRequest /\ Unanswered /\ OneAnswer /\ Room

LEMMA RequestLeaves ==
    ASSUME TypeOK, toServer # <<>>, toServer' = Tail(toServer), NEW c \in Calls, NEW i \in Nat, Req(c, i)'
    PROVE  i + 1 \in Nat /\ i + 1 # 1 /\ Req(c, i + 1)
<1>1. toServer \in Seq(Frames) /\ i \in 1..Len(Tail(toServer))
    BY DEF TypeOK, Req
<1>2. i + 1 \in 1..Len(toServer) /\ toServer'[i] = toServer[i + 1]
    BY <1>1, TailKeeps
<1>3. QED
    BY <1>1, <1>2 DEF Req

LEMMA AnswerLeaves ==
    ASSUME TypeOK, toClient # <<>>, toClient' = Tail(toClient), NEW c \in Calls, NEW i \in Nat, Ans(c, i)'
    PROVE  i + 1 \in Nat /\ i + 1 # 1 /\ Ans(c, i + 1)
<1>1. toClient \in Seq(Frames) /\ i \in 1..Len(Tail(toClient))
    BY DEF TypeOK, Ans
<1>2. i + 1 \in 1..Len(toClient) /\ toClient'[i] = toClient[i + 1]
    BY <1>1, TailKeeps
<1>3. QED
    BY <1>1, <1>2 DEF Ans

LEMMA RequestJoins ==
    ASSUME TypeOK, NEW f \in Frames, toServer' = Append(toServer, f), NEW c \in Calls, NEW i \in Nat, Req(c, i)'
    PROVE  Req(c, i) \/ (i = Len(toServer) + 1 /\ f.op = "request" /\ f.call = c)
<1>1. toServer \in Seq(Frames) /\ i \in 1..Len(Append(toServer, f))
    BY DEF TypeOK, Req
<1>2. toServer'[i] = IF i = Len(toServer) + 1 THEN f ELSE toServer[i]
    BY <1>1, AppendKeeps
<1>3. QED
    BY <1>1, <1>2, AppendKeeps DEF Req

LEMMA AnswerJoins ==
    ASSUME TypeOK, NEW f \in Frames, toClient' = Append(toClient, f), NEW c \in Calls, NEW i \in Nat, Ans(c, i)'
    PROVE  Ans(c, i) \/ (i = Len(toClient) + 1 /\ f.op \in {"response", "error"} /\ f.call = c)
<1>1. toClient \in Seq(Frames) /\ i \in 1..Len(Append(toClient, f))
    BY DEF TypeOK, Ans
<1>2. toClient'[i] = IF i = Len(toClient) + 1 THEN f ELSE toClient[i]
    BY <1>1, AppendKeeps
<1>3. QED
    BY <1>1, <1>2, AppendKeeps DEF Ans

\* A step that puts nothing of any call anywhere.
LEMMA Fewer ==
    ASSUME Once, rpc' = rpc,
           \A c \in Calls, i \in Nat : (Req(c, i)' => Req(c, i)) /\ (Ans(c, i)' => Ans(c, i)),
           \A c \in Calls : /\ Sending(c)' => Sending(c)
                            /\ chan[c] = <<>> => chan'[c] = <<>>
                            /\ pc'[c] \in {"new", "write"} => pc[c] \in {"new", "write"}
    PROVE  Once'
<1>1. Unsent'
    BY DEF Once, Unsent
<1>2. OneRequest'
    BY DEF Once, OneRequest
<1>3. Unanswered'
    BY DEF Once, Unanswered
<1>4. OneAnswer'
    BY DEF Once, OneAnswer
<1>5. Room'
    BY DEF Once, Room
<1>6. QED
    BY <1>1, <1>2, <1>3, <1>4, <1>5 DEF Once

\* Steps that touch neither direction of the connection.
LEMMA FewerOffWire ==
    ASSUME Once, UNCHANGED <<rpc, toServer, toClient>>,
           \A c \in Calls : /\ Sending(c)' => Sending(c)
                            /\ chan[c] = <<>> => chan'[c] = <<>>
                            /\ pc'[c] \in {"new", "write"} => pc[c] \in {"new", "write"}
    PROVE  Once'
<1>1. \A c \in Calls, i \in Nat : (Req(c, i)' => Req(c, i)) /\ (Ans(c, i)' => Ans(c, i))
    BY DEF Req, Ans
<1>2. QED
    BY <1>1, Fewer

LEMMA InitOnce == Init => Once
BY DEF Init, Once, Unsent, OneRequest, Unanswered, OneAnswer, Room, Req, Ans, Sending

LEMMA CallOnce ==
    ASSUME IInv, Once, NEW c \in Calls,
           CallStart(c) \/ CallWrite(c) \/ CallReceive(c) \/ CallChanClosed(c) \/ CallTimeout(c)
           \/ CallSeesClosed(c) \/ CallLeave(c)
    PROVE  Once'
<1>0. TypeOK
    BY DEF IInv
<1>1. UNCHANGED <<rl, rlTo, rpc, toClient>>
    BY DEF CallStart, CallWrite, CallReceive, CallChanClosed, CallTimeout, CallSeesClosed, CallLeave,
           rlVars, wireVars, workVars
<1>2. \A d \in Calls : Sending(d)' => Sending(d)
    BY <1>1 DEF Sending
<1>3. CASE CallWrite(c)
    <2> DEFINE f == [op |-> "request", seq |-> seq[c], call |-> c]
    <2>1. /\ pc[c] = "write" /\ chan' = chan /\ \E to \in {"wait", "leave"} : pc' = [pc EXCEPT ![c] = to]
          /\ toServer' = toServer \/ toServer' = Append(toServer, f)
        BY <1>3 DEF CallWrite, Ends, chanVars
    <2>2. \A d \in Calls : pc'[d] \in {"new", "write"} => pc[d] \in {"new", "write"} /\ d # c
        BY <1>0, <2>1 DEF TypeOK
    <2>3. rpc[c] = "none" /\ \A i \in Nat : ~Req(c, i)
        BY <2>1 DEF Once, Unsent
    <2>4. CASE toServer' = toServer
        BY <1>1, <1>2, <2>1, <2>2, <2>4, FewerOffWire
    <2>5. CASE toServer' = Append(toServer, f)
        <3>1. f \in Frames
            BY <1>0 DEF TypeOK, Frames
        <3>2. \A d \in Calls, i \in Nat : Req(d, i)' => Req(d, i) \/ (d = c /\ i = Len(toServer) + 1)
            BY <1>0, <2>5, <3>1, RequestJoins
        <3>3. \A d \in Calls, i \in Nat : Ans(d, i)' => Ans(d, i)
            BY <1>1 DEF Ans
        <3>4. Unsent'
            BY <1>1, <2>2, <3>2 DEF Once, Unsent
        <3>5. OneRequest'
            BY <1>1, <2>3, <3>2 DEF Once, OneRequest
        <3>6. Unanswered' /\ OneAnswer' /\ Room'
            BY <1>1, <1>2, <2>1, <3>3 DEF Once, Unanswered, OneAnswer, Room
        <3>7. QED
            BY <3>4, <3>5, <3>6 DEF Once
    <2>6. QED
        BY <2>1, <2>4, <2>5
<1>4. CASE CallStart(c) \/ CallReceive(c) \/ CallChanClosed(c) \/ CallTimeout(c) \/ CallSeesClosed(c) \/ CallLeave(c)
    <2>1. /\ toServer' = toServer
          /\ chan' = chan \/ chan' = [chan EXCEPT ![c] = <<>>]
          /\ \/ pc[c] = "new" /\ pc' = [pc EXCEPT ![c] = "write"]
             \/ \E to \in {"leave", "returned"} : pc' = [pc EXCEPT ![c] = to]
        BY <1>4 DEF CallStart, CallReceive, CallChanClosed, CallTimeout, CallSeesClosed, CallLeave, Ends, wireVars, chanVars
    <2>2. \A d \in Calls : /\ chan[d] = <<>> => chan'[d] = <<>>
                           /\ pc'[d] \in {"new", "write"} => pc[d] \in {"new", "write"}
        BY <1>0, <2>1 DEF TypeOK
    <2>3. QED
        BY <1>1, <1>2, <2>1, <2>2, FewerOffWire
<1>5. QED
    BY <1>3, <1>4

LEMMA CloseOnce ==
    ASSUME IInv, Once, CloseBegin \/ CloseNotify \/ CloseConn \/ ClosePending
    PROVE  Once'
<1>1. UNCHANGED <<pc, chan, rl, rlTo, rpc, toClient>>
    BY DEF CloseBegin, CloseNotify, CloseConn, ClosePending, callVars, chanVars, rlVars, wireVars, workVars
<1>2. \A c \in Calls : Sending(c)' => Sending(c)
    BY <1>1 DEF Sending
<1>3. toServer' = toServer \/ toServer' = Append(toServer, Control("disconnect"))
    BY DEF CloseBegin, CloseNotify, CloseConn, ClosePending, wireVars
<1>4. CASE toServer' = toServer
    BY <1>1, <1>2, <1>4, FewerOffWire
<1>5. CASE toServer' = Append(toServer, Control("disconnect"))
    <2>1. \A c \in Calls, i \in Nat : Req(c, i)' => Req(c, i)
        BY <1>5, ControlFrame, RequestJoins DEF IInv, Control
    <2>2. \A c \in Calls, i \in Nat : Ans(c, i)' => Ans(c, i)
        BY <1>1 DEF Ans
    <2>3. QED
        BY <1>1, <1>2, <2>1, <2>2, Fewer
<1>6. QED
    BY <1>3, <1>4, <1>5

LEMMA ReadOnce ==
    ASSUME IInv, Once, IInv', ReadFrame \/ ReadSend \/ ReadFails \/ ReadCloses \/ ReadReturns
    PROVE  Once'
<1>0. TypeOK /\ LookedUp /\ LookedUp'
    BY DEF IInv, Matched
<1>1. CASE ReadFails \/ ReadReturns
    <2>1. UNCHANGED <<pc, chan, rpc, toServer, toClient>> /\ rl' # "send"
        BY <1>1 DEF ReadFails, ReadReturns, callVars, chanVars, wireVars, workVars
    <2>2. QED
        BY <2>1, FewerOffWire DEF Sending
<1>2. CASE ReadCloses
    BY <1>2, CloseOnce DEF ReadCloses
<1>3. CASE ReadFrame
    <2> DEFINE f == Head(toClient)
    <2>1. /\ toClient # <<>> /\ toClient' = Tail(toClient) /\ rl = "read"
          /\ UNCHANGED <<pc, chan, toServer, rpc>>
          /\ \/ f.op \in {"response", "error"} /\ rl' = "send" /\ rlFrame' = f
             \/ rl' = "read"
        BY <1>3 DEF ReadFrame, Readable, callVars, chanVars, workVars
    <2>2. \A c \in Calls, i \in Nat : Ans(c, i)' => i + 1 \in Nat /\ i + 1 # 1 /\ Ans(c, i + 1)
        BY <1>0, <2>1, AnswerLeaves
    <2>3. f = toClient[1] /\ 1 \in 1..Len(toClient)
        BY <1>0, <2>1, TailKeeps DEF TypeOK
    <2>4. \A c \in Calls : Sending(c)' => Ans(c, 1)
        BY <1>0, <2>1, <2>3 DEF Sending, LookedUp, Ans
    <2>5. \A c \in Calls, i \in Nat : Req(c, i)' => Req(c, i)
        BY <2>1 DEF Req
    <2>6. Unsent' /\ OneRequest'
        BY <2>1, <2>5 DEF Once, Unsent, OneRequest
    <2>7. Unanswered'
        BY <2>1, <2>2, <2>4 DEF Once, Unanswered
    <2>8. OneAnswer'
        <3>1. SUFFICES ASSUME NEW c \in Calls, NEW i \in Nat, Ans(c, i)'
                       PROVE  chan'[c] = <<>> /\ ~Sending(c)' /\ \A j \in Nat : Ans(c, j)' => j = i
            BY DEF OneAnswer
        <3>2. i + 1 \in Nat /\ i + 1 # 1 /\ Ans(c, i + 1)
            BY <2>2, <3>1
        <3>3. chan[c] = <<>> /\ \A j \in Nat : Ans(c, j) => j = i + 1
            BY <3>2 DEF Once, OneAnswer
        <3>4. ~Ans(c, 1)
            BY <3>2, <3>3
        <3>5. \A j \in Nat : Ans(c, j)' => j = i
            BY <2>2, <3>3
        <3>6. QED
            BY <2>1, <2>4, <3>3, <3>4, <3>5
    <2>9. Room'
        BY <2>1, <2>4 DEF Once, OneAnswer, Room
    <2>10. QED
        BY <2>6, <2>7, <2>8, <2>9 DEF Once
<1>4. CASE ReadSend
    <2>1. UNCHANGED <<pc, toServer, toClient, rpc>> /\ rl = "send"
        BY <1>4 DEF ReadSend, callVars, wireVars, workVars
    <2>2. CASE rlTo \in chanClosed
        BY <1>4, <2>1, <2>2, FewerOffWire DEF ReadSend, Sending
    <2>3. CASE rlTo \notin chanClosed
        <3>1. rlTo \in Calls /\ rl' = "read" /\ chan' = [chan EXCEPT ![rlTo] = <<rlFrame>>]
            BY <1>0, <1>4, <2>3 DEF ReadSend, LookedUp
        <3>2. Sending(rlTo) /\ rpc[rlTo] = "done" /\ \A i \in Nat : ~Ans(rlTo, i)
            BY <2>1, <3>1 DEF Sending, Once, Unanswered, OneAnswer
        <3>3. \A c \in Calls : c # rlTo => chan'[c] = chan[c]
            BY <1>0, <3>1 DEF TypeOK
        <3>4. \A c \in Calls, i \in Nat : (Req(c, i)' <=> Req(c, i)) /\ (Ans(c, i)' <=> Ans(c, i)) /\ ~Sending(c)'
            BY <2>1, <3>1 DEF Req, Ans, Sending
        <3>5. Unsent' /\ OneRequest'
            BY <2>1, <3>4 DEF Once, Unsent, OneRequest
        <3>6. Unanswered' /\ OneAnswer' /\ Room'
            BY <2>1, <3>2, <3>3, <3>4 DEF Once, Unanswered, OneAnswer, Room
        <3>7. QED
            BY <3>5, <3>6 DEF Once
    <2>4. QED
        BY <2>2, <2>3
<1>5. QED
    BY <1>1, <1>2, <1>3, <1>4

LEMMA ServerOnce ==
    ASSUME IInv, Once,
           Accept \/ Register \/ HandleFrame \/ HandleFails \/ HandleClose \/ HandleForget
           \/ ServerCloseListener \/ ServerCloseConns \/ BroadcastBegin
    PROVE  Once'
<1>0. TypeOK /\ Requests
    BY DEF IInv, Wired
<1>1. CASE Accept \/ Register \/ HandleFails \/ HandleClose \/ HandleForget
           \/ ServerCloseListener \/ ServerCloseConns \/ BroadcastBegin
    <2>1. UNCHANGED <<ClientSide, wireVars, rpc>>
        BY <1>1 DEF Accept, Register, HandleFails, HandleClose, HandleForget,
                    ServerCloseListener, ServerCloseConns, BroadcastBegin, workVars
    <2>2. QED
        BY <2>1, FewerOffWire DEF ClientSide, callVars, chanVars, rlVars, wireVars, Sending
<1>2. CASE HandleFrame
    <2> DEFINE f == Head(toServer)
    <2>1. /\ toServer # <<>> /\ toServer' = Tail(toServer) /\ UNCHANGED <<ClientSide, toClient>>
          /\ IF f.op = "request" THEN rpc' = [rpc EXCEPT ![f.call] = "handler"] ELSE rpc' = rpc
        BY <1>2 DEF HandleFrame, Readable
    <2>2. UNCHANGED <<pc, chan, rl, rlTo>>
        BY <2>1 DEF ClientSide, callVars, chanVars, rlVars
    <2>3. f = toServer[1] /\ 1 \in 1..Len(toServer)
        BY <1>0, <2>1, TailKeeps DEF TypeOK
    <2>4. \A c \in Calls, i \in Nat : Req(c, i)' => i + 1 \in Nat /\ i + 1 # 1 /\ Req(c, i + 1)
        BY <1>0, <2>1, RequestLeaves
    <2>5. \A c \in Calls, i \in Nat : (Ans(c, i)' => Ans(c, i)) /\ (Sending(c)' => Sending(c))
        BY <2>1, <2>2 DEF Ans, Sending
    <2>6. \A c \in Calls : \/ rpc'[c] = rpc[c]
                           \/ Req(c, 1) /\ rpc'[c] = "handler"
        BY <1>0, <2>1, <2>3 DEF Req, TypeOK
    <2>7. Unsent'
        BY <2>2, <2>4, <2>6 DEF Once, Unsent
    <2>8. OneRequest'
        <3>1. SUFFICES ASSUME NEW c \in Calls, NEW i \in Nat, Req(c, i)'
                       PROVE  rpc'[c] = "none" /\ \A j \in Nat : Req(c, j)' => j = i
            BY DEF OneRequest
        <3>2. i + 1 \in Nat /\ i + 1 # 1 /\ Req(c, i + 1)
            BY <2>4, <3>1
        <3>3. rpc[c] = "none" /\ \A j \in Nat : Req(c, j) => j = i + 1
            BY <3>2 DEF Once, OneRequest
        <3>4. rpc'[c] = "none"
            BY <2>6, <3>2, <3>3
        <3>5. QED
            BY <2>4, <3>3, <3>4
    <2>9. Unanswered'
        <3>1. \A c \in Calls : rpc'[c] # "done" => rpc[c] # "done"
            BY <2>6 DEF Once, OneRequest
        <3>2. QED
            BY <2>2, <2>5, <3>1 DEF Once, Unanswered
    <2>10. OneAnswer' /\ Room'
        BY <2>2, <2>5 DEF Once, OneAnswer, Room
    <2>11. QED
        BY <2>7, <2>8, <2>9, <2>10 DEF Once
<1>3. QED
    BY <1>1, <1>2

LEMMA AnswerOnce ==
    ASSUME IInv, Once, BroadcastWrite \/ \E c \in Calls : RpcReturn(c) \/ RpcWrite(c)
    PROVE  Once'
<1>0. TypeOK
    BY DEF IInv
<1>1. UNCHANGED <<pc, chan, rl, rlTo, toServer>>
    BY DEF BroadcastWrite, RpcReturn, RpcWrite, ClientSide, callVars, chanVars, rlVars, wireVars
<1>2. \A c \in Calls, i \in Nat : (Req(c, i)' <=> Req(c, i)) /\ (Sending(c)' <=> Sending(c))
    BY <1>1 DEF Req, Sending
<1>3. CASE BroadcastWrite
    <2>1. rpc' = rpc /\ (toClient' = toClient \/ toClient' = Append(toClient, Control("event")))
        BY <1>3 DEF BroadcastWrite, ServerWrites
    <2>2. \A c \in Calls, i \in Nat : Ans(c, i)' => Ans(c, i)
        <3>1. CASE toClient' = toClient
            BY <3>1 DEF Ans
        <3>2. CASE toClient' = Append(toClient, Control("event"))
            BY <1>0, <3>2, ControlFrame, AnswerJoins DEF Control
        <3>3. QED
            BY <2>1, <3>1, <3>2
    <2>3. QED
        BY <1>1, <1>2, <2>1, <2>2, Fewer
<1>4. ASSUME NEW c \in Calls, RpcReturn(c) PROVE Once'
    <2>1. /\ rpc[c] = "handler" /\ toClient' = toClient /\ \E how \in {"response", "error"} : rpc' = [rpc EXCEPT ![c] = how]
        BY <1>4 DEF RpcReturn, wireVars
    <2>2. /\ \A d \in Calls : d # c => rpc'[d] = rpc[d]
          /\ rpc'[c] \notin {"none", "done"}
        BY <1>0, <2>1 DEF TypeOK
    <2>3. \A d \in Calls, i \in Nat : Ans(d, i)' <=> Ans(d, i)
        BY <2>1 DEF Ans
    <2>4. Unsent' /\ OneRequest'
        BY <1>1, <1>2, <2>1, <2>2 DEF Once, Unsent, OneRequest
    <2>5. Unanswered' /\ OneAnswer' /\ Room'
        BY <1>1, <1>2, <2>1, <2>2, <2>3 DEF Once, Unanswered, OneAnswer, Room
    <2>6. QED
        BY <2>4, <2>5 DEF Once
<1>5. ASSUME NEW c \in Calls, RpcWrite(c) PROVE Once'
    <2>1. /\ rpc[c] \in {"response", "error"} /\ rpc' = [rpc EXCEPT ![c] = "done"]
          /\ toClient' = toClient \/ toClient' = Append(toClient, Answer(c))
        BY <1>5 DEF RpcWrite, ServerWrites
    <2>2. /\ \A d \in Calls : d # c => rpc'[d] = rpc[d]
          /\ rpc'[c] = "done"
        BY <1>0, <2>1 DEF TypeOK
    <2>3. Answer(c) \in Frames /\ Answer(c).call = c
        BY <1>0, <2>1 DEF Answer, Frames, TypeOK
    <2>4. \A d \in Calls, i \in Nat : Ans(d, i)' => Ans(d, i) \/ (d = c /\ i = Len(toClient) + 1)
        <3>1. CASE toClient' = toClient
            BY <3>1 DEF Ans
        <3>2. CASE toClient' = Append(toClient, Answer(c))
            BY <1>0, <2>3, <3>2, AnswerJoins
        <3>3. QED
            BY <2>1, <3>1, <3>2
    <2>5. chan[c] = <<>> /\ ~Sending(c) /\ \A i \in Nat : ~Ans(c, i)
        BY <2>1 DEF Once, Unanswered
    <2>6. Unsent' /\ OneRequest'
        BY <1>1, <1>2, <2>1, <2>2 DEF Once, Unsent, OneRequest
    <2>7. Unanswered'
        BY <1>1, <1>2, <2>2, <2>4 DEF Once, Unanswered
    <2>8. OneAnswer'
        BY <1>1, <1>2, <2>4, <2>5 DEF Once, OneAnswer
    <2>9. Room'
        BY <1>1, <1>2 DEF Once, Room
    <2>10. QED
        BY <2>6, <2>7, <2>8, <2>9 DEF Once
<1>6. QED
    BY <1>3, <1>4, <1>5

LEMMA NextOnce ==
    ASSUME IInv, Once, IInv', [Next]_vars
    PROVE  Once'
<1>1. ASSUME NEW c \in Calls, CallStep(c) PROVE Once'
    BY <1>1, CallOnce DEF CallStep
<1>2. ASSUME NEW c \in Calls, RpcStep(c) PROVE Once'
    BY <1>2, AnswerOnce DEF RpcStep
<1>3. CASE CloseStep
    BY <1>3, CloseOnce DEF CloseStep
<1>4. CASE ReadStep
    BY <1>4, ReadOnce DEF ReadStep
<1>5. CASE AcceptStep \/ HandleStep \/ ServerCloseStep
    BY <1>5, ServerOnce DEF AcceptStep, HandleStep, ServerCloseStep
<1>6. CASE BroadcastStep
    BY <1>6, AnswerOnce DEF BroadcastStep
<1>7. CASE Program
    <2>1. ASSUME NEW c \in Calls, CallStart(c) PROVE Once'
        BY <2>1, CallOnce
    <2>2. ASSUME NEW c \in Calls, CallTimeout(c) PROVE Once'
        BY <2>2, CallOnce
    <2>3. CASE CloseBegin
        BY <2>3, CloseOnce
    <2>4. CASE ServerCloseListener \/ BroadcastBegin
        BY <2>4, ServerOnce
    <2>5. QED
        BY <1>7, <2>1, <2>2, <2>3, <2>4 DEF Program
<1>8. CASE UNCHANGED vars
    BY <1>8, FewerOffWire DEF vars, callVars, chanVars, rlVars, wireVars, workVars, Sending
<1>9. QED
    BY <1>1, <1>2, <1>3, <1>4, <1>5, <1>6, <1>7, <1>8 DEF Next
-----------------------------------------------------------------------------
(* What follows                                                             *)

\* No more calls than sequence numbers: whatever calls overlap, time out, or are
\* answered late, out of order or after Close, each returns the answer to its
\* own request, and one that has returned is registered no more.
THEOREM AnswersOwnRequest == Few => (Spec => []OwnAnswer)
<1>1. ASSUME IInv PROVE OwnAnswer
    <2>1. TypeOK /\ Own /\ Registered
        BY <1>1 DEF IInv, Matched
    <2>2. QED
        BY <2>1 DEF OwnAnswer, Own, Registered
<1>2. QED
    BY Inductive, <1>1, PTL

\* The server answers a request once, so the channel of capacity one that
\* readLoop sends the answer to has room for it, timed out or not.
THEOREM ReadLoopHasRoom == Few => (Spec => []ReadLoopNotHeldUp)
<1> SUFFICES ASSUME Few PROVE Spec => []ReadLoopNotHeldUp
    OBVIOUS
<1>1. IInv /\ Once /\ [Next]_vars => IInv' /\ Once'
    BY NextKeeps, NextOnce
<1>2. Init => IInv /\ Once
    BY InitHolds, InitOnce
<1>3. IInv /\ Once => ReadLoopNotHeldUp
    BY DEF IInv, Matched, LookedUp, Once, Room, Sending, ReadLoopNotHeldUp
<1>4. QED
    BY <1>1, <1>2, <1>3, PTL DEF Spec
=============================================================================

------------------------------- MODULE Connect -------------------------------
(***************************************************************************)
(* One connection of package websocket: the server's read loop puts what   *)
(* the client sends into RecvChan, the game takes it out with Recv, and    *)
(* other goroutines of the game call Send and Close.                       *)
(*                                                                         *)
(* Messages are numbered, 0 is the read error that ends the loop.  mu is a *)
(* sync.RWMutex: Recv holds it for reading while it waits for a message,   *)
(* and a goroutine that waits for writing keeps new readers out.  Send     *)
(* holds it while it writes to the socket, and nobody sets a deadline: a   *)
(* client that does not read what it is sent stops the write.              *)
(***************************************************************************)
EXTENDS Naturals, Sequences

CONSTANTS
    Callers,        \* goroutines that call Send or Close
    ChanCap,        \* capacity of RecvChan: 10
    MaxMessages     \* bound: messages of the client

ASSUME ConnectAssumption == ChanCap \in Nat \ {0} /\ MaxMessages \in Nat

VARIABLES
    wsConn,         \* Connect.Conn: "open", "closed" or "nil"
    sent,           \* messages of the client so far
    clientGone,     \* the client has hung up
    clientReads,    \* it reads what it is sent
    loopRead,       \* messages the read loop has taken off the connection
    loopPc,         \* the read loop: "read", "push", "pushErr", "ended"
    recvChan,       \* Connect.RecvChan
    recvPc,         \* the game's goroutine: "call", "wait", "told" (of the error)
    received,       \* messages it has been given
    callPc          \* a caller: "idle", "wantSend", "writing", "wantClose"

clientVars == <<sent, clientGone, clientReads>>
recvVars == <<recvPc, received>>
wsVars == <<wsConn, clientVars, loopRead, loopPc, recvChan, recvVars, callPc>>

ConnectInit ==
    /\ wsConn = "open"
    /\ sent = 0
    /\ clientGone = FALSE
    /\ clientReads = TRUE
    /\ loopRead = 0
    /\ loopPc = "read"
    /\ recvChan = <<>>
    /\ recvPc = "call"
    /\ received = 0
    /\ callPc = [c \in Callers |-> "idle"]

ClientSends ==
    /\ ~clientGone /\ sent < MaxMessages
    /\ sent' = sent + 1
    /\ UNCHANGED <<wsConn, clientGone, clientReads, loopRead, loopPc, recvChan, recvVars, callPc>>

ClientLeaves ==
    /\ ~clientGone
    /\ clientGone' = TRUE
    /\ UNCHANGED <<wsConn, sent, clientReads, loopRead, loopPc, recvChan, recvVars, callPc>>

\* The client stops reading, or reads on.
ClientPauses ==
    /\ ~clientGone
    /\ clientReads' = ~clientReads
    /\ UNCHANGED <<wsConn, sent, clientGone, loopRead, loopPc, recvChan, recvVars, callPc>>

-----------------------------------------------------------------------------
(* The read loop of SetupRoutes.  What was sent before the end is read first *)
(* unless Close cut it off.                                                  *)

ReadMsg ==
    /\ loopPc = "read"
    /\ \/ /\ wsConn # "closed" /\ loopRead < sent
          /\ loopRead' = loopRead + 1
          /\ loopPc' = "push"
       \/ /\ wsConn = "closed" \/ (clientGone /\ loopRead = sent)
          /\ loopPc' = "pushErr"
          /\ UNCHANGED loopRead
    /\ UNCHANGED <<wsConn, clientVars, recvChan, recvVars, callPc>>

\* A full channel blocks the loop.  (Mutant: what does not fit is dropped.)
PushOrDrop(x) == recvChan' = IF Len(recvChan) < ChanCap THEN Append(recvChan, x) ELSE recvChan
Push(x) == Len(recvChan) < ChanCap /\ recvChan' = Append(recvChan, x)

PushMessage ==
    /\ loopPc = "push"
    /\ Push(loopRead)
    /\ loopPc' = "read"
    /\ UNCHANGED <<wsConn, clientVars, loopRead, recvVars, callPc>>

\* The game is told of the error by way of the channel, and the loop ends.
\* (Mutant: it just ends.)
EndSilently == UNCHANGED recvChan
PushEnd == Push(0)

PushError ==
    /\ loopPc = "pushErr"
    /\ PushEnd
    /\ loopPc' = "ended"
    /\ UNCHANGED <<wsConn, clientVars, loopRead, recvVars, callPc>>

-----------------------------------------------------------------------------
(* Recv.  The game calls it until it has been told of an error.             *)

WriterWaits == \E c \in Callers : callPc[c] # "idle"

RecvLock ==
    /\ recvPc = "call"
    /\ ~WriterWaits
    /\ recvPc' = "wait"
    /\ UNCHANGED <<wsConn, clientVars, loopRead, loopPc, recvChan, received, callPc>>

\* Once the error is out the connection is nil, and Send an error.
RecvReturns ==
    /\ recvPc = "wait"
    /\ recvChan # <<>>
    /\ recvChan' = Tail(recvChan)
    /\ IF Head(recvChan) = 0
       THEN recvPc' = "told" /\ wsConn' = "nil" /\ UNCHANGED received
       ELSE recvPc' = "call" /\ received' = Head(recvChan) /\ UNCHANGED wsConn
    /\ UNCHANGED <<clientVars, loopRead, loopPc, callPc>>

-----------------------------------------------------------------------------
(* Send and Close: Lock, which waits for Recv and for a Send that writes.   *)

CallSend(c) ==
    /\ callPc[c] = "idle"
    /\ callPc' = [callPc EXCEPT ![c] = "wantSend"]
    /\ UNCHANGED <<wsConn, clientVars, loopRead, loopPc, recvChan, recvVars>>

CallClose(c) ==
    /\ callPc[c] = "idle"
    /\ callPc' = [callPc EXCEPT ![c] = "wantClose"]
    /\ UNCHANGED <<wsConn, clientVars, loopRead, loopPc, recvChan, recvVars>>

LockFree == recvPc # "wait" /\ \A c \in Callers : callPc[c] # "writing"

\* On a nil connection it is an error.
SendLocked(c) ==
    /\ callPc[c] = "wantSend" /\ LockFree
    /\ callPc' = [callPc EXCEPT ![c] = IF wsConn = "nil" THEN "idle" ELSE "writing"]
    /\ UNCHANGED <<wsConn, clientVars, loopRead, loopPc, recvChan, recvVars>>

\* WriteMessage returns, with an error on a closed connection and when the client
\* is gone, and Send unlocks.  While the client does not read it may return, if
\* the socket's buffers have room, and may not.
WriteReturns(c) ==
    /\ callPc[c] = "writing"
    /\ callPc' = [callPc EXCEPT ![c] = "idle"]
    /\ UNCHANGED <<wsConn, clientVars, loopRead, loopPc, recvChan, recvVars>>

CloseLocked(c) ==
    /\ callPc[c] = "wantClose" /\ LockFree
    /\ callPc' = [callPc EXCEPT ![c] = "idle"]
    /\ wsConn' = IF wsConn = "nil" THEN "nil" ELSE "closed"
    /\ UNCHANGED <<clientVars, loopRead, loopPc, recvChan, recvVars>>

ReadLoop == ReadMsg \/ PushMessage \/ PushError
Recv == RecvLock \/ RecvReturns
Call(c) == SendLocked(c) \/ CloseLocked(c)

ConnectNext ==
    \/ ClientSends \/ ClientLeaves \/ ClientPauses \/ ReadLoop \/ Recv
    \/ \E c \in Callers : CallSend(c) \/ CallClose(c) \/ Call(c) \/ WriteReturns(c)

ConnectSpec == ConnectInit /\ [][ConnectNext]_wsVars

\* What lets a write go on: room in the buffers, an error.
WriteMayGoOn == clientReads \/ clientGone \/ wsConn = "closed"

\* Goroutines run, and a goroutine that waits for a mutex gets it in its turn.
\* Nobody promises that a client reads.
ConnectFairness ==
    /\ WF_wsVars(ReadLoop)
    /\ WF_wsVars(RecvReturns)
    /\ \A c \in Callers : SF_wsVars(Call(c)) /\ WF_wsVars(WriteMayGoOn /\ WriteReturns(c))

-----------------------------------------------------------------------------
(* Properties.                                                              *)

ConnectTypeOK ==
    /\ wsConn \in {"open", "closed", "nil"}
    /\ sent \in 0..MaxMessages
    /\ clientGone \in BOOLEAN
    /\ clientReads \in BOOLEAN
    /\ loopRead \in 0..sent
    /\ loopPc \in {"read", "push", "pushErr", "ended"}
    /\ recvChan \in Seq(0..MaxMessages) /\ Len(recvChan) <= ChanCap
    /\ recvPc \in {"call", "wait", "told"}
    /\ received \in 0..MaxMessages
    /\ callPc \in [Callers -> {"idle", "wantSend", "writing", "wantClose"}]

\* The game gets every message the loop has read, in order and once, and the
\* error after them, however full the channel is and however late Recv comes.
NothingLost ==
    LET last == Len(recvChan) IN
    /\ \A i \in DOMAIN recvChan :
           recvChan[i] = IF i = last /\ loopPc = "ended" THEN 0 ELSE received + i
    /\ recvPc = "told" => received = loopRead

\* The game waits for a client that neither sends nor leaves.
ClientSilent == recvPc = "wait" /\ recvChan = <<>> /\ loopPc = "read" /\ loopRead = sent
                    /\ ~clientGone /\ wsConn # "closed"

\* A Send writes to a client that does not read.
ClientStalls == ~WriteMayGoOn /\ \E c \in Callers : callPc[c] = "writing"

\* A Send or a Close returns, unless the lock is held for the client: by Recv,
\* while it is silent, or by a Send, while it does not read.  In particular the
\* end of the connection lets it return.
OnlyClientDelaysCallers ==
    \A c \in Callers : callPc[c] # "idle" ~> callPc[c] = "idle" \/ ClientSilent \/ ClientStalls
=============================================================================

-------------------------- MODULE BridgeLinkProofs --------------------------
(***************************************************************************)
(* A hello opens every connection: whatever the server, the wheel, the     *)
(* user and the game do, and however often the client connects again.      *)
(* The payload that the proxy skips as applied is the one applied last.    *)
(* The forces of a session end with it.                                    *)
(***************************************************************************)
EXTENDS BridgeLink, ForceLevelProofs, SequenceTheorems

(* Of the server's connections only the last can be the client's.          *)
OnlyLastOpen ==
  /\ \A i \in DOMAIN conns : conns[i].open => i = Len(conns) /\ socket = "open"
  /\ socket = "open" => conns # <<>> /\ conns[Len(conns)].open

(* The client has a message to send while it is in a call.                 *)
CallHasMessage == place # "idle" => call \in Messages

(* The client sends a message after a hello that this connection answered. *)
GreetedBeforeSend ==
  /\ place = "send" => hello_sent
  /\ ack => socket # "none"
  /\ socket = "open" /\ (hello_sent \/ ack) => conns[Len(conns)].greeted

SessionHasConnection == session => conns # <<>>

LinkInv == OnlyLastOpen /\ CallHasMessage /\ GreetedBeforeSend /\ SessionHasConnection /\ HelloFirst
IInv == TypeOK /\ LinkInv

-----------------------------------------------------------------------------
(* Facts about the server's connections.                                   *)

(* The connections are numbered from the oldest, and each is a record.     *)
LEMMA Numbered ==
  ASSUME TypeOK
  PROVE  /\ Len(conns) \in Nat
         /\ DOMAIN conns = 1..Len(conns)
         /\ conns # <<>> => Len(conns) >= 1
         /\ conns = <<>> => Len(conns) = 0
         /\ \A i \in 1..Len(conns) :
              /\ conns[i] \in Connection
              /\ conns[i].data \in Seq(Messages)
              /\ conns[i].open \in BOOLEAN
              /\ conns[i].greeted \in BOOLEAN
<1>1. conns \in Seq(Connection)
  BY DEF TypeOK, ServerTypeOK
<1>2. Len(conns) \in Nat /\ DOMAIN conns = 1..Len(conns)
  BY <1>1, LenProperties
<1>3. (conns # <<>> => Len(conns) >= 1) /\ (conns = <<>> => Len(conns) = 0)
  BY <1>1, <1>2, EmptySeq
<1>4. ASSUME NEW i \in 1..Len(conns)
      PROVE  conns[i] \in Connection
  BY <1>1, <1>4, ElementOfSeq
<1> QED
  BY <1>2, <1>3, <1>4 DEF Connection

(* Changing one connection leaves their number and the others alone.       *)
LEMMA OneChanged ==
  ASSUME TypeOK, NEW n \in 1..Len(conns), NEW c \in Connection,
         conns' = [conns EXCEPT ![n] = c]
  PROVE  /\ conns' \in Seq(Connection)
         /\ Len(conns') = Len(conns)
         /\ DOMAIN conns' = 1..Len(conns)
         /\ \A i \in 1..Len(conns) : conns'[i] = IF i = n THEN c ELSE conns[i]
<1>1. conns \in Seq(Connection)
  BY DEF TypeOK, ServerTypeOK
<1>2. /\ conns' \in Seq(Connection)
      /\ Len(conns') = Len(conns)
      /\ \A i \in 1..Len(conns) : conns'[i] = IF i = n THEN c ELSE conns[i]
  BY <1>1, ExceptSeq
<1> QED
  BY <1>2, LenProperties

(* What disconnect does to the connections.                                *)
LEMMA AfterDisconnect ==
  ASSUME TypeOK, OnlyLastOpen, conns' = Abandoned
  PROVE  /\ conns' \in Seq(Connection)
         /\ Len(conns') = Len(conns)
         /\ DOMAIN conns' = 1..Len(conns)
         /\ \A i \in 1..Len(conns) :
              /\ conns'[i].data = conns[i].data
              /\ conns'[i].greeted = conns[i].greeted
              /\ ~conns'[i].open
<1>1. CASE socket = "open"
  <2> DEFINE n == Len(conns)
  <2> DEFINE c == [conns[n] EXCEPT !.open = FALSE]
  <2>1. n \in 1..Len(conns)
    BY <1>1, Numbered DEF OnlyLastOpen
  <2>2. conns[n] \in Connection
    BY <2>1, Numbered
  <2>3. /\ c \in Connection
        /\ c.data = conns[n].data /\ c.greeted = conns[n].greeted /\ c.open = FALSE
    BY <2>2 DEF Connection
  <2>4. conns' = [conns EXCEPT ![n] = c]
    BY <1>1 DEF Abandoned
  <2>5. \A i \in 1..Len(conns) : i # n => ~conns[i].open
    BY Numbered DEF OnlyLastOpen
  <2> HIDE DEF n, c
  <2>6. /\ conns' \in Seq(Connection)
        /\ Len(conns') = Len(conns)
        /\ DOMAIN conns' = 1..Len(conns)
        /\ \A i \in 1..Len(conns) : conns'[i] = IF i = n THEN c ELSE conns[i]
    BY <2>1, <2>3, <2>4, OneChanged
  <2> QED
    BY <2>3, <2>5, <2>6
<1>2. CASE socket # "open"
  <2>1. conns' = conns
    BY <1>2 DEF Abandoned
  <2> QED
    BY <1>2, <2>1, Numbered DEF OnlyLastOpen, TypeOK, ServerTypeOK
<1> QED
  BY <1>1, <1>2

(* The end of a session takes the first connection away.                   *)
LEMMA FirstGone ==
  ASSUME TypeOK, conns # <<>>, conns' = Tail(conns)
  PROVE  /\ conns' \in Seq(Connection)
         /\ Len(conns') = Len(conns) - 1
         /\ DOMAIN conns' = 1..(Len(conns) - 1)
         /\ \A i \in 1..(Len(conns) - 1) : conns'[i] = conns[i + 1]
         /\ conns' = <<>> => Len(conns) = 1
<1>1. conns \in Seq(Connection)
  BY DEF TypeOK, ServerTypeOK
<1>2. /\ conns' \in Seq(Connection)
      /\ Len(conns') = Len(conns) - 1
      /\ \A i \in 1..(Len(conns) - 1) : conns'[i] = conns[i + 1]
  BY <1>1, HeadTailProperties
<1>3. DOMAIN conns' = 1..(Len(conns) - 1)
  BY <1>2, LenProperties
<1>4. conns' = <<>> => Len(conns) = 1
  <2> SUFFICES ASSUME conns' = <<>>
               PROVE  Len(conns) = 1
    OBVIOUS
  <2>1. Len(conns') = 0
    BY EmptySeq
  <2>2. Len(conns) - 1 = 0
    BY <1>2, <2>1
  <2>3. Len(conns) \in Nat
    BY Numbered
  <2> QED
    BY <2>2, <2>3
<1> QED
  BY <1>2, <1>3, <1>4

(* What is left of the queue of the connection in service.                 *)
LEMMA FirstRead ==
  ASSUME TypeOK, conns # <<>>, conns[1].data # <<>>
  PROVE  /\ 1 \in 1..Len(conns)
         /\ Head(conns) = conns[1]
         /\ Head(conns[1].data) \in Messages
         /\ Tail(conns[1].data) \in Seq(Messages)
<1>1. 1 \in 1..Len(conns)
  BY Numbered
<1>2. conns[1].data \in Seq(Messages)
  BY <1>1, Numbered
<1>3. Head(conns) = conns[1]
  BY DEF TypeOK, ServerTypeOK
<1> QED
  BY <1>1, <1>2, <1>3, HeadTailProperties

(* A new connection is the last and empty.                                 *)
LEMMA Opened ==
  ASSUME TypeOK, conns' = Append(conns, [data |-> <<>>, open |-> TRUE, greeted |-> FALSE])
  PROVE  /\ conns' \in Seq(Connection)
         /\ conns' # <<>>
         /\ Len(conns') = Len(conns) + 1
         /\ DOMAIN conns' = 1..(Len(conns) + 1)
         /\ \A i \in 1..Len(conns) : conns'[i] = conns[i]
         /\ conns'[Len(conns) + 1] = [data |-> <<>>, open |-> TRUE, greeted |-> FALSE]
<1> DEFINE new == [data |-> <<>>, open |-> TRUE, greeted |-> FALSE]
<1>1. conns \in Seq(Connection)
  BY DEF TypeOK, ServerTypeOK
<1>2. new \in Connection
  BY EmptySeq DEF Connection
<1> HIDE DEF new
<1>3. conns' = Append(conns, new)
  BY DEF new
<1>4. /\ conns' \in Seq(Connection)
      /\ conns' # <<>>
      /\ Len(conns') = Len(conns) + 1
      /\ \A i \in 1..Len(conns) : conns'[i] = conns[i]
      /\ conns'[Len(conns) + 1] = new
  BY <1>1, <1>2, <1>3, AppendProperties
<1>5. DOMAIN conns' = 1..(Len(conns) + 1)
  BY <1>4, LenProperties
<1> QED
  BY <1>4, <1>5 DEF new

(* A message of the client goes to the end of the last connection.         *)
LEMMA Sent ==
  ASSUME TypeOK, OnlyLastOpen, socket = "open", NEW m \in Messages,
         conns' = [conns EXCEPT ![Len(conns)].data = Append(@, m)]
  PROVE  /\ conns' \in Seq(Connection)
         /\ Len(conns') = Len(conns)
         /\ DOMAIN conns' = 1..Len(conns)
         /\ \A i \in 1..Len(conns) :
              /\ conns'[i].open = conns[i].open
              /\ conns'[i].greeted = conns[i].greeted
              /\ i # Len(conns) => conns'[i].data = conns[i].data
         /\ conns[Len(conns)].data = <<>> => Head(conns'[Len(conns)].data) = m
         /\ conns[Len(conns)].data # <<>>
              => Head(conns'[Len(conns)].data) = Head(conns[Len(conns)].data)
<1> DEFINE n == Len(conns)
<1> DEFINE d == conns[n].data
<1> DEFINE c == [conns[n] EXCEPT !.data = Append(d, m)]
<1>1. n \in 1..Len(conns)
  BY Numbered DEF OnlyLastOpen
<1>2. conns[n] \in Connection /\ d \in Seq(Messages)
  BY <1>1, Numbered
<1>3. /\ Append(d, m) \in Seq(Messages)
      /\ Append(d, m) # <<>>
      /\ d = <<>> => Head(Append(d, m)) = m
      /\ d # <<>> => Head(Append(d, m)) = Head(d)
  <2>1. Append(d, m) \in Seq(Messages) /\ Append(d, m) # <<>>
    BY <1>2, AppendProperties
  <2>2. Head(Append(d, m)) = IF d = <<>> THEN m ELSE Head(d)
    BY <1>2, HeadTailAppend
  <2> QED
    BY <2>1, <2>2
<1>4. /\ c \in Connection
      /\ c.data = Append(d, m) /\ c.open = conns[n].open /\ c.greeted = conns[n].greeted
  BY <1>2, <1>3 DEF Connection
<1>5. conns' = [conns EXCEPT ![n] = c]
  OBVIOUS
<1> HIDE DEF c
<1>6. /\ conns' \in Seq(Connection)
      /\ Len(conns') = Len(conns)
      /\ DOMAIN conns' = 1..Len(conns)
      /\ \A i \in 1..Len(conns) : conns'[i] = IF i = n THEN c ELSE conns[i]
  BY <1>1, <1>4, <1>5, OneChanged
<1> QED
  BY <1>1, <1>3, <1>4, <1>6

(* A message is read from the front of the first connection.               *)
LEMMA Received ==
  ASSUME TypeOK, conns # <<>>, conns[1].data # <<>>,
         \/ conns' = Consumed
         \/ conns' = [Consumed EXCEPT ![1].greeted = TRUE]
  PROVE  /\ conns' \in Seq(Connection)
         /\ Len(conns') = Len(conns)
         /\ DOMAIN conns' = 1..Len(conns)
         /\ \A i \in 1..Len(conns) :
              /\ conns'[i].open = conns[i].open
              /\ i # 1 => conns'[i].data = conns[i].data /\ conns'[i].greeted = conns[i].greeted
         /\ conns' = Consumed => conns'[1].greeted = conns[1].greeted
         /\ conns' # Consumed => conns'[1].greeted
<1> DEFINE g == IF conns' = Consumed THEN conns[1].greeted ELSE TRUE
<1> DEFINE c == [conns[1] EXCEPT !.data = Tail(@), !.greeted = g]
<1>1. 1 \in 1..Len(conns) /\ Tail(conns[1].data) \in Seq(Messages)
  BY FirstRead
<1>2. conns[1] \in Connection
  BY <1>1, Numbered
<1>3. c \in Connection /\ c.open = conns[1].open /\ c.greeted = g
  BY <1>1, <1>2 DEF Connection
<1>4. conns' = [conns EXCEPT ![1] = c]
  BY <1>1, <1>2, Numbered DEF Consumed, Connection
<1> HIDE DEF c
<1>5. /\ conns' \in Seq(Connection)
      /\ Len(conns') = Len(conns)
      /\ DOMAIN conns' = 1..Len(conns)
      /\ \A i \in 1..Len(conns) : conns'[i] = IF i = 1 THEN c ELSE conns[i]
  BY <1>1, <1>3, <1>4, OneChanged
<1> QED
  BY <1>1, <1>3, <1>5


(* What reading a message of some type says of the connection in service.  *)
LEMMA InService ==
  ASSUME TypeOK, SessionHasConnection, NEW type, Reading(type)
  PROVE  /\ conns # <<>>
         /\ Head(conns) = conns[1]
         /\ conns[1].data # <<>>
         /\ Head(conns[1].data).type = type
<1>1. session /\ conns # <<>>
  BY DEF Reading, SessionHasConnection
<1>2. Head(conns) = conns[1]
  BY <1>1 DEF TypeOK, ServerTypeOK
<1> QED
  BY <1>1, <1>2 DEF Reading

-----------------------------------------------------------------------------
(* The effects a step may have on the connections preserve the invariant.  *)

(* None.                                                                   *)
LEMMA KeepsConnections ==
  ASSUME TypeOK, LinkInv, conns' = conns,
         \/ socket' = socket
         \/ socket \notin {"open", "none"} /\ socket' \notin {"open", "none"},
         CallHasMessage',
         place' = "send" => hello_sent',
         ack' => ack, hello_sent' => hello_sent \/ ack,
         session' => session \/ conns # <<>>
  PROVE  LinkInv'
<1>1. OnlyLastOpen'
  BY Numbered DEF LinkInv, OnlyLastOpen
<1>2. GreetedBeforeSend'
  BY DEF LinkInv, GreetedBeforeSend
<1>3. SessionHasConnection' /\ HelloFirst'
  BY DEF LinkInv, SessionHasConnection, HelloFirst
<1> QED
  BY <1>1, <1>2, <1>3 DEF LinkInv

(* The client closes its socket.                                           *)
LEMMA KeepsOnDisconnect ==
  ASSUME TypeOK, LinkInv, disconnect, place' = "idle", UNCHANGED session
  PROVE  LinkInv'
<1>1. /\ conns' \in Seq(Connection)
      /\ Len(conns') = Len(conns)
      /\ DOMAIN conns' = 1..Len(conns)
      /\ \A i \in 1..Len(conns) :
           /\ conns'[i].data = conns[i].data
           /\ conns'[i].greeted = conns[i].greeted
           /\ ~conns'[i].open
  BY AfterDisconnect DEF LinkInv, disconnect
<1>2. OnlyLastOpen'
  BY <1>1 DEF OnlyLastOpen, disconnect
<1>3. CallHasMessage' /\ GreetedBeforeSend'
  BY DEF CallHasMessage, GreetedBeforeSend, disconnect
<1>4. SessionHasConnection'
  <2>1. conns' = <<>> => conns = <<>>
    <3>1. conns # <<>> => Len(conns) >= 1
      BY Numbered
    <3>2. Len(<<>>) = 0
      BY EmptySeq
    <3> QED
      BY <1>1, <3>1, <3>2
  <2> QED
    BY <2>1 DEF LinkInv, SessionHasConnection
<1>5. HelloFirst'
  BY <1>1, Numbered DEF LinkInv, HelloFirst
<1> QED
  BY <1>2, <1>3, <1>4, <1>5 DEF LinkInv

(* The client connects.                                                    *)
LEMMA KeepsOnConnect ==
  ASSUME TypeOK, LinkInv, socket = "none", socket' = "open",
         conns' = Append(conns, [data |-> <<>>, open |-> TRUE, greeted |-> FALSE]),
         place' # "send", UNCHANGED <<hello_sent, ack, session>>, CallHasMessage'
  PROVE  LinkInv'
<1>1. /\ conns' # <<>>
      /\ Len(conns') = Len(conns) + 1
      /\ DOMAIN conns' = 1..(Len(conns) + 1)
      /\ \A i \in 1..Len(conns) : conns'[i] = conns[i]
      /\ conns'[Len(conns) + 1] = [data |-> <<>>, open |-> TRUE, greeted |-> FALSE]
  BY Opened
<1>2. Len(conns) \in Nat /\ DOMAIN conns = 1..Len(conns)
  BY Numbered
<1>3. \A i \in 1..(Len(conns) + 1) : i # Len(conns) + 1 => i \in 1..Len(conns)
  BY <1>2
<1>4. OnlyLastOpen'
  BY <1>1, <1>2, <1>3 DEF LinkInv, OnlyLastOpen
<1>5. GreetedBeforeSend'
  BY DEF LinkInv, GreetedBeforeSend, TypeOK, ClientTypeOK
<1>6. SessionHasConnection'
  BY <1>1 DEF SessionHasConnection
<1>7. HelloFirst'
  BY <1>1, <1>2, <1>3 DEF LinkInv, HelloFirst
<1> QED
  BY <1>4, <1>5, <1>6, <1>7 DEF LinkInv

(* The client sends: a hello, or what a hello on this connection allows.   *)
LEMMA KeepsOnSend ==
  ASSUME TypeOK, LinkInv, NEW m \in Messages, m = Hello \/ hello_sent,
         socket = "open", conns' = [conns EXCEPT ![Len(conns)].data = Append(@, m)],
         place' # "send", UNCHANGED <<socket, hello_sent, ack, session>>, CallHasMessage'
  PROVE  LinkInv'
<1>1. /\ Len(conns') = Len(conns)
      /\ conns' \in Seq(Connection)
      /\ DOMAIN conns' = 1..Len(conns)
      /\ \A i \in 1..Len(conns) :
           /\ conns'[i].open = conns[i].open
           /\ conns'[i].greeted = conns[i].greeted
           /\ i # Len(conns) => conns'[i].data = conns[i].data
      /\ conns[Len(conns)].data = <<>> => Head(conns'[Len(conns)].data) = m
      /\ conns[Len(conns)].data # <<>>
           => Head(conns'[Len(conns)].data) = Head(conns[Len(conns)].data)
  BY Sent DEF LinkInv
<1>2. Len(conns) \in 1..Len(conns) /\ DOMAIN conns = 1..Len(conns)
  BY Numbered DEF LinkInv, OnlyLastOpen
<1>3. conns' # <<>>
  <2>1. Len(<<>>) = 0
    BY EmptySeq
  <2> QED
    BY <1>1, <1>2, <2>1
<1>4. OnlyLastOpen'
  BY <1>1, <1>2, <1>3 DEF LinkInv, OnlyLastOpen
<1>5. GreetedBeforeSend'
  BY <1>1, <1>2 DEF LinkInv, GreetedBeforeSend
<1>6. SessionHasConnection'
  BY <1>3 DEF SessionHasConnection
<1>7. hello_sent => conns[Len(conns)].greeted
  BY DEF LinkInv, GreetedBeforeSend
<1>8. HelloFirst'
  BY <1>1, <1>2, <1>7 DEF LinkInv, HelloFirst
<1> QED
  BY <1>4, <1>5, <1>6, <1>8 DEF LinkInv

(* The server reads: a hello, or behind one.                               *)
LEMMA KeepsOnReceive ==
  ASSUME TypeOK, LinkInv, session, conns[1].data # <<>>,
         \/ conns' = Consumed /\ Head(conns[1].data) # Hello /\ ack' = ack
         \/ conns' = [Consumed EXCEPT ![1].greeted = TRUE] /\ ack' = (ack \/ conns[1].open),
         UNCHANGED <<place, call, socket, hello_sent, session>>
  PROVE  LinkInv'
<1>1. conns # <<>>
  BY DEF LinkInv, SessionHasConnection
<1>2. /\ Len(conns') = Len(conns)
      /\ conns' \in Seq(Connection)
      /\ DOMAIN conns' = 1..Len(conns)
      /\ \A i \in 1..Len(conns) :
           /\ conns'[i].open = conns[i].open
           /\ i # 1 => conns'[i].data = conns[i].data /\ conns'[i].greeted = conns[i].greeted
      /\ conns' = Consumed => conns'[1].greeted = conns[1].greeted
      /\ conns' # Consumed => conns'[1].greeted
  BY <1>1, Received
<1>3. 1 \in 1..Len(conns) /\ Len(conns) \in 1..Len(conns) /\ DOMAIN conns = 1..Len(conns)
  BY <1>1, Numbered
<1>4. Head(conns[1].data) # Hello => conns[1].greeted
  BY <1>3 DEF LinkInv, HelloFirst
<1>5. conns'[1].greeted
  <2>1. CASE conns' = Consumed /\ Head(conns[1].data) # Hello
    BY <1>2, <1>4, <2>1
  <2>2. CASE conns' = [Consumed EXCEPT ![1].greeted = TRUE]
    <3> DEFINE c == [conns[1] EXCEPT !.data = Tail(@), !.greeted = TRUE]
    <3>1. conns[1] \in Connection
      BY <1>3, Numbered
    <3>2. conns' = [conns EXCEPT ![1] = c]
      BY <1>3, <2>2, <3>1 DEF Consumed, Connection
    <3>3. c.greeted
      BY <3>1 DEF Connection
    <3> QED
      BY <1>3, <3>2, <3>3
  <2> QED
    BY <2>1, <2>2
<1>6. conns' # <<>>
  <2>1. Len(<<>>) = 0
    BY EmptySeq
  <2> QED
    BY <1>2, <1>3, <2>1
<1>7. OnlyLastOpen'
  BY <1>2, <1>3, <1>6 DEF LinkInv, OnlyLastOpen
<1>8. GreetedBeforeSend'
  <2>1. ack' => ack \/ conns[1].open
    OBVIOUS
  <2>2. conns[1].open => Len(conns) = 1 /\ socket = "open"
    BY <1>3 DEF LinkInv, OnlyLastOpen
  <2>3. ack' => socket' # "none"
    BY <2>1, <2>2 DEF LinkInv, GreetedBeforeSend
  <2>4. ASSUME socket' = "open", hello_sent' \/ ack'
        PROVE  conns'[Len(conns')].greeted
    <3>1. CASE Len(conns) = 1
      BY <1>2, <1>5, <3>1
    <3>2. CASE Len(conns) # 1
      BY <1>2, <1>3, <2>1, <2>2, <2>4, <3>2 DEF LinkInv, GreetedBeforeSend
    <3> QED
      BY <3>1, <3>2
  <2> QED
    BY <2>3, <2>4 DEF LinkInv, GreetedBeforeSend
<1>9. CallHasMessage' /\ SessionHasConnection'
  BY <1>6 DEF LinkInv, CallHasMessage, SessionHasConnection, Messages, States, Hello, StopAll
<1>10. HelloFirst'
  BY <1>2, <1>3, <1>5 DEF LinkInv, HelloFirst
<1> QED
  BY <1>7, <1>8, <1>9, <1>10 DEF LinkInv

(* The server closes the first connection.                                 *)
LEMMA KeepsOnClose ==
  ASSUME TypeOK, LinkInv, session, NEW unread, Close(unread)
  PROVE  LinkInv'
<1>1. conns # <<>> /\ conns' = Tail(conns)
  BY DEF LinkInv, SessionHasConnection, Close
<1>2. /\ conns' \in Seq(Connection)
      /\ Len(conns') = Len(conns) - 1
      /\ DOMAIN conns' = 1..(Len(conns) - 1)
      /\ \A i \in 1..(Len(conns) - 1) : conns'[i] = conns[i + 1]
      /\ conns' = <<>> => Len(conns) = 1
  BY <1>1, FirstGone
<1>3. Len(conns) \in Nat \ {0} /\ DOMAIN conns = 1..Len(conns)
  BY <1>1, Numbered
<1>4. \A i \in 1..(Len(conns) - 1) : i + 1 \in 1..Len(conns) /\ (i + 1 = Len(conns) <=> i = Len(conns) - 1)
  BY <1>3
<1>5. socket' = socket \/ (Len(conns) = 1 /\ socket' \in {"orphan", "reset"})
  <2>1. CASE socket # "open" \/ Len(conns) > 1
    BY <2>1 DEF Close
  <2>2. CASE ~(socket # "open" \/ Len(conns) > 1)
    <3>1. Len(conns) = 1
      BY <1>3, <2>2
    <3>2. socket' \in (IF unread THEN {"orphan", "reset"} ELSE {"orphan"})
      BY <2>2 DEF Close
    <3> QED
      BY <3>1, <3>2
  <2> QED
    BY <2>1, <2>2
<1>6. OnlyLastOpen'
  <2>1. ASSUME NEW i \in DOMAIN conns', conns'[i].open
        PROVE  i = Len(conns') /\ socket' = "open"
    <3>1. /\ i \in 1..(Len(conns) - 1)
          /\ conns[i + 1].open
      BY <1>2, <2>1
    <3>2. i + 1 = Len(conns) /\ socket = "open"
      BY <1>3, <1>4, <3>1 DEF LinkInv, OnlyLastOpen
    <3> QED
      BY <1>2, <1>3, <1>4, <1>5, <3>1, <3>2
  <2>2. ASSUME socket' = "open"
        PROVE  conns' # <<>> /\ conns'[Len(conns')].open
    <3>1. socket = "open" /\ Len(conns) # 1
      BY <2>2 DEF Close
    <3>2. conns[Len(conns)].open
      BY <3>1 DEF LinkInv, OnlyLastOpen
    <3>3. conns'[Len(conns) - 1] = conns[Len(conns)]
      BY <1>2, <1>3, <3>1
    <3> QED
      BY <1>2, <3>1, <3>2, <3>3
  <2> QED
    BY <2>1, <2>2 DEF OnlyLastOpen
<1>7. GreetedBeforeSend'
  <2>1. ASSUME socket' = "open", hello_sent' \/ ack'
        PROVE  conns'[Len(conns')].greeted
    <3>1. socket = "open" /\ Len(conns) # 1 /\ (hello_sent \/ ack)
      BY <2>1 DEF Close
    <3>2. conns[Len(conns)].greeted
      BY <3>1 DEF LinkInv, GreetedBeforeSend
    <3>3. conns'[Len(conns) - 1] = conns[Len(conns)]
      BY <1>2, <1>3, <3>1
    <3> QED
      BY <1>2, <3>2, <3>3
  <2>2. (place' = "send" => hello_sent') /\ (ack' => socket' # "none")
    BY <1>5 DEF LinkInv, GreetedBeforeSend, Close
  <2> QED
    BY <2>1, <2>2 DEF GreetedBeforeSend
<1>8. CallHasMessage' /\ SessionHasConnection'
  BY DEF LinkInv, CallHasMessage, SessionHasConnection, Messages, States, Hello, StopAll, Close
<1>9. HelloFirst'
  BY <1>2, <1>3, <1>4 DEF LinkInv, HelloFirst
<1> QED
  BY <1>6, <1>7, <1>8, <1>9 DEF LinkInv

(* The application's process ends.                                         *)
LEMMA KeepsOnReset ==
  ASSUME TypeOK, LinkInv, AllReset, UNCHANGED <<place, call, hello_sent, ack>>
  PROVE  LinkInv'
<1>1. OnlyLastOpen'
  BY DEF AllReset, OnlyLastOpen
<1>2. CallHasMessage' /\ GreetedBeforeSend' /\ SessionHasConnection'
  BY DEF LinkInv, CallHasMessage, GreetedBeforeSend, SessionHasConnection, AllReset,
         Messages, States, Hello, StopAll
<1>3. HelloFirst'
  BY DEF AllReset, HelloFirst
<1> QED
  BY <1>1, <1>2, <1>3 DEF LinkInv

-----------------------------------------------------------------------------
(* Type correctness.                                                       *)

LEMMA TypeInit == Init => TypeOK
<1> SUFFICES ASSUME Init PROVE TypeOK
  OBVIOUS
<1>1. GameTypeOK
  BY DEF Init, GameTypeOK, Forgotten
<1>2. ClientTypeOK
  BY DEF Init, ClientTypeOK
<1>3. <<>> \in Seq(Connection)
  BY EmptySeq
<1>4. 0 \in Level
  BY DEF Level, MaxLevel
<1>5. ServerTypeOK
  BY <1>3, <1>4 DEF Init, ServerTypeOK
<1> QED
  BY <1>1, <1>2, <1>5 DEF TypeOK

(* The game and its DeviceProxy.                                           *)
LEMMA GameTypeStep ==
  ASSUME GameTypeOK, [Next]_vars
  PROVE  GameTypeOK'
<1>1. CASE UNCHANGED gameVars
  BY <1>1 DEF gameVars, GameTypeOK
<1>2. CASE Launch \/ Announce \/ Detach
  BY <1>2 DEF Launch, Announce, Detach, GameTypeOK
<1>3. CASE proxy' = Forgotten /\ overruled' = FALSE /\ UNCHANGED <<game, announced>>
  BY <1>3 DEF Forgotten, GameTypeOK
<1>4. ASSUME NEW p \in Payloads, UpdateState(p)
      PROVE  GameTypeOK'
  BY <1>4 DEF UpdateState, GameTypeOK
<1>5. CASE game' = "absent" /\ announced' = FALSE /\ proxy' = Forgotten /\ overruled' = FALSE
  BY <1>5 DEF Forgotten, GameTypeOK
<1>6. ClientStep => UNCHANGED gameVars \/ Shutdown
  BY DEF ClientStep, Connect, ConnectRefused, SendHello, SendMessage, SendFails, ReceiveAck,
         AckFails, OnlyConns, gameVars
<1>7. ServerStep => UNCHANGED gameVars
  BY DEF ServerStep, Accept, HandleHello, HandleStopAll, HandleState, SessionEnds, RefuseState, Close, gameVars
<1>8. ResetArrives \/ AppQuits \/ AppStarts \/ CycleBegins \/ CycleEnds \/ UNCHANGED vars
        => UNCHANGED gameVars
  BY DEF ResetArrives, AppQuits, AppStarts, CycleBegins, CycleEnds, vars, gameVars
<1>9. UpdateNothing \/ Unacquire \/ Release
        => proxy' = Forgotten /\ overruled' = FALSE /\ UNCHANGED <<game, announced>>
  BY DEF UpdateNothing, Unacquire, Release
<1>10. Crash \/ Shutdown
         => game' = "absent" /\ announced' = FALSE /\ proxy' = Forgotten /\ overruled' = FALSE
  BY DEF Crash, Shutdown
<1>11. CASE UnacquireOther
  BY <1>11 DEF UnacquireOther, GameTypeOK
<1> QED
  BY <1>1, <1>2, <1>3, <1>4, <1>5, <1>6, <1>7, <1>8, <1>9, <1>10, <1>11 DEF Next

(* The connections.                                                        *)
LEMMA ConnsTypeStep ==
  ASSUME IInv, [Next]_vars
  PROVE  conns' \in Seq(Connection)
<1>0. TypeOK /\ OnlyLastOpen /\ SessionHasConnection /\ CallHasMessage
  BY DEF IInv, LinkInv
<1>1. CASE UNCHANGED conns
  BY <1>0, <1>1 DEF TypeOK, ServerTypeOK
<1>2. CASE disconnect
  BY <1>0, <1>2, AfterDisconnect DEF disconnect
<1>3. CASE conns' = Append(conns, [data |-> <<>>, open |-> TRUE, greeted |-> FALSE])
  BY <1>0, <1>3, Opened
<1>4. ASSUME NEW m \in Messages, Transmit(m)
      PROVE  conns' \in Seq(Connection)
  BY <1>0, <1>1, <1>4, Sent DEF Transmit
<1>5. ASSUME NEW type, Reading(type), conns' = Consumed \/ conns' = [Consumed EXCEPT ![1].greeted = TRUE]
      PROVE  conns' \in Seq(Connection)
  <2>1. conns # <<>> /\ conns[1].data # <<>>
    BY <1>0, <1>5, InService
  <2> QED
    BY <1>0, <1>5, <2>1, Received
<1>6. ASSUME NEW unread, session, Close(unread)
      PROVE  conns' \in Seq(Connection)
  BY <1>0, <1>6, FirstGone DEF Close, SessionHasConnection
<1>7. CASE AllReset
  BY <1>7, EmptySeq DEF AllReset
<1>8. CASE ClientStep
  <2>1. Connect => UNCHANGED conns \/ conns' = Append(conns, [data |-> <<>>, open |-> TRUE, greeted |-> FALSE])
    BY DEF Connect
  <2>2. ConnectRefused \/ ReceiveAck => UNCHANGED conns
    BY DEF ConnectRefused, ReceiveAck, serverVars
  <2>3. SendHello => Transmit(Hello) /\ Hello \in Messages
    BY DEF SendHello, Messages
  <2>4. SendMessage => Transmit(call) /\ call \in Messages
    BY <1>0 DEF SendMessage, CallHasMessage
  <2>5. SendFails \/ AckFails \/ Shutdown => disconnect
    BY DEF SendFails, AckFails, Shutdown
  <2> QED
    BY <1>1, <1>2, <1>3, <1>4, <1>8, <2>1, <2>2, <2>3, <2>4, <2>5 DEF ClientStep
<1>9. CASE ServerStep
  <2>1. Accept => UNCHANGED conns
    BY DEF Accept
  <2>2. CASE HandleHello
    BY <1>5, <1>6, <1>7, <2>2 DEF HandleHello, Reading
  <2>3. CASE HandleStopAll \/ HandleState
    BY <1>5, <2>3 DEF HandleStopAll, HandleState
  <2>4. CASE SessionEnds \/ RefuseState
    BY <1>6, <2>4 DEF SessionEnds, RefuseState, Reading
  <2> QED
    BY <1>1, <1>9, <2>1, <2>2, <2>3, <2>4 DEF ServerStep
<1>10. CASE Launch \/ Announce \/ UpdateNothing \/ Unacquire \/ UnacquireOther \/ Release \/ Detach
  BY <1>1, <1>10 DEF Launch, Announce, UpdateNothing, Unacquire, UnacquireOther, Release, Detach, serverVars
<1>11. ASSUME NEW p \in Payloads, UpdateState(p)
       PROVE  conns' \in Seq(Connection)
  BY <1>1, <1>11 DEF UpdateState, serverVars
<1>12. CASE ResetArrives \/ AppStarts \/ CycleBegins \/ CycleEnds \/ UNCHANGED vars
  BY <1>1, <1>12 DEF ResetArrives, AppStarts, CycleBegins, CycleEnds, vars, serverVars
<1>13. CASE Crash
  BY <1>2, <1>13 DEF Crash
<1>14. CASE AppQuits
  BY <1>7, <1>14 DEF AppQuits
<1> QED
  BY <1>8, <1>9, <1>10, <1>11, <1>12, <1>13, <1>14 DEF Next

(* The client.  Only a new connection and disconnect touch hello_sent and  *)
(* the socket in ways that could put them apart.                           *)
LEMMA ClientTypeStep ==
  ASSUME IInv, [Next]_vars
  PROVE  ClientTypeOK'
<1>0. ClientTypeOK /\ GreetedBeforeSend
  BY DEF IInv, LinkInv, TypeOK
<1>1. CASE UNCHANGED clientVars
  BY <1>0, <1>1 DEF clientVars, ClientTypeOK
<1>2. ASSUME NEW m \in Messages, Begin(m)
      PROVE  ClientTypeOK'
  BY <1>0, <1>2 DEF Begin, ClientTypeOK
<1>3. CASE disconnect /\ ((UNCHANGED <<place, call>>) \/ Return)
  BY <1>0, <1>3 DEF disconnect, Return, ClientTypeOK
<1>4. CASE (UNCHANGED <<call, hello_sent, ack>> \/ (Return /\ UNCHANGED <<hello_sent, ack>>))
           /\ place' \in {"idle", "connect", "hello", "ack", "send"}
           /\ socket' \in {"open", "orphan", "doomed", "reset"}
  BY <1>0, <1>4 DEF Return, ClientTypeOK
<1>5. ASSUME NEW unread, Close(unread)
      PROVE  ClientTypeOK'
  <2>1. UNCHANGED <<place, call, hello_sent, ack>>
    BY <1>5 DEF Close
  <2>2. UNCHANGED socket \/ socket' \in {"orphan", "reset"}
    <3>1. CASE socket # "open" \/ Len(conns) > 1
      BY <1>5, <3>1 DEF Close
    <3>2. CASE ~(socket # "open" \/ Len(conns) > 1)
      BY <1>5, <3>2 DEF Close
    <3> QED
      BY <3>1, <3>2
  <2> QED
    BY <1>0, <2>1, <2>2 DEF ClientTypeOK
<1>6. CASE AllReset /\ UNCHANGED <<place, call, hello_sent, ack>>
  <2>1. socket' = socket \/ socket' = "reset"
    BY <1>6 DEF AllReset
  <2> QED
    BY <1>0, <1>6, <2>1 DEF ClientTypeOK
<1>7. ASSUME NEW p \in Payloads, UpdateState(p)
      PROVE  ClientTypeOK'
  <2>1. [type |-> "apply_wheel_state", payload |-> p] \in Messages
    BY DEF Messages, States
  <2> QED
    BY <1>2, <1>7, <2>1 DEF UpdateState
<1>8. CASE Announce \/ UpdateNothing \/ Unacquire \/ UnacquireOther \/ Detach
  <2>1. Hello \in Messages /\ StopAll \in Messages
    BY DEF Messages
  <2> QED
    BY <1>2, <1>8, <2>1 DEF Announce, UpdateNothing, Unacquire, UnacquireOther, Detach
<1>9. CASE ClientStep
  <2>1. CASE Connect
    <3>1. (socket' = socket /\ socket # "none") \/ socket' = "open"
      BY <2>1 DEF Connect
    <3>2. place' \in {"send", "hello"} /\ UNCHANGED <<call, hello_sent, ack>>
      BY <2>1 DEF Connect
    <3> QED
      BY <1>0, <1>4, <3>1, <3>2 DEF ClientTypeOK
  <2>2. CASE ConnectRefused
    BY <1>0, <2>2 DEF ConnectRefused, Return, ClientTypeOK
  <2>3. ASSUME NEW m, Transmit(m)
        PROVE  socket' \in {"open", "orphan", "doomed", "reset"}
    BY <2>3 DEF Transmit
  <2>4. CASE SendHello
    BY <1>4, <2>3, <2>4 DEF SendHello
  <2>5. CASE SendMessage
    BY <1>4, <2>3, <2>5 DEF SendMessage, Return
  <2>6. CASE SendFails \/ AckFails
    BY <1>3, <2>6 DEF SendFails, AckFails
  <2>7. CASE Shutdown
    BY <1>3, <2>7 DEF Shutdown
  <2>8. CASE ReceiveAck
    BY <1>0, <2>8 DEF ReceiveAck, Return, ClientTypeOK, GreetedBeforeSend
  <2> QED
    BY <1>9, <2>1, <2>2, <2>4, <2>5, <2>6, <2>7, <2>8 DEF ClientStep
<1>10. CASE ServerStep
  <2>1. CASE Accept \/ HandleStopAll \/ HandleState
    BY <1>1, <2>1 DEF Accept, HandleStopAll, HandleState
  <2>2. CASE HandleHello
    <3>1. CASE ack' = (ack \/ conns[1].open) /\ UNCHANGED <<place, call, socket, hello_sent>>
      BY <1>0, <3>1 DEF ClientTypeOK
    <3> QED
      BY <1>5, <1>6, <2>2, <3>1 DEF HandleHello
  <2>3. CASE SessionEnds \/ RefuseState
    BY <1>5, <2>3 DEF SessionEnds, RefuseState
  <2> QED
    BY <1>10, <2>1, <2>2, <2>3 DEF ServerStep
<1>11. CASE ResetArrives
  BY <1>0, <1>11 DEF ResetArrives, ClientTypeOK
<1>12. CASE Crash
  BY <1>3, <1>12 DEF Crash
<1>13. CASE AppQuits
  BY <1>6, <1>13 DEF AppQuits
<1>14. CASE Launch \/ Release \/ AppStarts \/ CycleBegins \/ CycleEnds \/ UNCHANGED vars
  BY <1>1, <1>14 DEF Launch, Release, AppStarts, CycleBegins, CycleEnds, vars
<1> QED
  BY <1>7, <1>8, <1>9, <1>10, <1>11, <1>12, <1>13, <1>14 DEF Next

(* A packet moves the force to a level that the wheel's byte can carry.    *)
LEMMA LevelStays ==
  ASSUME level \in Level, NEW p
  PROVE  LevelAfter(p) \in Level
<1>1. CASE p \in DOMAIN Forces
  <2>1. Forces[p] \in Level
    BY <1>1, ForcesAssumption
  <2>2. apply_constant_slew_limiter(Forces[p], level # 0, level) \in Level
    BY <2>1, LimiterBounds
  <2> QED
    BY <1>1, <2>2 DEF LevelAfter
<1>2. CASE p \notin DOMAIN Forces
  BY <1>2 DEF LevelAfter, Level, MaxLevel
<1> QED
  BY <1>1, <1>2

(* The server.                                                             *)
LEMMA ServerTypeStep ==
  ASSUME IInv, [Next]_vars
  PROVE  ServerTypeOK'
<1>0. /\ TypeOK /\ ServerTypeOK /\ SessionHasConnection
      /\ conns' \in Seq(Connection)
  BY ConnsTypeStep DEF IInv, LinkInv, TypeOK
<1>1. CASE UNCHANGED <<up, session, cycle, applied, level, disturbed>>
  BY <1>0, <1>1 DEF ServerTypeOK
<1> 0 \in Level
  BY DEF Level, MaxLevel
<1>2. ASSUME NEW unread, Close(unread)
      PROVE  ServerTypeOK'
  <2>1. session' = FALSE /\ Released /\ disturbed' = FALSE /\ UNCHANGED <<up, cycle>>
    BY <1>2 DEF Close, AfterSession
  <2> QED
    BY <1>0, <2>1 DEF ServerTypeOK, Released
<1>3. CASE HandleState
  <2>1. /\ Head(conns) = conns[1] /\ Head(conns[1].data) \in Messages
        /\ Head(conns[1].data).type = "apply_wheel_state"
    BY <1>0, <1>3, InService, FirstRead DEF HandleState
  <2>2. Head(Head(conns).data).payload \in Payloads
    BY <2>1 DEF Messages, States, Hello, StopAll
  <2>3. /\ applied' \in Payloads \cup {Nothing}
        /\ level' \in Level
        /\ applied' = Nothing => level' = 0
    BY <1>0, <1>3, <2>2, LevelStays, PayloadsAssumption DEF HandleState, ServerTypeOK
  <2>4. disturbed' \in BOOLEAN /\ UNCHANGED <<up, session, cycle>>
    BY <1>3 DEF HandleState
  <2> QED
    BY <1>0, <2>3, <2>4 DEF ServerTypeOK
<1>4. CASE HandleHello
  <2>1. CASE up' = FALSE /\ cycle' = FALSE /\ AllReset /\ UNCHANGED <<applied, level, disturbed>>
    BY <1>0, <2>1 DEF AllReset, ServerTypeOK
  <2> QED
    BY <1>1, <1>2, <1>4, <2>1 DEF HandleHello
<1>5. CASE HandleStopAll
  BY <1>0, <1>5 DEF HandleStopAll, Released, ServerTypeOK
<1>6. CASE Accept
  BY <1>0, <1>6 DEF Accept, ServerTypeOK
<1>7. CASE SessionEnds \/ RefuseState
  BY <1>2, <1>7 DEF SessionEnds, RefuseState
<1>8. CASE ClientStep
  BY <1>1, <1>8 DEF ClientStep, Connect, ConnectRefused, SendHello, SendMessage, SendFails, ReceiveAck,
     AckFails, Shutdown, OnlyConns, serverVars
<1>9. CASE AppQuits
  BY <1>0, <1>9 DEF AppQuits, AllReset, Released, ServerTypeOK
<1>10. CASE AppStarts
  BY <1>0, <1>10 DEF AppStarts, ServerTypeOK
<1>11. CASE CycleBegins
  BY <1>0, <1>11 DEF CycleBegins, Released, ServerTypeOK
<1>12. CASE CycleEnds
  BY <1>0, <1>12 DEF CycleEnds, ServerTypeOK
<1>13. CASE Launch \/ Announce \/ UpdateNothing \/ Unacquire \/ UnacquireOther \/ Release \/ Detach
            \/ ResetArrives \/ Crash \/ UNCHANGED vars
  BY <1>1, <1>13 DEF Launch, Announce, UpdateNothing, Unacquire, UnacquireOther, Release, Detach,
     ResetArrives, Crash, vars, serverVars
<1>14. ASSUME NEW p \in Payloads, UpdateState(p)
       PROVE  ServerTypeOK'
  BY <1>1, <1>14 DEF UpdateState, serverVars
<1> QED
  BY <1>3, <1>4, <1>5, <1>6, <1>7, <1>8, <1>9, <1>10, <1>11, <1>12, <1>13, <1>14 DEF Next, ServerStep

LEMMA TypeStep == IInv /\ [Next]_vars => TypeOK'
  BY GameTypeStep, ClientTypeStep, ServerTypeStep DEF IInv, TypeOK

-----------------------------------------------------------------------------
(* The inductive invariant.                                                *)

LEMMA LinkInit == Init => LinkInv
  BY DEF Init, LinkInv, OnlyLastOpen, CallHasMessage, GreetedBeforeSend, SessionHasConnection, HelloFirst

LEMMA LinkStep ==
  ASSUME IInv, [Next]_vars
  PROVE  LinkInv'
<1>0. /\ TypeOK /\ ClientTypeOK /\ LinkInv
      /\ CallHasMessage /\ GreetedBeforeSend /\ SessionHasConnection
  BY DEF IInv, LinkInv, TypeOK
<1>1. CASE UNCHANGED <<conns, socket, place, call, hello_sent, ack, session>>
  BY <1>0, <1>1, KeepsConnections DEF CallHasMessage, GreetedBeforeSend, SessionHasConnection,
     Messages, States, Hello, StopAll
<1>2. ASSUME NEW m \in Messages, Begin(m), UNCHANGED <<conns, session>>
      PROVE  LinkInv'
  <2>1. CallHasMessage'
    BY <1>2 DEF Begin, CallHasMessage, Messages, States, Hello, StopAll
  <2> QED
    BY <1>0, <1>2, <2>1, KeepsConnections DEF Begin, SessionHasConnection
<1>3. CASE disconnect /\ place' = "idle" /\ UNCHANGED session
  BY <1>0, <1>3, KeepsOnDisconnect
<1>4. ASSUME NEW m \in Messages, m = Hello \/ hello_sent, Transmit(m),
             place' # "send", UNCHANGED <<hello_sent, ack, session>>, CallHasMessage'
      PROVE  LinkInv'
  <2>1. CASE /\ socket = "open"
             /\ conns' = [conns EXCEPT ![Len(conns)].data = Append(@, m)]
             /\ UNCHANGED socket
    BY <1>0, <1>4, <2>1, KeepsOnSend
  <2>2. CASE socket \in {"orphan", "doomed"} /\ socket' = "doomed" /\ UNCHANGED conns
    BY <1>0, <1>4, <2>2, KeepsConnections DEF SessionHasConnection
  <2> QED
    BY <1>4, <2>1, <2>2 DEF Transmit
<1>5. CASE ClientStep
  <2>1. CASE Connect
    <3>1. /\ UNCHANGED <<call, hello_sent, ack, session>>
          /\ place = "connect" /\ place' \in {"send", "hello"}
          /\ place' = "send" => hello_sent
      BY <2>1 DEF Connect, OnlyConns
    <3>2. CallHasMessage'
      BY <1>0, <3>1 DEF CallHasMessage, Messages, States, Hello, StopAll
    <3>3. CASE socket # "none" /\ UNCHANGED <<socket, conns>>
      BY <1>0, <3>1, <3>2, <3>3, KeepsConnections DEF SessionHasConnection
    <3>4. CASE /\ socket = "none" /\ socket' = "open"
               /\ conns' = Append(conns, [data |-> <<>>, open |-> TRUE, greeted |-> FALSE])
      <4>1. place' # "send"
        BY <1>0, <3>1, <3>4 DEF ClientTypeOK
      <4> QED
        BY <1>0, <3>1, <3>2, <3>4, <4>1, KeepsOnConnect
    <3> QED
      BY <2>1, <3>3, <3>4 DEF Connect
  <2>2. CASE ConnectRefused
    <3>1. CallHasMessage'
      BY <2>2 DEF ConnectRefused, Return, CallHasMessage
    <3> QED
      BY <1>0, <2>2, <3>1, KeepsConnections DEF ConnectRefused, Return, SessionHasConnection, serverVars
  <2>3. CASE SendHello
    <3>1. Hello \in Messages
      BY DEF Messages
    <3>2. CallHasMessage'
      BY <1>0, <2>3 DEF SendHello, CallHasMessage, Messages, States, Hello, StopAll
    <3> QED
      BY <1>4, <2>3, <3>1, <3>2 DEF SendHello, OnlyConns
  <2>4. CASE SendMessage
    <3>1. call \in Messages /\ hello_sent
      BY <1>0, <2>4 DEF SendMessage, CallHasMessage, GreetedBeforeSend
    <3>2. place' = "idle" /\ CallHasMessage'
      BY <2>4 DEF SendMessage, Return, CallHasMessage
    <3> QED
      BY <1>4, <2>4, <3>1, <3>2 DEF SendMessage, OnlyConns
  <2>5. CASE SendFails \/ AckFails \/ Shutdown
    BY <1>3, <2>5 DEF SendFails, AckFails, Shutdown, Return, OnlyConns
  <2>6. CASE ReceiveAck
    <3>1. CallHasMessage'
      BY <1>0, <2>6 DEF ReceiveAck, Return, CallHasMessage, Messages, States, Hello, StopAll
    <3> QED
      BY <1>0, <2>6, <3>1, KeepsConnections DEF ReceiveAck, SessionHasConnection, serverVars
  <2> QED
    BY <1>5, <2>1, <2>2, <2>3, <2>4, <2>5, <2>6 DEF ClientStep
<1>6. CASE ServerStep
  <2>1. CASE Accept
    <3>1. CallHasMessage'
      BY <1>0, <2>1 DEF Accept, clientVars, CallHasMessage, Messages, States, Hello, StopAll
    <3> QED
      BY <1>0, <2>1, <3>1, KeepsConnections DEF Accept, clientVars, GreetedBeforeSend
  <2>2. CASE HandleHello
    <3>1. session /\ conns[1].data # <<>>
      BY <1>0, <2>2, InService DEF HandleHello, Reading
    <3>2. CASE /\ conns' = [Consumed EXCEPT ![1].greeted = TRUE]
               /\ ack' = (ack \/ conns[1].open)
               /\ UNCHANGED <<place, call, socket, hello_sent, session>>
      BY <1>0, <3>1, <3>2, KeepsOnReceive
    <3>3. CASE Close(Len(conns[1].data) > 1)
      BY <1>0, <3>1, <3>3, KeepsOnClose
    <3>4. CASE AllReset /\ UNCHANGED <<place, call, hello_sent, ack>>
      BY <1>0, <3>4, KeepsOnReset
    <3> QED
      BY <2>2, <3>2, <3>3, <3>4 DEF HandleHello
  <2>3. CASE HandleStopAll \/ HandleState
    <3>1. session /\ conns[1].data # <<>> /\ Head(conns[1].data).type # "hello"
      BY <1>0, <2>3, InService DEF HandleStopAll, HandleState, Reading
    <3>2. Head(conns[1].data) # Hello
      BY <3>1 DEF Hello
    <3>3. conns' = Consumed /\ UNCHANGED <<place, call, socket, hello_sent, ack, session>>
      BY <2>3 DEF HandleStopAll, HandleState, clientVars
    <3> QED
      BY <1>0, <3>1, <3>2, <3>3, KeepsOnReceive
  <2>4. CASE SessionEnds \/ RefuseState
    BY <1>0, <2>4, KeepsOnClose DEF SessionEnds, RefuseState, Reading
  <2> QED
    BY <1>6, <2>1, <2>2, <2>3, <2>4 DEF ServerStep
<1>7. CASE Announce \/ UpdateNothing \/ Unacquire \/ UnacquireOther \/ Detach
  <2>1. Hello \in Messages /\ StopAll \in Messages
    BY DEF Messages
  <2> QED
    BY <1>2, <1>7, <2>1 DEF Announce, UpdateNothing, Unacquire, UnacquireOther, Detach, serverVars
<1>8. ASSUME NEW p \in Payloads, UpdateState(p)
      PROVE  LinkInv'
  <2>1. [type |-> "apply_wheel_state", payload |-> p] \in Messages
    BY DEF Messages, States
  <2> QED
    BY <1>2, <1>8, <2>1 DEF UpdateState, serverVars
<1>9. CASE Launch \/ Release \/ AppStarts \/ CycleBegins \/ CycleEnds \/ UNCHANGED vars
  BY <1>1, <1>9 DEF Launch, Release, AppStarts, CycleBegins, CycleEnds, vars, clientVars, serverVars
<1>10. CASE ResetArrives
  <2>1. CallHasMessage'
    BY <1>0, <1>10 DEF ResetArrives, CallHasMessage, Messages, States, Hello, StopAll
  <2> QED
    BY <1>0, <1>10, <2>1, KeepsConnections DEF ResetArrives, serverVars, GreetedBeforeSend, SessionHasConnection
<1>11. CASE Crash
  BY <1>3, <1>11 DEF Crash, Return
<1>12. CASE AppQuits
  BY <1>0, <1>12, KeepsOnReset DEF AppQuits
<1> QED
  BY <1>5, <1>6, <1>7, <1>8, <1>9, <1>10, <1>11, <1>12 DEF Next

(* Every reachable state is well typed and satisfies the invariant.        *)
THEOREM Invariance == Spec => []IInv
<1>1. Init => IInv
  BY TypeInit, LinkInit DEF IInv
<1>2. IInv /\ [Next]_vars => IInv'
  BY TypeStep, LinkStep DEF IInv
<1> QED
  BY <1>1, <1>2, PTL DEF Spec

(* The client, its connections and the server's session are well typed;    *)
(* in particular no hello is taken for sent without a socket.              *)
THEOREM TypeCorrect == Spec => []TypeOK
<1>1. IInv => TypeOK
  BY DEF IInv
<1> QED
  BY <1>1, Invariance, PTL

(* A hello is the first thing the server reads from every connection, also *)
(* from one that replaces a lost one in the middle of a call.              *)
THEOREM HelloOpens == Spec => []HelloFirst
<1>1. IInv => HelloFirst
  BY DEF IInv, LinkInv
<1> QED
  BY <1>1, Invariance, PTL

-----------------------------------------------------------------------------
(* What the proxy takes for applied.                                       *)

Believed == [type |-> "apply_wheel_state", payload |-> proxy.last_payload]

(* A game that has not announced itself has sent nothing.                  *)
SilentBefore == game = "absent" \/ ~announced => ~proxy.have_last_payload

(* The last message is the state, or a stop_all for another device after. *)
LastMessages == {Believed} \cup (IF overruled THEN {StopAll} ELSE {})

CallIsBelieved == game = "running" /\ place # "idle" /\ proxy.have_last_payload => call \in LastMessages

OpenIsGreeted == socket = "open" /\ place \in {"idle", "connect"} => hello_sent

GreetedInService == \A i \in DOMAIN conns : conns[i].greeted => i = 1 /\ session

(* No level without a constant force in the state that was applied last.   *)
LevelHasForce == applied \notin DOMAIN Forces => level = 0

Applied ==
  \/ applied = proxy.last_payload
  \/ applied = Nothing /\ (disturbed \/ overruled)

(* A connect cycle holds the wheel at rest.                                *)
RestInCycle == cycle => applied = Nothing

(* The last message on its way is the believed state or a stop behind it,  *)
(* or it has been handled as the last one.                                 *)
LastIsBelieved ==
  game = "running" /\ place = "idle" /\ socket = "open" /\ proxy.have_last_payload
    => /\ conns[1].data # <<>> => conns[1].data[Len(conns[1].data)] \in LastMessages
       /\ conns[1].data = <<>> => Applied

BeliefInv ==
  /\ SilentBefore /\ CallIsBelieved /\ OpenIsGreeted /\ GreetedInService
  /\ LevelHasForce /\ RestInCycle /\ LastIsBelieved

LEMMA LastOfTail ==
  ASSUME NEW S, NEW d \in Seq(S), d # <<>>
  PROVE  /\ Tail(d) # <<>> => Tail(d)[Len(Tail(d))] = d[Len(d)]
         /\ Tail(d) = <<>> => d[Len(d)] = Head(d)
<1>1. /\ Len(d) \in Nat /\ Len(d) >= 1 /\ Head(d) = d[1]
      /\ Tail(d) \in Seq(S) /\ Len(Tail(d)) = Len(d) - 1
      /\ \A i \in 1..(Len(d) - 1) : Tail(d)[i] = d[i + 1]
  BY HeadTailProperties, EmptySeq, LenProperties
<1>2. ASSUME Tail(d) # <<>>
      PROVE  Tail(d)[Len(Tail(d))] = d[Len(d)]
  <2>1. Len(d) - 1 \in 1..(Len(d) - 1)
    BY <1>1, <1>2, EmptySeq, LenProperties
  <2>2. Tail(d)[Len(d) - 1] = d[(Len(d) - 1) + 1] /\ (Len(d) - 1) + 1 = Len(d)
    BY <1>1, <2>1
  <2> QED
    BY <1>1, <2>2
<1>3. ASSUME Tail(d) = <<>>
      PROVE  d[Len(d)] = Head(d)
  <2>1. Len(Tail(d)) = 0
    BY <1>3, EmptySeq
  <2>2. Len(d) - 1 = 0
    BY <1>1, <2>1
  <2>3. Len(d) \in Nat /\ Len(d) - 1 = 0 => Len(d) = 1
    OBVIOUS
  <2> QED
    BY <1>1, <2>2, <2>3
<1> QED
  BY <1>2, <1>3

(* The client's connection, once it has been greeted, is in service.       *)
LEMMA GreetedIsFirst ==
  ASSUME TypeOK, LinkInv, GreetedInService, socket = "open", hello_sent
  PROVE  Len(conns) = 1 /\ session /\ conns # <<>>
<1>1. conns # <<>> /\ conns[Len(conns)].greeted
  BY DEF LinkInv, OnlyLastOpen, GreetedBeforeSend
<1>2. Len(conns) \in DOMAIN conns
  BY <1>1, Numbered
<1> QED
  BY <1>1, <1>2 DEF GreetedInService

LEMMA RestRead ==
  ASSUME TypeOK, conns # <<>>, conns[1].data # <<>>,
         conns' = Consumed \/ conns' = [Consumed EXCEPT ![1].greeted = TRUE]
  PROVE  conns'[1].data = Tail(conns[1].data)
<1>1. 1 \in 1..Len(conns) /\ conns[1] \in Connection
  BY Numbered
<1>2. conns \in Seq(Connection) /\ DOMAIN conns = 1..Len(conns)
  BY Numbered DEF TypeOK, ServerTypeOK
<1>3. Consumed[1].data = Tail(conns[1].data) /\ DOMAIN Consumed = DOMAIN conns
      /\ DOMAIN Consumed[1] = DOMAIN conns[1]
  BY <1>1, <1>2 DEF Consumed, Connection
<1>4. "data" \in DOMAIN conns[1] /\ "greeted" # "data"
  BY <1>1 DEF Connection
<1> QED
  BY <1>1, <1>2, <1>3, <1>4

LEMMA LastOfQueue ==
  ASSUME TypeOK, OnlyLastOpen, socket = "open", Len(conns) = 1, NEW m \in Messages,
         conns' = [conns EXCEPT ![Len(conns)].data = Append(@, m)]
  PROVE  conns'[1].data # <<>> /\ conns'[1].data[Len(conns'[1].data)] = m
<1>1. 1 \in DOMAIN conns /\ conns[1] \in Connection /\ conns[1].data \in Seq(Messages)
  BY Numbered
<1>2. conns'[1].data = Append(conns[1].data, m)
  BY <1>1 DEF Connection
<1> QED
  BY <1>1, <1>2, AppendProperties

-----------------------------------------------------------------------------
(* Greeted connections.                                                    *)

LEMMA GreetedStep ==
  ASSUME IInv, GreetedInService, [Next]_vars
  PROVE  GreetedInService'
<1>0. /\ TypeOK /\ LinkInv /\ OnlyLastOpen /\ SessionHasConnection /\ CallHasMessage
      /\ DOMAIN conns = 1..Len(conns) /\ Len(conns) \in Nat
  BY Numbered DEF IInv, LinkInv
<1>1. CASE UNCHANGED conns /\ (session => session')
  BY <1>1 DEF GreetedInService
<1>2. CASE disconnect /\ UNCHANGED session
  BY <1>0, <1>2, AfterDisconnect DEF disconnect, GreetedInService
<1>3. ASSUME NEW m \in Messages, Transmit(m), UNCHANGED session
      PROVE  GreetedInService'
  <2>1. CASE UNCHANGED conns
    BY <1>1, <1>3, <2>1
  <2>2. CASE socket = "open" /\ conns' = [conns EXCEPT ![Len(conns)].data = Append(@, m)]
    BY <1>0, <1>3, <2>2, Sent DEF GreetedInService
  <2> QED
    BY <1>3, <2>1, <2>2 DEF Transmit
<1>4. ASSUME NEW unread, Close(unread), conns # <<>>
      PROVE  GreetedInService'
  <2>1. /\ DOMAIN conns' = 1..(Len(conns) - 1)
        /\ \A i \in 1..(Len(conns) - 1) : conns'[i] = conns[i + 1]
    BY <1>0, <1>4, FirstGone DEF Close
  <2>2. \A i \in 1..(Len(conns) - 1) : i + 1 \in DOMAIN conns /\ i + 1 # 1
    BY <1>0
  <2>3. \A i \in DOMAIN conns' : ~conns'[i].greeted
    BY <2>1, <2>2 DEF GreetedInService
  <2> QED
    BY <2>3 DEF GreetedInService
<1>5. CASE AllReset
  BY <1>5, EmptySeq DEF AllReset, GreetedInService
<1>6. CASE ClientStep
  <2>1. CASE Connect
    <3>1. UNCHANGED session
      BY <2>1 DEF Connect, OnlyConns
    <3>2. CASE conns' = Append(conns, [data |-> <<>>, open |-> TRUE, greeted |-> FALSE])
      <4>1. /\ DOMAIN conns' = 1..(Len(conns) + 1)
            /\ \A i \in 1..Len(conns) : conns'[i] = conns[i]
            /\ ~conns'[Len(conns) + 1].greeted
        BY <1>0, <3>2, Opened
      <4>2. \A i \in 1..(Len(conns) + 1) : i \in 1..Len(conns) \/ i = Len(conns) + 1
        BY <1>0
      <4> QED
        BY <1>0, <3>1, <4>1, <4>2 DEF GreetedInService
    <3> QED
      BY <1>1, <2>1, <3>1, <3>2 DEF Connect
  <2>2. CASE SendHello
    <3>1. Hello \in Messages
      BY DEF Messages
    <3> QED
      BY <1>3, <2>2, <3>1 DEF SendHello, OnlyConns
  <2>3. CASE SendMessage
    <3>1. call \in Messages
      BY <1>0, <2>3 DEF SendMessage, CallHasMessage
    <3> QED
      BY <1>3, <2>3, <3>1 DEF SendMessage, OnlyConns
  <2>4. CASE SendFails \/ AckFails \/ Shutdown
    BY <1>2, <2>4 DEF SendFails, AckFails, Shutdown, OnlyConns
  <2>5. CASE ConnectRefused \/ ReceiveAck
    BY <1>1, <2>5 DEF ConnectRefused, ReceiveAck, serverVars
  <2> QED
    BY <1>6, <2>1, <2>2, <2>3, <2>4, <2>5 DEF ClientStep
<1>7. CASE ServerStep
  <2>1. CASE Accept
    BY <1>1, <2>1 DEF Accept
  <2>2. CASE HandleHello
    <3>1. session /\ conns # <<>> /\ conns[1].data # <<>>
      BY <1>0, <2>2, InService DEF HandleHello, Reading
    <3>2. CASE conns' = [Consumed EXCEPT ![1].greeted = TRUE] /\ UNCHANGED session
      BY <1>0, <3>1, <3>2, Received DEF GreetedInService
    <3> QED
      BY <1>4, <1>5, <2>2, <3>1, <3>2 DEF HandleHello
  <2>3. CASE HandleStopAll \/ HandleState
    <3>1. session /\ conns # <<>> /\ conns[1].data # <<>>
      BY <1>0, <2>3, InService DEF HandleStopAll, HandleState, Reading
    <3>2. conns' = Consumed /\ UNCHANGED session
      BY <2>3 DEF HandleStopAll, HandleState
    <3> QED
      BY <1>0, <3>1, <3>2, Received DEF GreetedInService
  <2>4. CASE SessionEnds \/ RefuseState
    BY <1>0, <1>4, <2>4 DEF SessionEnds, RefuseState, Reading, SessionHasConnection
  <2> QED
    BY <1>7, <2>1, <2>2, <2>3, <2>4 DEF ServerStep
<1>8. CASE Announce \/ UpdateNothing \/ Unacquire \/ UnacquireOther \/ Detach
           \/ Launch \/ Release \/ ResetArrives \/ UNCHANGED vars
  BY <1>1, <1>8 DEF Announce, UpdateNothing, Unacquire, UnacquireOther, Detach, Launch, Release,
     ResetArrives, vars, serverVars
<1>9. ASSUME NEW p \in Payloads, UpdateState(p)
      PROVE  GreetedInService'
  BY <1>1, <1>9 DEF UpdateState, serverVars
<1>10. CASE AppStarts \/ CycleBegins \/ CycleEnds
  BY <1>1, <1>10 DEF AppStarts, CycleBegins, CycleEnds
<1>11. CASE Crash
  BY <1>2, <1>11 DEF Crash
<1>12. CASE AppQuits
  BY <1>5, <1>12 DEF AppQuits
<1> QED
  BY <1>6, <1>7, <1>8, <1>9, <1>10, <1>11, <1>12 DEF Next

-----------------------------------------------------------------------------
(* The client and the game.                                                *)

LEMMA BelieverStep ==
  ASSUME IInv, SilentBefore, CallIsBelieved, OpenIsGreeted, [Next]_vars
  PROVE  SilentBefore' /\ CallIsBelieved' /\ OpenIsGreeted'
<1>0. /\ ClientTypeOK /\ GameTypeOK /\ GreetedBeforeSend
  BY DEF IInv, LinkInv, TypeOK
<1> USE DEF SilentBefore, CallIsBelieved, OpenIsGreeted, LastMessages
<1>1. CASE UNCHANGED <<gameVars, clientVars>>
  BY <1>1 DEF gameVars, clientVars, Believed
<1>2. CASE disconnect /\ Return /\ (UNCHANGED gameVars \/ proxy' = Forgotten)
  BY <1>2 DEF disconnect, Return, gameVars, Forgotten
<1>3. ASSUME NEW unread, Close(unread)
      PROVE  SilentBefore' /\ CallIsBelieved' /\ OpenIsGreeted'
  <2>1. UNCHANGED <<gameVars, place, call, hello_sent, ack>> /\ (socket' = "open" => socket = "open")
    BY <1>3 DEF Close
  <2> QED
    BY <2>1 DEF gameVars, Believed
<1>4. CASE AllReset /\ UNCHANGED <<gameVars, place, call, hello_sent, ack>>
  BY <1>4 DEF AllReset, gameVars, Believed
<1>5. CASE ClientStep
  <2>1. CASE Connect
    BY <2>1 DEF Connect, OnlyConns, gameVars, Believed
  <2>2. CASE ConnectRefused
    BY <2>2 DEF ConnectRefused, Return, gameVars
  <2>3. CASE SendHello
    BY <2>3 DEF SendHello, OnlyConns, gameVars, Believed
  <2>4. CASE SendMessage
    BY <1>0, <2>4 DEF SendMessage, Return, OnlyConns, gameVars, GreetedBeforeSend
  <2>5. CASE SendFails \/ AckFails
    BY <1>2, <2>5 DEF SendFails, AckFails, OnlyConns
  <2>6. CASE Shutdown
    BY <2>6 DEF Shutdown, disconnect, Forgotten
  <2>7. CASE ReceiveAck
    BY <2>7 DEF ReceiveAck, Return, gameVars, Believed
  <2> QED
    BY <1>5, <2>1, <2>2, <2>3, <2>4, <2>5, <2>6, <2>7 DEF ClientStep
<1>6. CASE ServerStep
  <2>1. CASE Accept \/ HandleStopAll \/ HandleState
    BY <1>1, <2>1 DEF Accept, HandleStopAll, HandleState
  <2>2. CASE HandleHello
    <3>1. CASE UNCHANGED <<gameVars, place, call, socket, hello_sent>>
      BY <3>1 DEF gameVars, Believed
    <3> QED
      BY <1>3, <1>4, <2>2, <3>1 DEF HandleHello
  <2>3. CASE SessionEnds \/ RefuseState
    BY <1>3, <2>3 DEF SessionEnds, RefuseState
  <2> QED
    BY <1>6, <2>1, <2>2, <2>3 DEF ServerStep
<1>7. CASE Launch
  BY <1>7 DEF Launch, clientVars
<1>8. CASE Announce
  BY <1>8 DEF Announce, Begin
<1>9. CASE UpdateNothing \/ Unacquire
  BY <1>9 DEF UpdateNothing, Unacquire, MayCall, Begin, Forgotten
<1>10. CASE UnacquireOther
  BY <1>10 DEF UnacquireOther, MayCall, Begin
<1>11. CASE Release
  BY <1>11 DEF Release, clientVars, Forgotten
<1>12. CASE Detach
  BY <1>12 DEF Detach, Begin
<1>13. ASSUME NEW p \in Payloads, UpdateState(p)
       PROVE  SilentBefore' /\ CallIsBelieved' /\ OpenIsGreeted'
  <2>1. proxy'.last_payload = p /\ call' = [type |-> "apply_wheel_state", payload |-> p]
    BY <1>13 DEF UpdateState, Begin
  <2>2. game' = "running" /\ announced'
    BY <1>13 DEF UpdateState, MayCall
  <2>3. OpenIsGreeted'
    BY <1>13 DEF UpdateState, MayCall, Begin
  <2> QED
    BY <2>1, <2>2, <2>3 DEF Believed
<1>14. CASE ResetArrives
  BY <1>14 DEF ResetArrives, gameVars, Believed
<1>15. CASE Crash
  BY <1>2, <1>15 DEF Crash
<1>16. CASE AppQuits
  BY <1>4, <1>16 DEF AppQuits
<1>17. CASE AppStarts \/ CycleBegins \/ CycleEnds \/ UNCHANGED vars
  BY <1>1, <1>17 DEF AppStarts, CycleBegins, CycleEnds, vars
<1> QED
  BY <1>5, <1>6, <1>7, <1>8, <1>9, <1>10, <1>11, <1>12, <1>13, <1>14, <1>15, <1>16, <1>17 DEF Next

-----------------------------------------------------------------------------
(* The last message.                                                       *)

LEMMA LastStep ==
  ASSUME IInv, BeliefInv, [Next]_vars
  PROVE  LastIsBelieved'
<1>0. /\ TypeOK /\ ClientTypeOK /\ LinkInv /\ OnlyLastOpen /\ GreetedBeforeSend /\ CallHasMessage
      /\ SessionHasConnection
      /\ SilentBefore /\ CallIsBelieved /\ OpenIsGreeted /\ GreetedInService /\ RestInCycle /\ LastIsBelieved
  BY DEF IInv, LinkInv, TypeOK, BeliefInv
<1>1. SUFFICES ASSUME game' = "running", place' = "idle", socket' = "open", proxy'.have_last_payload
               PROVE  /\ conns'[1].data # <<>> => conns'[1].data[Len(conns'[1].data)] \in LastMessages'
                      /\ conns'[1].data = <<>> => Applied'
  BY DEF LastIsBelieved
<1>2. CASE UNCHANGED <<gameVars, place, socket, conns, applied>> /\ (disturbed => disturbed')
  BY <1>0, <1>1, <1>2 DEF gameVars, LastIsBelieved, Applied, LastMessages, Believed
<1>3. ~disconnect /\ ~AllReset /\ ~(\E m : Begin(m))
  BY <1>1 DEF disconnect, AllReset, Begin
<1>4. ASSUME UNCHANGED <<game, place, socket, hello_sent>>
      PROVE  Len(conns) = 1 /\ session /\ conns # <<>>
  BY <1>0, <1>1, <1>4, GreetedIsFirst DEF OpenIsGreeted
<1>5. ASSUME NEW unread
      PROVE  ~Close(unread)
  <2> SUFFICES ASSUME Close(unread)
               PROVE  FALSE
    OBVIOUS
  <2>1. UNCHANGED <<game, place, hello_sent>> /\ socket = "open"
    BY <1>1 DEF Close, gameVars
  <2>2. socket' = socket
    BY <1>1, <2>1
  <2>3. Len(conns) = 1
    BY <1>4, <2>1, <2>2
  <2> QED
    BY <1>1, <2>1, <2>3 DEF Close
<1>6. CASE ClientStep
  <2>1. CASE SendMessage
    <3>1. /\ place = "send" /\ hello_sent /\ call \in Messages /\ Transmit(call)
          /\ UNCHANGED <<gameVars, hello_sent>>
      BY <1>0, <2>1 DEF SendMessage, OnlyConns, GreetedBeforeSend, CallHasMessage
    <3>2. /\ socket = "open"
          /\ conns' = [conns EXCEPT ![Len(conns)].data = Append(@, call)]
      BY <1>1, <3>1 DEF Transmit
    <3>3. Len(conns) = 1
      BY <1>0, <3>1, <3>2, GreetedIsFirst
    <3>4. conns'[1].data # <<>> /\ conns'[1].data[Len(conns'[1].data)] = call
      BY <1>0, <3>1, <3>2, <3>3, LastOfQueue
    <3>5. call \in LastMessages'
      BY <1>0, <1>1, <2>1, <3>1 DEF CallIsBelieved, LastMessages, gameVars, Believed
    <3> QED
      BY <3>4, <3>5
  <2>2. CASE ReceiveAck
    <3>1. /\ place = "ack" /\ call = Hello /\ UNCHANGED gameVars
      BY <1>1, <2>2 DEF ReceiveAck
    <3>2. call \in LastMessages
      BY <1>0, <1>1, <3>1, <2>2 DEF ReceiveAck, CallIsBelieved, gameVars
    <3> QED
      BY <3>1, <3>2 DEF LastMessages, Believed, Hello, StopAll
  <2>3. CASE Connect \/ SendHello
    BY <1>1, <2>3 DEF Connect, SendHello
  <2>4. CASE ConnectRefused
    BY <1>1, <2>4 DEF ConnectRefused
  <2>5. CASE SendFails \/ AckFails \/ Shutdown
    BY <1>3, <2>5 DEF SendFails, AckFails, Shutdown
  <2> QED
    BY <1>6, <2>1, <2>2, <2>3, <2>4, <2>5 DEF ClientStep
<1>7. CASE ServerStep
  <2>1. CASE Accept
    BY <1>2, <2>1 DEF Accept, clientVars
  <2>2. CASE HandleHello \/ HandleStopAll \/ HandleState
    <3>1. UNCHANGED gameVars /\ UNCHANGED <<place, socket, hello_sent>>
          /\ (conns' = Consumed \/ conns' = [Consumed EXCEPT ![1].greeted = TRUE])
      BY <1>3, <1>5, <2>2 DEF HandleHello, HandleStopAll, HandleState, clientVars
    <3>2. conns # <<>> /\ conns[1].data # <<>> /\ Head(conns) = conns[1]
      BY <1>0, <2>2, InService DEF HandleHello, HandleStopAll, HandleState
    <3> DEFINE d == conns[1].data
    <3>3. d \in Seq(Messages) /\ d # <<>>
      BY <1>0, <3>2, Numbered
    <3>4. conns'[1].data = Tail(d)
      BY <1>0, <3>1, <3>2, RestRead
    <3>5. d[Len(d)] \in LastMessages
      BY <1>0, <1>1, <3>1, <3>2 DEF LastIsBelieved, gameVars
    <3>6. /\ Tail(d) # <<>> => Tail(d)[Len(Tail(d))] \in LastMessages
          /\ Tail(d) = <<>> => Head(d) \in LastMessages
      BY <3>3, <3>5, LastOfTail
    <3>7. ASSUME Tail(d) = <<>>
          PROVE  Applied'
      <4>1. Head(Head(conns).data) = Head(d) /\ Head(d) \in LastMessages
        BY <3>2, <3>6, <3>7
      <4>2. UNCHANGED <<proxy, overruled>>
        BY <3>1 DEF gameVars
      <4>3. CASE Head(d) = Believed
        <5>1. Head(Head(conns).data).type = "apply_wheel_state"
              /\ Head(Head(conns).data).payload = proxy.last_payload
          BY <4>1, <4>3 DEF Believed
        <5>2. HandleState
          BY <2>2, <5>1 DEF HandleHello, HandleStopAll, Reading
        <5> QED
          BY <1>0, <4>2, <5>1, <5>2 DEF HandleState, Applied, RestInCycle
      <4>4. CASE Head(d) = StopAll /\ overruled
        <5>1. Head(Head(conns).data).type = "stop_all"
          BY <4>1, <4>4 DEF StopAll
        <5>2. HandleStopAll
          BY <2>2, <5>1 DEF HandleHello, HandleState, Reading
        <5> QED
          BY <4>2, <4>4, <5>2 DEF HandleStopAll, Released, Applied
      <4> QED
        BY <4>1, <4>3, <4>4 DEF LastMessages
    <3>8. LastMessages = LastMessages'
      BY <3>1, <3>4 DEF LastMessages, Believed, gameVars
    <3> QED
      BY <3>1, <3>4, <3>6, <3>7, <3>8
  <2>3. CASE SessionEnds \/ RefuseState
    BY <1>5, <2>3 DEF SessionEnds, RefuseState
  <2> QED
    BY <1>7, <2>1, <2>2, <2>3 DEF ServerStep
<1>8. CASE CycleBegins
  <2>1. session
    BY <1>4, <1>8 DEF CycleBegins, gameVars, clientVars
  <2> QED
    BY <1>0, <1>1, <1>8, <2>1 DEF CycleBegins, Released, gameVars, clientVars, LastIsBelieved, Applied, LastMessages, Believed
<1>9. CASE Announce \/ UpdateNothing \/ Unacquire \/ UnacquireOther \/ Detach
  BY <1>3, <1>9 DEF Announce, UpdateNothing, Unacquire, UnacquireOther, Detach
<1>10. ASSUME NEW p \in Payloads, UpdateState(p)
       PROVE  FALSE
  BY <1>3, <1>10 DEF UpdateState
<1>11. CASE Launch
  BY <1>0, <1>1, <1>11 DEF Launch, SilentBefore
<1>12. CASE Release
  BY <1>1, <1>12 DEF Release, Forgotten
<1>13. CASE ResetArrives \/ Crash \/ AppQuits
  BY <1>1, <1>3, <1>13 DEF ResetArrives, Crash, AppQuits
<1>14. CASE AppStarts \/ CycleEnds \/ UNCHANGED vars
  BY <1>2, <1>14 DEF AppStarts, CycleEnds, clientVars, vars, serverVars
<1> QED
  BY <1>6, <1>7, <1>8, <1>9, <1>10, <1>11, <1>12, <1>13, <1>14 DEF Next

-----------------------------------------------------------------------------
(* The wheel.                                                              *)

LEMMA WheelStep ==
  ASSUME IInv, LevelHasForce, RestInCycle, [Next]_vars
  PROVE  LevelHasForce' /\ RestInCycle'
<1> Nothing \notin DOMAIN Forces
  BY PayloadsAssumption, ForcesAssumption
<1> USE DEF LevelHasForce, RestInCycle
<1>1. CASE UNCHANGED <<applied, level>> /\ (cycle' => cycle)
  BY <1>1
<1>2. CASE Released
  BY <1>2 DEF Released
<1>3. CASE HandleState
  <2>1. ASSUME NEW p, applied' = p, level' = LevelAfter(p), ~cycle'
        PROVE  LevelHasForce' /\ RestInCycle'
    BY <2>1 DEF LevelAfter
  <2> QED
    BY <1>1, <1>3, <2>1 DEF HandleState
<1>4. CASE HandleHello
  BY <1>1, <1>2, <1>4 DEF HandleHello, Close, AfterSession
<1>5. CASE Accept \/ HandleStopAll \/ SessionEnds \/ RefuseState
  BY <1>1, <1>2, <1>5 DEF Accept, HandleStopAll, SessionEnds, RefuseState, Close, AfterSession
<1>6. CASE ClientStep
  BY <1>1, <1>6 DEF ClientStep, Connect, ConnectRefused, SendHello, SendMessage, SendFails, ReceiveAck,
     AckFails, Shutdown, OnlyConns, serverVars
<1>7. CASE AppQuits \/ CycleBegins
  BY <1>2, <1>7 DEF AppQuits, CycleBegins
<1>8. CASE Announce \/ UpdateNothing \/ Unacquire \/ UnacquireOther \/ Detach \/ Launch \/ Release
           \/ ResetArrives \/ Crash \/ AppStarts \/ CycleEnds \/ UNCHANGED vars
  BY <1>1, <1>8 DEF Announce, UpdateNothing, Unacquire, UnacquireOther, Detach, Launch, Release,
     ResetArrives, Crash, AppStarts, CycleEnds, vars, serverVars
<1>9. ASSUME NEW p \in Payloads, UpdateState(p)
      PROVE  LevelHasForce' /\ RestInCycle'
  BY <1>1, <1>9 DEF UpdateState, serverVars
<1> QED
  BY <1>3, <1>4, <1>5, <1>6, <1>7, <1>8, <1>9 DEF Next, ServerStep

(* In a living session the payload that the proxy skips is the one that    *)
(* the server has applied last, and never an older one is on the wheel; or *)
(* the wheel is at rest, put there by a reconnect or by another device.    *)
(* Each way to lose a message also loses the connection it was sent into.  *)
(* What is applied is the state's settings and one step of the limiter.    *)
THEOREM LinkIsTrue == Spec => []LiveLinkIsTrue
<1>1. Init => BeliefInv
  BY EmptySeq DEF Init, Forgotten, BeliefInv, SilentBefore, CallIsBelieved, OpenIsGreeted, GreetedInService,
     LevelHasForce, RestInCycle, LastIsBelieved
<1>2. IInv /\ BeliefInv /\ [Next]_vars => BeliefInv'
  BY BelieverStep, GreetedStep, WheelStep, LastStep DEF BeliefInv
<1>3. IInv /\ BeliefInv => LiveLinkIsTrue
  <2> SUFFICES ASSUME IInv, BeliefInv, Believing
               PROVE  /\ Applied
                      /\ applied \notin DOMAIN Forces => level = 0
                      /\ applied = Nothing => level = 0
    BY DEF LiveLinkIsTrue, Applied
  <2>1. 1 \in DOMAIN conns
    BY Numbered DEF IInv, Believing
  <2>2. /\ conns[1].data = <<>> /\ game = "running" /\ place = "idle"
        /\ socket = "open" /\ proxy.have_last_payload
    BY <2>1 DEF Believing, Settled
  <2> QED
    BY <2>2 DEF BeliefInv, LevelHasForce, LastIsBelieved, IInv, TypeOK, ServerTypeOK
<1> QED
  BY <1>1, <1>2, <1>3, Invariance, PTL DEF Spec

-----------------------------------------------------------------------------
(* The contract of the server's session, for its client.                   *)

(* A connection carries one hello, ahead of everything else.               *)
HelloOnce ==
  \A i \in DOMAIN conns :
    \A k \in DOMAIN conns[i].data : conns[i].data[k] = Hello => k = 1 /\ ~conns[i].greeted

(* A client that is about to say hello has a new connection to say it on.  *)
HelloIsDue ==
  /\ game = "absent" \/ (game = "running" /\ ~announced) => place = "idle" /\ socket = "none"
  /\ place = "connect" /\ call = Hello => socket = "none"
  /\ place \in {"idle", "connect"} /\ socket # "none" => hello_sent
  /\ place = "send" => call # Hello
  /\ place = "hello" /\ socket = "open"
       => ~conns[Len(conns)].greeted /\ conns[Len(conns)].data = <<>>

(* Forces act in a session, from its hello on.                             *)
ForcesAfterHello == applied # Nothing => session /\ conns[1].greeted

LeaseInv == HelloOnce /\ HelloIsDue /\ ForcesAfterHello

(* The message goes behind those that are on their way.                    *)
LEMMA SentLast ==
  ASSUME TypeOK, OnlyLastOpen, socket = "open", NEW m \in Messages,
         conns' = [conns EXCEPT ![Len(conns)].data = Append(@, m)]
  PROVE  conns'[Len(conns)].data = Append(conns[Len(conns)].data, m)
<1>1. Len(conns) \in 1..Len(conns) /\ DOMAIN conns = 1..Len(conns)
  BY Numbered DEF OnlyLastOpen
<1>2. conns[Len(conns)] \in Connection
  BY <1>1, Numbered
<1> QED
  BY <1>1, <1>2 DEF Connection

LEMMA HelloOnceStep ==
  ASSUME IInv, LeaseInv, [Next]_vars
  PROVE  HelloOnce'
<1>0. /\ TypeOK /\ LinkInv /\ OnlyLastOpen /\ SessionHasConnection /\ CallHasMessage
      /\ HelloOnce /\ HelloIsDue /\ Len(conns) \in Nat /\ DOMAIN conns = 1..Len(conns)
  BY Numbered DEF IInv, LinkInv, LeaseInv
<1>1. CASE UNCHANGED conns
  BY <1>0, <1>1 DEF HelloOnce
<1>2. CASE disconnect
  BY <1>0, <1>2, AfterDisconnect DEF disconnect, HelloOnce
<1>3. ASSUME NEW m \in Messages, Transmit(m),
             socket = "open" /\ m = Hello
               => ~conns[Len(conns)].greeted /\ conns[Len(conns)].data = <<>>
      PROVE  HelloOnce'
  <2>1. CASE UNCHANGED conns
    BY <1>1, <2>1
  <2>2. CASE socket = "open" /\ conns' = [conns EXCEPT ![Len(conns)].data = Append(@, m)]
    <3> DEFINE d == conns[Len(conns)].data
    <3>1. /\ DOMAIN conns' = 1..Len(conns)
          /\ \A i \in 1..Len(conns) :
               /\ conns'[i].greeted = conns[i].greeted
               /\ i # Len(conns) => conns'[i].data = conns[i].data
          /\ conns'[Len(conns)].data = Append(d, m)
      BY <1>0, <2>2, Sent, SentLast
    <3>2. Len(conns) \in 1..Len(conns) /\ d \in Seq(Messages)
      BY <1>0, <2>2, Numbered DEF OnlyLastOpen
    <3>3. /\ DOMAIN d = 1..Len(d) /\ Len(d) \in Nat
          /\ DOMAIN Append(d, m) = 1..(Len(d) + 1)
          /\ \A k \in 1..Len(d) : Append(d, m)[k] = d[k]
          /\ Append(d, m)[Len(d) + 1] = m
          /\ d = <<>> => Len(d) = 0
      BY <3>2, AppendProperties, LenProperties, EmptySeq
    <3>4. ASSUME NEW k \in DOMAIN Append(d, m), Append(d, m)[k] = Hello
          PROVE  k = 1 /\ ~conns[Len(conns)].greeted
      <4>1. CASE k \in 1..Len(d)
        BY <1>0, <3>2, <3>3, <3>4, <4>1 DEF HelloOnce
      <4>2. CASE k = Len(d) + 1
        BY <1>3, <2>2, <3>3, <3>4, <4>2
      <4> QED
        BY <3>3, <4>1, <4>2
    <3> HIDE DEF d
    <3>5. ASSUME NEW i \in 1..Len(conns), i # Len(conns), NEW k \in DOMAIN conns'[i].data,
                 conns'[i].data[k] = Hello
          PROVE  k = 1 /\ ~conns'[i].greeted
      <4>1. conns'[i].data = conns[i].data /\ conns'[i].greeted = conns[i].greeted
        BY <3>1, <3>5
      <4> QED
        BY <1>0, <3>5, <4>1 DEF HelloOnce
    <3>6. ASSUME NEW k \in DOMAIN conns'[Len(conns)].data, conns'[Len(conns)].data[k] = Hello
          PROVE  k = 1 /\ ~conns'[Len(conns)].greeted
      BY <3>1, <3>2, <3>4, <3>6
    <3> QED
      BY <3>1, <3>5, <3>6 DEF HelloOnce
  <2> QED
    BY <1>3, <2>1, <2>2 DEF Transmit
<1>4. ASSUME NEW unread, Close(unread), conns # <<>>
      PROVE  HelloOnce'
  <2>1. /\ DOMAIN conns' = 1..(Len(conns) - 1)
        /\ \A i \in 1..(Len(conns) - 1) : conns'[i] = conns[i + 1]
    BY <1>0, <1>4, FirstGone DEF Close
  <2>2. \A i \in 1..(Len(conns) - 1) : i + 1 \in DOMAIN conns
    BY <1>0
  <2> QED
    BY <1>0, <2>1, <2>2 DEF HelloOnce
<1>5. CASE AllReset
  BY <1>5, EmptySeq DEF AllReset, HelloOnce
<1>6. ASSUME conns # <<>>, conns[1].data # <<>>,
             conns' = Consumed \/ conns' = [Consumed EXCEPT ![1].greeted = TRUE]
      PROVE  HelloOnce'
  <2> DEFINE d == conns[1].data
  <2>1. /\ DOMAIN conns' = 1..Len(conns)
        /\ \A i \in 1..Len(conns) :
             i # 1 => conns'[i].data = conns[i].data /\ conns'[i].greeted = conns[i].greeted
        /\ conns'[1].data = Tail(d)
    BY <1>0, <1>6, Received, RestRead
  <2>2. 1 \in DOMAIN conns /\ d \in Seq(Messages) /\ d # <<>>
    BY <1>6, Numbered, <1>0
  <2>3. /\ Len(d) \in Nat /\ DOMAIN d = 1..Len(d)
        /\ DOMAIN Tail(d) = 1..(Len(d) - 1)
        /\ \A k \in 1..(Len(d) - 1) : Tail(d)[k] = d[k + 1]
    BY <2>2, HeadTailProperties, LenProperties
  <2>4. \A k \in DOMAIN Tail(d) : k + 1 \in DOMAIN d /\ k + 1 # 1
    BY <2>3
  <2>5. \A k \in DOMAIN Tail(d) : Tail(d)[k] # Hello
    BY <1>0, <2>2, <2>3, <2>4 DEF HelloOnce
  <2> HIDE DEF d
  <2>6. ASSUME NEW i \in 1..Len(conns), i # 1, NEW k \in DOMAIN conns'[i].data,
               conns'[i].data[k] = Hello
        PROVE  k = 1 /\ ~conns'[i].greeted
    <3>1. conns'[i].data = conns[i].data /\ conns'[i].greeted = conns[i].greeted
      BY <2>1, <2>6
    <3> QED
      BY <1>0, <2>6, <3>1 DEF HelloOnce
  <2>7. ASSUME NEW k \in DOMAIN conns'[1].data
        PROVE  conns'[1].data[k] # Hello
    BY <2>1, <2>5, <2>7
  <2> QED
    BY <2>1, <2>6, <2>7 DEF HelloOnce
<1>7. CASE ClientStep
  <2>1. CASE Connect
    <3>1. CASE conns' = Append(conns, [data |-> <<>>, open |-> TRUE, greeted |-> FALSE])
      <4>1. /\ DOMAIN conns' = 1..(Len(conns) + 1)
            /\ \A i \in 1..Len(conns) : conns'[i] = conns[i]
            /\ conns'[Len(conns) + 1].data = <<>>
        BY <1>0, <3>1, Opened
      <4>2. \A i \in 1..(Len(conns) + 1) : i \in 1..Len(conns) \/ i = Len(conns) + 1
        BY <1>0
      <4> QED
        BY <1>0, <4>1, <4>2 DEF HelloOnce
    <3> QED
      BY <1>1, <2>1, <3>1 DEF Connect
  <2>2. CASE SendHello
    <3>1. Hello \in Messages
      BY DEF Messages
    <3> QED
      BY <1>0, <1>3, <2>2, <3>1 DEF SendHello, HelloIsDue
  <2>3. CASE SendMessage
    <3>1. call \in Messages /\ call # Hello
      BY <1>0, <2>3 DEF SendMessage, CallHasMessage, HelloIsDue
    <3> QED
      BY <1>3, <2>3, <3>1 DEF SendMessage
  <2>4. CASE SendFails \/ AckFails \/ Shutdown
    BY <1>2, <2>4 DEF SendFails, AckFails, Shutdown
  <2>5. CASE ConnectRefused \/ ReceiveAck
    BY <1>1, <2>5 DEF ConnectRefused, ReceiveAck, serverVars
  <2> QED
    BY <1>7, <2>1, <2>2, <2>3, <2>4, <2>5 DEF ClientStep
<1>8. CASE ServerStep
  <2>1. CASE Accept
    BY <1>1, <2>1 DEF Accept
  <2>2. CASE HandleHello \/ HandleStopAll \/ HandleState
    <3>1. conns # <<>> /\ conns[1].data # <<>>
      BY <1>0, <2>2, InService DEF HandleHello, HandleStopAll, HandleState
    <3> QED
      BY <1>4, <1>5, <1>6, <2>2, <3>1 DEF HandleHello, HandleStopAll, HandleState
  <2>3. CASE SessionEnds \/ RefuseState
    BY <1>0, <1>4, <2>3 DEF SessionEnds, RefuseState, Reading, SessionHasConnection
  <2> QED
    BY <1>8, <2>1, <2>2, <2>3 DEF ServerStep
<1>9. CASE Announce \/ UpdateNothing \/ Unacquire \/ UnacquireOther \/ Detach
           \/ Launch \/ Release \/ ResetArrives \/ UNCHANGED vars
  BY <1>1, <1>9 DEF Announce, UpdateNothing, Unacquire, UnacquireOther, Detach, Launch, Release,
     ResetArrives, vars, serverVars
<1>10. ASSUME NEW p \in Payloads, UpdateState(p)
       PROVE  HelloOnce'
  BY <1>1, <1>10 DEF UpdateState, serverVars
<1>11. CASE AppStarts \/ CycleBegins \/ CycleEnds
  BY <1>1, <1>11 DEF AppStarts, CycleBegins, CycleEnds
<1>12. CASE Crash
  BY <1>2, <1>12 DEF Crash
<1>13. CASE AppQuits
  BY <1>5, <1>13 DEF AppQuits
<1> QED
  BY <1>7, <1>8, <1>9, <1>10, <1>11, <1>12, <1>13 DEF Next

(* Who is about to say hello has had no answer on this connection, and     *)
(* nothing else has touched it.                                            *)
LEMMA LastUntouched ==
  ASSUME IInv, HelloIsDue, place = "hello", socket = "open", socket' = "open",
         \/ UNCHANGED conns
         \/ \E unread : session /\ Close(unread)
         \/ /\ session /\ conns[1].data # <<>>
            /\ conns' = Consumed \/ conns' = [Consumed EXCEPT ![1].greeted = TRUE]
  PROVE  ~conns'[Len(conns')].greeted /\ conns'[Len(conns')].data = <<>>
<1>0. /\ TypeOK /\ conns # <<>> /\ Len(conns) \in Nat /\ Len(conns) >= 1
      /\ ~conns[Len(conns)].greeted /\ conns[Len(conns)].data = <<>>
  BY Numbered DEF IInv, LinkInv, OnlyLastOpen, HelloIsDue
<1>1. CASE UNCHANGED conns
  BY <1>0, <1>1
<1>2. ASSUME NEW unread, session, Close(unread)
      PROVE  ~conns'[Len(conns')].greeted /\ conns'[Len(conns')].data = <<>>
  <2>1. ASSUME Len(conns) = 1
        PROVE  FALSE
    <3>1. ~(socket # "open" \/ Len(conns) > 1)
      BY <2>1
    <3>2. socket' \in (IF unread THEN {"orphan", "reset"} ELSE {"orphan"})
      BY <1>2, <3>1 DEF Close
    <3> QED
      BY <3>2
  <2>2. Len(conns') = Len(conns) - 1 /\ conns'[Len(conns) - 1] = conns[Len(conns)]
    <3>1. /\ Len(conns') = Len(conns) - 1
          /\ \A i \in 1..(Len(conns) - 1) : conns'[i] = conns[i + 1]
      BY <1>0, <1>2, FirstGone DEF Close
    <3>2. \A n \in Nat : n >= 1 /\ n # 1 => n - 1 \in 1..(n - 1) /\ (n - 1) + 1 = n
      OBVIOUS
    <3>3. Len(conns) - 1 \in 1..(Len(conns) - 1) /\ (Len(conns) - 1) + 1 = Len(conns)
      BY <1>0, <2>1, <3>2
    <3> QED
      BY <3>1, <3>3
  <2> QED
    BY <1>0, <2>2
<1>3. CASE /\ session /\ conns[1].data # <<>>
           /\ conns' = Consumed \/ conns' = [Consumed EXCEPT ![1].greeted = TRUE]
  <2>1. Len(conns) # 1
    BY <1>0, <1>3
  <2>2. Len(conns) \in 1..Len(conns)
    BY <1>0
  <2>3. /\ Len(conns') = Len(conns)
        /\ conns'[Len(conns)].data = conns[Len(conns)].data
        /\ conns'[Len(conns)].greeted = conns[Len(conns)].greeted
    BY <1>0, <1>3, <2>1, <2>2, Received
  <2> QED
    BY <1>0, <2>3
<1> QED
  BY <1>1, <1>2, <1>3

LEMMA HelloIsDueStep ==
  ASSUME IInv, LeaseInv, [Next]_vars
  PROVE  HelloIsDue'
<1>0. /\ TypeOK /\ ClientTypeOK /\ GameTypeOK /\ GreetedBeforeSend /\ HelloIsDue /\ SessionHasConnection
  BY DEF IInv, LinkInv, TypeOK, LeaseInv
<1>1. ASSUME UNCHANGED <<game, announced, place, call, hello_sent>>,
             socket' = socket \/ (socket # "none" /\ socket' \notin {"none", "open"}),
             place = "hello" /\ socket = "open" /\ socket' = "open"
               => ~conns'[Len(conns')].greeted /\ conns'[Len(conns')].data = <<>>
      PROVE  HelloIsDue'
  BY <1>0, <1>1 DEF HelloIsDue
<1>2. CASE disconnect /\ Return
  BY <1>2 DEF disconnect, Return, HelloIsDue
<1>3. CASE UNCHANGED <<gameVars, clientVars, conns>>
  BY <1>0, <1>3 DEF gameVars, clientVars, HelloIsDue
<1>4. ASSUME NEW unread, session, Close(unread)
      PROVE  HelloIsDue'
  <2>1. UNCHANGED <<game, announced, place, call, hello_sent>>
    BY <1>4 DEF Close, gameVars
  <2>2. socket' = socket \/ (socket # "none" /\ socket' \notin {"none", "open"})
    BY <1>4 DEF Close
  <2>3. place = "hello" /\ socket = "open" /\ socket' = "open"
          => ~conns'[Len(conns')].greeted /\ conns'[Len(conns')].data = <<>>
    BY <1>0, <1>4, LastUntouched
  <2> QED
    BY <1>1, <2>1, <2>2, <2>3
<1>5. CASE AllReset /\ UNCHANGED <<gameVars, place, call, hello_sent, ack>>
  BY <1>1, <1>5 DEF AllReset, gameVars
<1>6. ASSUME NEW m, Begin(m), MayCall, m # Hello, UNCHANGED <<game, announced>>
      PROVE  HelloIsDue'
  BY <1>0, <1>6 DEF Begin, MayCall, HelloIsDue
<1>7. CASE ClientStep
  <2>1. CASE Connect
    <3>1. CASE socket # "none" /\ UNCHANGED <<socket, conns>>
      BY <1>0, <2>1, <3>1 DEF Connect, OnlyConns, gameVars, HelloIsDue
    <3>2. CASE /\ socket = "none" /\ socket' = "open"
               /\ conns' = Append(conns, [data |-> <<>>, open |-> TRUE, greeted |-> FALSE])
      <4>1. Len(conns') = Len(conns) + 1
            /\ conns'[Len(conns) + 1] = [data |-> <<>>, open |-> TRUE, greeted |-> FALSE]
        BY <1>0, <3>2, Opened
      <4>2. ~conns'[Len(conns')].greeted /\ conns'[Len(conns')].data = <<>>
        BY <4>1
      <4>3. place = "connect" /\ place' = "hello" /\ UNCHANGED <<game, announced, call>>
        BY <1>0, <2>1, <3>2 DEF Connect, OnlyConns, gameVars, ClientTypeOK
      <4> QED
        BY <1>0, <4>2, <4>3 DEF HelloIsDue
    <3> QED
      BY <2>1, <3>1, <3>2 DEF Connect
  <2>2. CASE ConnectRefused
    BY <1>0, <2>2 DEF ConnectRefused, Return, gameVars, HelloIsDue
  <2>3. CASE SendHello
    BY <1>0, <2>3 DEF SendHello, OnlyConns, gameVars, HelloIsDue
  <2>4. CASE SendMessage
    BY <1>0, <2>4 DEF SendMessage, Return, OnlyConns, gameVars, GreetedBeforeSend, HelloIsDue
  <2>5. CASE SendFails \/ AckFails
    BY <1>2, <2>5 DEF SendFails, AckFails
  <2>6. CASE Shutdown
    BY <2>6 DEF Shutdown, disconnect, HelloIsDue
  <2>7. CASE ReceiveAck
    BY <1>0, <2>7 DEF ReceiveAck, Return, gameVars, HelloIsDue
  <2> QED
    BY <1>7, <2>1, <2>2, <2>3, <2>4, <2>5, <2>6, <2>7 DEF ClientStep
<1>8. CASE ServerStep
  <2>1. CASE Accept
    BY <1>3, <2>1 DEF Accept
  <2>2. ASSUME UNCHANGED <<gameVars, place, call, socket, hello_sent>>,
               session, conns[1].data # <<>>,
               conns' = Consumed \/ conns' = [Consumed EXCEPT ![1].greeted = TRUE]
        PROVE  HelloIsDue'
    BY <1>0, <1>1, <2>2, LastUntouched DEF gameVars
  <2>3. CASE HandleHello \/ HandleStopAll \/ HandleState
    <3>1. session /\ conns[1].data # <<>>
      BY <1>0, <2>3, InService DEF HandleHello, HandleStopAll, HandleState, Reading
    <3> QED
      BY <1>4, <1>5, <2>2, <2>3, <3>1 DEF HandleHello, HandleStopAll, HandleState, clientVars
  <2>4. CASE SessionEnds \/ RefuseState
    BY <1>4, <2>4 DEF SessionEnds, RefuseState, Reading
  <2> QED
    BY <1>8, <2>1, <2>3, <2>4 DEF ServerStep
<1>9. CASE Launch
  BY <1>0, <1>9 DEF Launch, clientVars, serverVars, HelloIsDue
<1>10. CASE Announce
  BY <1>0, <1>10 DEF Announce, Begin, HelloIsDue
<1>11. CASE UpdateNothing \/ Unacquire \/ UnacquireOther
  BY <1>6, <1>11 DEF UpdateNothing, Unacquire, UnacquireOther, gameVars, StopAll, Hello
<1>12. ASSUME NEW p \in Payloads, UpdateState(p)
       PROVE  HelloIsDue'
  BY <1>6, <1>12 DEF UpdateState, Hello
<1>13. CASE Detach
  BY <1>0, <1>13 DEF Detach, Begin, StopAll, Hello, HelloIsDue
<1>14. CASE Release
  BY <1>0, <1>14 DEF Release, clientVars, serverVars, HelloIsDue
<1>15. CASE ResetArrives
  BY <1>1, <1>15 DEF ResetArrives, gameVars
<1>16. CASE Crash
  BY <1>2, <1>16 DEF Crash
<1>17. CASE AppQuits
  BY <1>5, <1>17 DEF AppQuits
<1>18. CASE AppStarts \/ CycleBegins \/ CycleEnds \/ UNCHANGED vars
  BY <1>3, <1>18 DEF AppStarts, CycleBegins, CycleEnds, vars, serverVars
<1> QED
  BY <1>7, <1>8, <1>9, <1>10, <1>11, <1>12, <1>13, <1>14, <1>15, <1>16, <1>17, <1>18 DEF Next

(* A session hears its hello before it is greeted.                         *)
LEMMA HelloInService ==
  ASSUME TypeOK, HelloOnce, conns # <<>>, conns[1].data # <<>>, Head(conns[1].data).type = "hello"
  PROVE  ~conns[1].greeted
<1>1. 1 \in DOMAIN conns /\ conns[1].data \in Seq(Messages)
  BY Numbered
<1>2. /\ 1 \in DOMAIN conns[1].data
      /\ Head(conns[1].data) = conns[1].data[1]
      /\ Head(conns[1].data) \in Messages
  BY <1>1, HeadTailProperties, LenProperties, EmptySeq
<1>3. Head(conns[1].data) = Hello
  BY <1>2 DEF Messages, States, Hello, StopAll
<1> QED
  BY <1>1, <1>2, <1>3 DEF HelloOnce

LEMMA ForcesAfterHelloStep ==
  ASSUME IInv, LeaseInv, [Next]_vars
  PROVE  ForcesAfterHello'
<1>0. /\ TypeOK /\ LinkInv /\ OnlyLastOpen /\ SessionHasConnection /\ HelloFirst /\ CallHasMessage
      /\ ForcesAfterHello /\ HelloOnce
      /\ conns # <<>> => 1 \in DOMAIN conns
      /\ Len(conns) \in Nat /\ DOMAIN conns = 1..Len(conns)
  BY Numbered DEF IInv, LinkInv, LeaseInv
<1>1. ASSUME applied' = Nothing
      PROVE  ForcesAfterHello'
  BY <1>1 DEF ForcesAfterHello
<1>2. ASSUME UNCHANGED applied, session => session' /\ conns'[1].greeted = conns[1].greeted
      PROVE  ForcesAfterHello'
  BY <1>0, <1>2 DEF ForcesAfterHello
<1>3. CASE disconnect /\ UNCHANGED <<applied, session>>
  BY <1>0, <1>2, <1>3, AfterDisconnect DEF disconnect, SessionHasConnection
<1>4. ASSUME NEW m \in Messages, Transmit(m), UNCHANGED <<applied, session>>
      PROVE  ForcesAfterHello'
  BY <1>0, <1>2, <1>4, Sent DEF Transmit, SessionHasConnection
<1>5. ASSUME NEW unread, Close(unread)
      PROVE  ForcesAfterHello'
  BY <1>1, <1>5 DEF Close, AfterSession, Released
<1>6. CASE ClientStep
  <2>1. CASE Connect
    <3>1. UNCHANGED <<applied, session>>
      BY <2>1 DEF Connect, OnlyConns
    <3>2. CASE conns' = Append(conns, [data |-> <<>>, open |-> TRUE, greeted |-> FALSE])
      BY <1>0, <1>2, <3>1, <3>2, Opened DEF SessionHasConnection
    <3> QED
      BY <1>2, <2>1, <3>1, <3>2 DEF Connect
  <2>2. CASE SendHello
    <3>1. Hello \in Messages
      BY DEF Messages
    <3> QED
      BY <1>4, <2>2, <3>1 DEF SendHello, OnlyConns
  <2>3. CASE SendMessage
    <3>1. call \in Messages
      BY <1>0, <2>3 DEF SendMessage, CallHasMessage
    <3> QED
      BY <1>4, <2>3, <3>1 DEF SendMessage, OnlyConns
  <2>4. CASE SendFails \/ AckFails \/ Shutdown
    BY <1>3, <2>4 DEF SendFails, AckFails, Shutdown, OnlyConns
  <2>5. CASE ConnectRefused \/ ReceiveAck
    BY <1>2, <2>5 DEF ConnectRefused, ReceiveAck, serverVars
  <2> QED
    BY <1>6, <2>1, <2>2, <2>3, <2>4, <2>5 DEF ClientStep
<1>7. CASE ServerStep
  <2>1. CASE Accept
    BY <1>2, <2>1 DEF Accept
  <2>2. CASE HandleHello
    <3>1. session /\ conns # <<>> /\ conns[1].data # <<>> /\ Head(conns[1].data).type = "hello"
      BY <1>0, <2>2, InService DEF HandleHello, Reading
    <3>2. ~conns[1].greeted
      BY <1>0, <3>1, HelloInService
    <3>3. applied = Nothing
      BY <1>0, <3>2 DEF ForcesAfterHello
    <3> QED
      BY <1>1, <1>5, <2>2, <3>3 DEF HandleHello
  <2>3. CASE HandleStopAll
    BY <1>1, <2>3 DEF HandleStopAll, Released
  <2>4. CASE HandleState
    <3>1. session /\ conns # <<>> /\ conns[1].data # <<>>
          /\ Head(conns[1].data).type = "apply_wheel_state"
      BY <1>0, <2>4, InService DEF HandleState, Reading
    <3>2. conns[1].greeted
      BY <1>0, <3>1 DEF HelloFirst, Hello
    <3>3. conns' = Consumed => conns'[1].greeted = conns[1].greeted
      BY <1>0, <3>1, Received
    <3> QED
      BY <2>4, <3>1, <3>2, <3>3 DEF HandleState, ForcesAfterHello
  <2>5. CASE SessionEnds \/ RefuseState
    BY <1>5, <2>5 DEF SessionEnds, RefuseState
  <2> QED
    BY <1>7, <2>1, <2>2, <2>3, <2>4, <2>5 DEF ServerStep
<1>8. CASE Announce \/ UpdateNothing \/ Unacquire \/ UnacquireOther \/ Detach
           \/ Launch \/ Release \/ ResetArrives \/ UNCHANGED vars
  BY <1>2, <1>8 DEF Announce, UpdateNothing, Unacquire, UnacquireOther, Detach, Launch, Release,
     ResetArrives, vars, serverVars
<1>9. ASSUME NEW p \in Payloads, UpdateState(p)
      PROVE  ForcesAfterHello'
  BY <1>2, <1>9 DEF UpdateState, serverVars
<1>10. CASE AppStarts \/ CycleEnds
  BY <1>2, <1>10 DEF AppStarts, CycleEnds
<1>11. CASE CycleBegins \/ AppQuits
  BY <1>1, <1>11 DEF CycleBegins, AppQuits, Released
<1>12. CASE Crash
  BY <1>3, <1>12 DEF Crash
<1> QED
  BY <1>6, <1>7, <1>8, <1>9, <1>10, <1>11, <1>12 DEF Next

(* Each step of the link is one of the lease, or leaves it alone.          *)
LEMMA StepOfLease ==
  ASSUME IInv, LeaseInv, [Next]_vars
  PROVE  [Lease!Next]_(Lease!vars)
<1>0. /\ TypeOK /\ LinkInv /\ SessionHasConnection /\ HelloOnce /\ ForcesAfterHello
      /\ conns # <<>> => 1 \in DOMAIN conns
  BY Numbered DEF IInv, LinkInv, LeaseInv
<1> USE DEF Lease!vars
<1>1. CASE UNCHANGED <<session, applied>>
  BY <1>1
<1>2. ASSUME session, UNCHANGED session
      PROVE  Lease!Work
  BY <1>2 DEF Lease!Work
<1>3. ASSUME session, session' = FALSE, applied' = Nothing
      PROVE  Lease!Close
  BY <1>3 DEF Lease!Close
<1>4. ASSUME ~session, session' = FALSE, applied' = Nothing
      PROVE  UNCHANGED <<session, applied>>
  BY <1>0, <1>4 DEF ForcesAfterHello, TypeOK, ServerTypeOK
<1>5. CASE ClientStep
  BY <1>1, <1>5 DEF ClientStep, Connect, ConnectRefused, SendHello, SendMessage, SendFails, ReceiveAck,
     AckFails, Shutdown, OnlyConns, serverVars
<1>6. CASE ServerStep
  <2>1. CASE Accept
    BY <2>1 DEF Accept, Lease!Next, Lease!Open
  <2>2. CASE HandleHello
    <3>1. session /\ conns # <<>> /\ conns[1].data # <<>> /\ Head(conns[1].data).type = "hello"
      BY <1>0, <2>2, InService DEF HandleHello, Reading
    <3>2. applied = Nothing
      BY <1>0, <3>1, HelloInService DEF ForcesAfterHello
    <3>3. UNCHANGED <<session, applied>> \/ (session' = FALSE /\ applied' = Nothing)
      BY <2>2, <3>2 DEF HandleHello, Close, AllReset, AfterSession, Released
    <3> QED
      BY <1>1, <1>3, <3>1, <3>3 DEF Lease!Next
  <2>3. CASE HandleStopAll \/ HandleState
    BY <1>2, <2>3 DEF HandleStopAll, HandleState, Reading, Lease!Next
  <2>4. CASE SessionEnds \/ RefuseState
    BY <1>3, <2>4 DEF SessionEnds, RefuseState, Reading, Close, AfterSession, Released, Lease!Next
  <2> QED
    BY <1>6, <2>1, <2>2, <2>3, <2>4 DEF ServerStep
<1>7. CASE CycleBegins
  <2>1. applied' = Nothing /\ UNCHANGED session
    BY <1>7 DEF CycleBegins, Released
  <2>2. CASE session
    BY <1>2, <2>1, <2>2 DEF Lease!Next
  <2>3. CASE ~session
    BY <1>0, <1>1, <2>1, <2>3 DEF ForcesAfterHello
  <2> QED
    BY <2>2, <2>3
<1>8. CASE AppQuits
  <2>1. session' = FALSE /\ applied' = Nothing
    BY <1>8 DEF AppQuits, AllReset, Released
  <2> QED
    BY <1>1, <1>3, <1>4, <2>1 DEF Lease!Next
<1>9. CASE Announce \/ UpdateNothing \/ Unacquire \/ UnacquireOther \/ Detach \/ Launch \/ Release
           \/ ResetArrives \/ Crash \/ AppStarts \/ CycleEnds \/ UNCHANGED vars
  BY <1>1, <1>9 DEF Announce, UpdateNothing, Unacquire, UnacquireOther, Detach, Launch, Release,
     ResetArrives, Crash, AppStarts, CycleEnds, vars, serverVars
<1>10. ASSUME NEW p \in Payloads, UpdateState(p)
       PROVE  UNCHANGED <<session, applied>>
  BY <1>10 DEF UpdateState, serverVars
<1> QED
  BY <1>1, <1>5, <1>6, <1>7, <1>8, <1>9, <1>10 DEF Next

(* The forces of a session end with it, whatever becomes of the            *)
(* connections and the game: also where the hello_ack to a game that has   *)
(* gone ends the application without a release of the wheel, for a         *)
(* session says hello once and has no force before.                        *)
THEOREM LinkKeepsLease == Spec => LinkIsLeased
<1>1. Init => LeaseInv
  BY EmptySeq DEF Init, LeaseInv, HelloOnce, HelloIsDue, ForcesAfterHello
<1>2. IInv /\ LeaseInv /\ [Next]_vars => LeaseInv'
  BY HelloOnceStep, HelloIsDueStep, ForcesAfterHelloStep DEF LeaseInv
<1>3. Init => Lease!Init
  BY DEF Init, Lease!Init
<1>4. IInv /\ LeaseInv /\ [Next]_vars => [Lease!Next]_(Lease!vars)
  BY StepOfLease
<1> QED
  BY <1>1, <1>2, <1>3, <1>4, Invariance, PTL DEF Spec, LinkIsLeased, Lease!Safety
=============================================================================

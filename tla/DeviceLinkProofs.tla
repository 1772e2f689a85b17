--------------------------- MODULE DeviceLinkProofs ---------------------------
(***************************************************************************)
(* What the transports guarantee for any number of calls, whatever the     *)
(* devices do and however many calls share the port: a call no other can   *)
(* be taken for succeeds only if it was carried out, and no reply          *)
(* acknowledges two calls.                                                 *)
(***************************************************************************)
EXTENDS DeviceLink, TLAPS

USE DEF Closed, Waiting, Own

LEMMA LinkOfCall ==
  /\ \A c \in Calls : Link(c) \in Links
  /\ \A c \in Own : Link(c) = c /\ c \in Links
  /\ \A c \in Own, d \in Calls : Link(d) = c => d = c
BY LinkAssumption DEF Links, Link

(* Nothing else over the link of a lone call is of its kind.               *)
LEMMA LoneCalls ==
  \A c \in Lone, d \in Calls :
    c \in Calls /\ (Link(d) = Link(c) /\ Command[d].kind = Command[c].kind => d = c)
<1>1. ASSUME NEW c \in Own, NEW d \in Calls, Link(d) = Link(c)
      PROVE  d = c
  BY <1>1, LinkOfCall
<1>2. ASSUME NEW c \in Serial, NEW d \in Calls, Link(d) = Link(c)
      PROVE  d \in Serial
  BY <1>2, LinkAssumption DEF Link
<1>3. QED
  BY <1>1, <1>2, LinkAssumption DEF Lone

LEMMA LinkInit_LinkInv == ASSUME LinkInit PROVE LinkInv
<1>1. LinkTypeOK
  <2>1. <<>> \in Seq(Reply)
    OBVIOUS
  <2>2. inbox \in [Links -> Seq(Reply)]
    BY <2>1 DEF LinkInit
  <2>3. QED
    BY <2>2 DEF LinkInit, LinkTypeOK, Links
<1>2. \A l \in Links : inbox[l] = <<>> /\ Answers(l) = {}
  BY DEF LinkInit, Answers
<1>3. RepliesKeepToLinks
  BY <1>2 DEF RepliesKeepToLinks
<1>4. AnswersAreEarned /\ AnswersAreSingle
  BY <1>2 DEF AnswersAreEarned, AnswersAreSingle
<1>5. QED
  BY <1>1, <1>3, <1>4 DEF LinkInit, LinkInv, WireIsFresh, IdleIsUntouched, AnswersAreNotShared

-----------------------------------------------------------------------------
(* A step that leaves of the replies only some, unchanged, and reports     *)
(* none of those keeps what is known of them: place[l][i] says where the   *)
(* i-th reply of l was before.                                             *)
LEMMA FewerReplies ==
  ASSUME LinkInv, inbox' \in [Links -> Seq(Reply)],
         NEW place \in [Links -> [Nat -> Nat]],
         \A l \in Links : \A i \in Answers(l)' :
           place[l][i] \in Answers(l) /\ inbox'[l][i] = inbox[l][place[l][i]],
         \A l \in Links : \A i, j \in Nat : place[l][i] = place[l][j] => i = j,
         performed \subseteq performed',
         \A answer \in reported' :
           \/ answer \in reported
           \/ \A l \in Links : \A i \in Answers(l)' : answer[3] # inbox'[l][i].call
  PROVE  AnswersAreEarned' /\ AnswersAreSingle'
<1>1. AnswersAreEarned'
  <2>1. ASSUME NEW l \in Links, NEW i \in Answers(l)'
        PROVE  /\ inbox'[l][i].call \in performed
               /\ inbox'[l][i].kind = Command[inbox'[l][i].call].kind
               /\ \A answer \in reported' : answer[3] # inbox'[l][i].call
    <3>1. place[l][i] \in Answers(l) /\ inbox'[l][i] = inbox[l][place[l][i]]
      BY <2>1
    <3>2. AnswersAreEarned
      BY DEF LinkInv
    <3>3. /\ inbox'[l][i].call \in performed
          /\ inbox'[l][i].kind = Command[inbox'[l][i].call].kind
          /\ \A answer \in reported : answer[3] # inbox'[l][i].call
      <4>1. \A p \in Answers(l) :
              /\ inbox[l][p].call \in performed
              /\ inbox[l][p].kind = Command[inbox[l][p].call].kind
              /\ \A answer \in reported : answer[3] # inbox[l][p].call
        BY <3>2, Zenon DEF AnswersAreEarned
      <4> DEFINE reply == inbox[l][place[l][i]]
      <4>2. reply.call \in performed /\ reply.kind = Command[reply.call].kind
            /\ \A answer \in reported : answer[3] # reply.call
        BY <3>1, <4>1, Zenon
      <4>3. inbox'[l][i] = reply
        BY <3>1
      <4> HIDE DEF reply
      <4>4. QED
        BY <4>2, <4>3
    <3>4. QED
      BY <2>1, <3>3
  <2>2. QED
    BY <2>1 DEF AnswersAreEarned
<1>2. ASSUME NEW l \in Links, NEW m \in Links, NEW i \in Answers(l)', NEW j \in Answers(m)',
             inbox'[l][i].call = inbox'[m][j].call
      PROVE  l = m /\ i = j
  <2>1. AnswersAreSingle
    BY DEF LinkInv
  <2>2. /\ place[l][i] \in Answers(l) /\ inbox'[l][i] = inbox[l][place[l][i]]
        /\ place[m][j] \in Answers(m) /\ inbox'[m][j] = inbox[m][place[m][j]]
    BY <1>2
  <2>3. l = m /\ place[l][i] = place[m][j]
    <3>1. inbox[l][place[l][i]].call = inbox[m][place[m][j]].call
      BY <1>2, <2>2
    <3>2. \A p \in Answers(l), q \in Answers(m) :
            inbox[l][p].call = inbox[m][q].call => l = m /\ p = q
      BY <2>1, Zenon DEF AnswersAreSingle
    <3>3. QED
      BY <2>2, <3>1, <3>2, Zenon
  <2>4. i \in Nat /\ j \in Nat
    <3>1. i \in 1 .. Len(inbox'[l]) /\ j \in 1 .. Len(inbox'[m])
      BY <1>2 DEF Answers
    <3>2. inbox'[l] \in Seq(Reply) /\ inbox'[m] \in Seq(Reply)
      OBVIOUS
    <3>3. QED
      BY <3>1, <3>2
  <2>5. QED
    BY <2>3, <2>4
<1>3. QED
  BY <1>1, <1>2 DEF AnswersAreSingle

-----------------------------------------------------------------------------
(* Writing a reply keeps the type of the inboxes.                          *)
LEMMA DeliverTyped ==
  ASSUME NEW c \in Calls, NEW kind \in Kinds \cup {Refused}, LinkTypeOK, Deliver(c, kind)
  PROVE  /\ inbox' \in [Links -> Seq(Reply)]
         /\ \A d \in Own : inbox'[d] # <<>> => Waiting(d)
         /\ \A l \in Links : l # Link(c) => inbox'[l] = inbox[l]
         /\ \/ inbox'[Link(c)] = inbox[Link(c)]
            \/ inbox'[Link(c)] =
                 Append(inbox[Link(c)], [kind |-> kind, target |-> Command[c].target, call |-> c])
<1> DEFINE reply == [kind |-> kind, target |-> Command[c].target, call |-> c]
<1>1. CASE UNCHANGED inbox
  BY <1>1 DEF LinkTypeOK
<1>2. CASE /\ inbox' = [inbox EXCEPT ![Link(c)] = Append(inbox[Link(c)], reply)]
           /\ ~ (Link(c) = c /\ ~ Waiting(c))
  <2>1. reply \in Reply
    BY LinkAssumption DEF Reply, CommandRecord
  <2>2. Append(inbox[Link(c)], reply) \in Seq(Reply)
    BY <2>1, LinkOfCall DEF LinkTypeOK
  <2>3. inbox' \in [Links -> Seq(Reply)]
    BY <1>2, <2>2 DEF LinkTypeOK
  <2>4. ASSUME NEW d \in Own, inbox'[d] # <<>>
        PROVE  Waiting(d)
    BY <1>2, <2>4, LinkOfCall DEF LinkTypeOK, Links
  <2>5. QED
    BY <1>2, <2>3, <2>4, LinkOfCall DEF LinkTypeOK
<1>3. QED
  BY <1>1, <1>2 DEF Deliver

(* A reply is delivered on the link of the call it answers.                *)
LEMMA DeliverOwn ==
  ASSUME NEW c \in Calls, NEW kind \in Kinds \cup {Refused}, LinkInv, Deliver(c, kind)
  PROVE  RepliesKeepToLinks'
<1> DEFINE reply == [kind |-> kind, target |-> Command[c].target, call |-> c]
<1>1. SUFFICES ASSUME NEW l \in Links, NEW i \in 1 .. Len(inbox'[l])
               PROVE  /\ Link(inbox'[l][i].call) = l
                      /\ inbox'[l][i].target = Command[inbox'[l][i].call].target
  BY DEF RepliesKeepToLinks, Link
<1>2. inbox[l] \in Seq(Reply)
  BY DEF LinkInv, LinkTypeOK
<1>3. ASSUME i \in 1 .. Len(inbox[l]), inbox'[l][i] = inbox[l][i]
      PROVE  /\ Link(inbox'[l][i].call) = l
             /\ inbox'[l][i].target = Command[inbox'[l][i].call].target
  BY <1>3 DEF LinkInv, RepliesKeepToLinks
<1>4. CASE inbox'[l] = inbox[l]
  BY <1>3, <1>4
<1>5. CASE l = Link(c) /\ inbox'[l] = Append(inbox[l], reply)
  <2>1. CASE i \in 1 .. Len(inbox[l])
    <3>1. inbox'[l][i] = inbox[l][i]
      BY <1>2, <1>5, <2>1
    <3>2. QED
      BY <1>3, <2>1, <3>1
  <2>2. CASE i = Len(inbox[l]) + 1
    <3>1. inbox'[l][i] = reply
      BY <1>2, <1>5, <2>2
    <3>2. QED
      BY <1>5, <3>1
  <2>3. QED
    BY <1>2, <1>5, <2>1, <2>2
<1>6. LinkTypeOK
  BY DEF LinkInv
<1>7. QED
  BY <1>4, <1>5, <1>6, DeliverTyped, LinkOfCall

(* The answer to a command that has just been carried out is the only one. *)
LEMMA DeliverAnswer ==
  ASSUME NEW c \in Calls, LinkInv, Perform(c)
  PROVE  AnswersAreEarned' /\ AnswersAreSingle'
<1> DEFINE own == Link(c)
           last == Len(inbox[own]) + 1
           reply == [kind |-> Command[c].kind, target |-> Command[c].target, call |-> c]
<1>1. c \notin performed /\ performed' = performed \cup {c} /\ reported' = reported
  BY DEF Perform, Take, LinkInv, WireIsFresh
<1>2. Command[c].kind \in Kinds /\ Command[c].kind # Refused
  BY LinkAssumption DEF CommandRecord
<1>3. own \in Links /\ inbox[own] \in Seq(Reply)
  BY LinkOfCall DEF LinkInv, LinkTypeOK
<1>4. LinkTypeOK
  BY DEF LinkInv
<1>5. CASE UNCHANGED inbox
  <2>1. \A l \in Links : Answers(l)' = Answers(l)
    BY <1>5 DEF Answers
  <2>2. QED
    BY <1>1, <1>5, <2>1 DEF LinkInv, AnswersAreEarned, AnswersAreSingle
<1>6. CASE inbox' # inbox /\ Deliver(c, Command[c].kind)
  <2>1. /\ \A l \in Links : l # own => inbox'[l] = inbox[l]
        /\ inbox'[own] = inbox[own] \/ inbox'[own] = Append(inbox[own], reply)
    BY <1>2, <1>4, <1>6, DeliverTyped
  <2>2. ASSUME NEW l \in Links, NEW i \in Answers(l)'
        PROVE  \/ i \in Answers(l) /\ inbox'[l][i] = inbox[l][i]
               \/ l = own /\ i = last /\ inbox'[l][i] = reply
    <3>1. CASE inbox'[l] = inbox[l]
      BY <2>2, <3>1 DEF Answers
    <3>2. CASE l = own /\ inbox'[own] = Append(inbox[own], reply)
      <4>1. i \in 1 .. last /\ inbox'[l][i].kind # Refused
        BY <1>3, <2>2, <3>2 DEF Answers
      <4>2. CASE i \in 1 .. Len(inbox[own])
        <5>1. inbox'[l][i] = inbox[l][i]
          BY <1>3, <3>2, <4>2
        <5>2. QED
          BY <3>2, <4>1, <4>2, <5>1 DEF Answers
      <4>3. CASE i = last
        BY <1>3, <3>2, <4>3
      <4>4. QED
        BY <1>3, <4>1, <4>2, <4>3
    <3>3. QED
      BY <2>1, <3>1, <3>2
  <2>3. \A answer \in reported : answer[3] # c
    BY <1>1 DEF LinkInv, AnswersAreNotShared
  <2>4. \A l \in Links : \A i \in Answers(l) : inbox[l][i].call \in performed
    BY DEF LinkInv, AnswersAreEarned
  <2>5. AnswersAreEarned'
    BY <1>1, <2>2, <2>3 DEF LinkInv, AnswersAreEarned
  <2>6. ASSUME NEW l \in Links, NEW m \in Links, NEW i \in Answers(l)', NEW j \in Answers(m)',
               inbox'[l][i].call = inbox'[m][j].call
        PROVE  l = m /\ i = j
    <3>1. CASE i \in Answers(l) /\ inbox'[l][i] = inbox[l][i]
      <4>1. inbox'[m][j].call # c
        BY <1>1, <2>4, <2>6, <3>1
      <4>2. j \in Answers(m) /\ inbox'[m][j] = inbox[m][j]
        BY <2>2, <2>6, <4>1
      <4>3. QED
        BY <2>6, <3>1, <4>2 DEF LinkInv, AnswersAreSingle
    <3>2. CASE l = own /\ i = last /\ inbox'[l][i] = reply
      <4>1. ~ (j \in Answers(m) /\ inbox'[m][j] = inbox[m][j])
        BY <1>1, <2>4, <2>6, <3>2
      <4>2. QED
        BY <2>2, <2>6, <3>2, <4>1
    <3>3. QED
      BY <2>2, <2>6, <3>1, <3>2
  <2>7. QED
    BY <2>5, <2>6 DEF AnswersAreSingle
<1>7. QED
  BY <1>5, <1>6 DEF Perform

-----------------------------------------------------------------------------
LEMMA Send_LinkInv == ASSUME NEW c \in Calls, LinkInv, Send(c) PROVE LinkInv'
<1>1. /\ status' = [status EXCEPT ![c] = "waiting"]
      /\ inbox' = [inbox EXCEPT ![Link(c)] = <<>>]
      /\ wire' = wire \cup {c}
      /\ UNCHANGED <<reported, performed>>
      /\ status[c] = "idle"
  BY DEF Send
<1>2. LinkTypeOK
  BY DEF LinkInv
<1>3. inbox' \in [Links -> Seq(Reply)]
  <2>1. <<>> \in Seq(Reply)
    OBVIOUS
  <2>2. QED
    BY <1>1, <1>2, <2>1 DEF LinkTypeOK
<1>4. \A l \in Links : inbox'[l] = IF l = Link(c) THEN <<>> ELSE inbox[l]
  BY <1>1, <1>2 DEF LinkTypeOK
<1>5. LinkTypeOK'
  BY <1>1, <1>2, <1>3, <1>4, LinkOfCall DEF LinkTypeOK
<1>6. RepliesKeepToLinks'
  <2>1. ASSUME NEW l \in Links, NEW i \in 1 .. Len(inbox'[l])
        PROVE  inbox'[l] = inbox[l]
    BY <1>4, <2>1
  <2>2. QED
    BY <2>1 DEF LinkInv, RepliesKeepToLinks, Link
<1>7. AnswersAreEarned' /\ AnswersAreSingle'
  <2> DEFINE place == [l \in Links |-> [i \in Nat |-> i]]
  <2>1. ASSUME NEW l \in Links, NEW i \in Answers(l)'
        PROVE  i \in Answers(l) /\ inbox'[l][i] = inbox[l][i] /\ i \in Nat
    <3>1. l # Link(c)
      BY <1>4, <2>1 DEF Answers
    <3>2. Len(inbox[l]) \in Nat
      BY <1>2 DEF LinkTypeOK
    <3>3. QED
      BY <1>4, <2>1, <3>1, <3>2 DEF Answers
  <2>2. /\ place \in [Links -> [Nat -> Nat]]
        /\ \A l \in Links : \A i \in Nat : place[l][i] = i
    OBVIOUS
  <2> HIDE DEF place
  <2>3. \A l \in Links : \A i \in Answers(l)' :
          place[l][i] \in Answers(l) /\ inbox'[l][i] = inbox[l][place[l][i]]
    BY <2>1, <2>2
  <2>4. performed \subseteq performed' /\ \A answer \in reported' : answer \in reported
    BY <1>1
  <2>5. \A l \in Links : \A i, j \in Nat : place[l][i] = place[l][j] => i = j
    BY <2>2
  <2>6. QED
    BY <1>3, <2>2, <2>3, <2>4, <2>5, FewerReplies
<1>8. WireIsFresh' /\ IdleIsUntouched' /\ AnswersAreNotShared'
  BY <1>1, <1>2 DEF LinkInv, LinkTypeOK, WireIsFresh, IdleIsUntouched, AnswersAreNotShared
<1>9. QED
  BY <1>5, <1>6, <1>7, <1>8 DEF LinkInv

(* The reply a waiting call finds first.                                   *)
LEMMA FirstReply ==
  ASSUME NEW c \in Calls, LinkInv, inbox[Link(c)] # <<>>
  PROVE  LET reply == Head(inbox[Link(c)])
         IN  /\ reply \in Reply
             /\ Accepts(c, reply) =>
                  /\ reply.kind # Refused
                  /\ 1 \in Answers(Link(c))
                  /\ reply.call \in performed
                  /\ Command[reply.call].kind = Command[c].kind
                  /\ \A answer \in reported : answer[3] # reply.call
             /\ Link(reply.call) = Link(c) /\ reply.target = Command[reply.call].target
<1> DEFINE reply == Head(inbox[Link(c)])
<1>1. /\ inbox[Link(c)] \in Seq(Reply) /\ Link(c) \in Links
      /\ 1 \in 1 .. Len(inbox[Link(c)]) /\ reply = inbox[Link(c)][1]
  BY LinkOfCall DEF LinkInv, LinkTypeOK
<1>2. reply \in Reply
  BY <1>1
<1>3. ASSUME Accepts(c, reply)
      PROVE  1 \in Answers(Link(c)) /\ reply.kind # Refused
  <2>1. Command[c].kind \in Kinds
    BY LinkAssumption DEF CommandRecord
  <2>2. QED
    BY <1>1, <1>3, <2>1, LinkAssumption DEF Accepts, Answers
<1>4. ASSUME Accepts(c, reply)
      PROVE  /\ reply.call \in performed
             /\ Command[reply.call].kind = Command[c].kind
             /\ \A answer \in reported : answer[3] # reply.call
  BY <1>1, <1>3, <1>4 DEF LinkInv, AnswersAreEarned, Accepts
<1>5. Link(reply.call) = Link(c) /\ reply.target = Command[reply.call].target
  BY <1>1 DEF LinkInv, RepliesKeepToLinks
<1>6. QED
  BY <1>2, <1>3, <1>4, <1>5

(* What the end of a wait leaves in the inboxes: the reply is gone or,     *)
(* cut short, is an answer no more, and an own connection is closed.       *)
LEMMA CallStepInbox ==
  ASSUME NEW c \in Calls, LinkInv, CallStep(c)
  PROVE  /\ inbox' \in [Links -> Seq(Reply)]
         /\ \A l \in Links : l # Link(c) => inbox'[l] = inbox[l]
         /\ c \in Own => inbox'[c] = <<>>
         /\ \A i \in 1 .. Len(inbox'[Link(c)]) : \E j \in 1 .. Len(inbox[Link(c)]) :
              /\ inbox'[Link(c)][i].call = inbox[Link(c)][j].call
              /\ inbox'[Link(c)][i].target = inbox[Link(c)][j].target
         /\ \/ /\ Receive(c)
               /\ \A i \in Answers(Link(c))' :
                    i \in Nat /\ i + 1 \in Answers(Link(c)) /\ inbox'[Link(c)][i] = inbox[Link(c)][i + 1]
            \/ /\ ReceiveCut(c)
               /\ \A i \in Answers(Link(c))' :
                    i \in Nat /\ i # 1 /\ i \in Answers(Link(c)) /\ inbox'[Link(c)][i] = inbox[Link(c)][i]
            \/ TimeOut(c) /\ Answers(Link(c))' = {}
<1> DEFINE own == Link(c)
           refused == [Head(inbox[own]) EXCEPT !.kind = Refused]
<1>1. /\ LinkTypeOK /\ own \in Links /\ inbox[own] \in Seq(Reply) /\ <<>> \in Seq(Reply)
      /\ inbox \in [Links -> Seq(Reply)]
  BY LinkOfCall DEF LinkInv, LinkTypeOK
<1>2. ASSUME NEW rest \in Seq(Reply), inbox' = Closed(c, [inbox EXCEPT ![own] = rest])
      PROVE  /\ inbox' \in [Links -> Seq(Reply)]
             /\ \A l \in Links : l # own => inbox'[l] = inbox[l]
             /\ inbox'[own] = <<>> \/ (c \notin Own /\ inbox'[own] = rest)
  BY <1>1, <1>2, LinkOfCall
<1> DEFINE Left == \A i \in 1 .. Len(inbox'[own]) : \E j \in 1 .. Len(inbox[own]) :
                     /\ inbox'[own][i].call = inbox[own][j].call
                     /\ inbox'[own][i].target = inbox[own][j].target
<1>3. ASSUME inbox'[own] = <<>>
      PROVE  Answers(own)' = {} /\ Left
  BY <1>3 DEF Answers
<1>4. CASE Receive(c)
  <2>1. inbox[own] # <<>> /\ inbox' = Closed(c, [inbox EXCEPT ![own] = Tail(inbox[own])])
    BY <1>4 DEF Receive
  <2>2. Tail(inbox[own]) \in Seq(Reply)
    BY <1>1, <2>1
  <2>3. ASSUME inbox'[own] = Tail(inbox[own]), NEW i \in Answers(own)'
        PROVE  i \in Nat /\ i + 1 \in Answers(own) /\ inbox'[own][i] = inbox[own][i + 1]
    <3>1. i \in 1 .. Len(Tail(inbox[own])) /\ Tail(inbox[own])[i].kind # Refused
      BY <2>3 DEF Answers
    <3>2. /\ Len(inbox[own]) \in Nat /\ Len(Tail(inbox[own])) = Len(inbox[own]) - 1
          /\ Tail(inbox[own])[i] = inbox[own][i + 1]
      BY <1>1, <2>1, <3>1
    <3>3. QED
      BY <2>3, <3>1, <3>2 DEF Answers
  <2>4. /\ inbox' \in [Links -> Seq(Reply)]
        /\ \A l \in Links : l # own => inbox'[l] = inbox[l]
        /\ inbox'[own] = <<>> \/ (c \notin Own /\ inbox'[own] = Tail(inbox[own]))
    BY <1>2, <2>1, <2>2
  <2>5. Left
    <3>1. ASSUME inbox'[own] = Tail(inbox[own]), NEW i \in 1 .. Len(inbox'[own])
          PROVE  i + 1 \in 1 .. Len(inbox[own]) /\ inbox'[own][i] = inbox[own][i + 1]
      BY <1>1, <2>1, <3>1
    <3>2. QED
      BY <1>3, <2>4, <3>1
  <2>6. QED
    BY <1>3, <1>4, <2>3, <2>4, <2>5, LinkOfCall
<1>5. CASE ReceiveCut(c)
  <2> DEFINE rest == <<refused>> \o Tail(inbox[own])
  <2>1. inbox[own] # <<>> /\ inbox' = Closed(c, [inbox EXCEPT ![own] = rest])
    BY <1>5 DEF ReceiveCut
  <2>2. refused \in Reply
    <3>1. Head(inbox[own]) \in Reply
      BY <1>1, <2>1
    <3>2. QED
      BY <3>1 DEF Reply
  <2>3. Tail(inbox[own]) \in Seq(Reply) /\ <<refused>> \in Seq(Reply)
    BY <1>1, <2>1, <2>2
  <2>4. rest \in Seq(Reply) /\ Len(rest) = Len(inbox[own]) /\ rest[1] = refused
    BY <1>1, <2>1, <2>2, <2>3
  <2>5. ASSUME inbox'[own] = rest, NEW i \in Answers(own)'
        PROVE  i \in Nat /\ i # 1 /\ i \in Answers(own) /\ inbox'[own][i] = inbox[own][i]
    <3>1. i \in 1 .. Len(rest) /\ rest[i].kind # Refused
      BY <2>5 DEF Answers
    <3>2. i \in Nat /\ i # 1 /\ i \in 1 .. Len(inbox[own])
      <4>1. Len(inbox[own]) \in Nat
        BY <1>1
      <4>2. i # 1
        <5>1. refused.kind = Refused
          <6>1. Head(inbox[own]) \in Reply
            BY <1>1, <2>1
          <6>2. QED
            BY <6>1 DEF Reply
        <5>2. QED
          BY <2>4, <3>1, <5>1
      <4>3. QED
        BY <2>4, <3>1, <4>1, <4>2
    <3>3. rest[i] = inbox[own][i]
      BY <1>1, <2>1, <2>2, <2>3, <3>2
    <3>4. QED
      BY <2>5, <3>1, <3>2, <3>3 DEF Answers
  <2>6. /\ inbox' \in [Links -> Seq(Reply)]
        /\ \A l \in Links : l # own => inbox'[l] = inbox[l]
        /\ inbox'[own] = <<>> \/ (c \notin Own /\ inbox'[own] = rest)
    <3> HIDE DEF rest
    <3>1. QED
      BY <1>2, <2>1, <2>4
  <2>7. Left
    <3>1. ASSUME inbox'[own] = rest, NEW i \in 1 .. Len(inbox'[own])
          PROVE  /\ i \in 1 .. Len(inbox[own])
                 /\ inbox'[own][i].call = inbox[own][i].call
                 /\ inbox'[own][i].target = inbox[own][i].target
      <4>1. i \in 1 .. Len(inbox[own])
        BY <2>4, <3>1
      <4>2. CASE i = 1
        <5>1. Head(inbox[own]) = inbox[own][1] /\ Head(inbox[own]) \in Reply
          BY <1>1, <2>1
        <5>2. refused.call = Head(inbox[own]).call /\ refused.target = Head(inbox[own]).target
          BY <5>1 DEF Reply
        <5> HIDE DEF refused, rest
        <5>3. QED
          BY <2>4, <3>1, <4>1, <4>2, <5>1, <5>2
      <4>3. CASE i # 1
        <5>1. rest[i] = inbox[own][i]
          BY <1>1, <2>1, <2>2, <2>3, <4>1, <4>3
        <5>2. QED
          BY <3>1, <4>1, <5>1
      <4>4. QED
        BY <4>2, <4>3
    <3>2. QED
      BY <1>3, <2>6, <3>1
  <2>8. QED
    BY <1>3, <1>5, <2>5, <2>6, <2>7, LinkOfCall
<1>6. CASE TimeOut(c)
  <2>1. inbox[own] = <<>> /\ inbox' = Closed(c, inbox)
    BY <1>6 DEF TimeOut
  <2>2. inbox' = inbox /\ inbox'[own] = <<>>
    BY <1>1, <2>1
  <2>3. Answers(own)' = {} /\ Left
    BY <1>3, <2>2
  <2>4. c \in Own => inbox'[c] = <<>>
    BY <2>2, LinkOfCall
  <2>5. QED
    BY <1>1, <1>6, <2>2, <2>3, <2>4
<1>7. QED
  BY <1>4, <1>5, <1>6 DEF CallStep

(* What it reports is earned, and earned by no other call.                 *)
LEMMA CallStepAnswers ==
  ASSUME NEW c \in Calls, LinkInv, CallStep(c)
  PROVE  AnswersAreEarned' /\ AnswersAreSingle'
<1> DEFINE own == Link(c)
           reply == Head(inbox[own])
           same == [l \in Links |-> [i \in Nat |-> i]]
           shifted == [l \in Links |-> [i \in Nat |-> IF l = own THEN i + 1 ELSE i]]
<1>1. /\ LinkTypeOK /\ own \in Links /\ inbox[own] \in Seq(Reply)
      /\ performed \subseteq performed'
  BY LinkOfCall DEF LinkInv, LinkTypeOK, CallStep, Receive, ReceiveCut, TimeOut
<1>2. /\ inbox' \in [Links -> Seq(Reply)]
      /\ \A l \in Links : l # own => inbox'[l] = inbox[l]
  BY CallStepInbox
<1>3. \A l \in Links : l # own => \A i \in Answers(l)' :
        i \in Answers(l) /\ inbox'[l][i] = inbox[l][i] /\ i \in Nat
  <2>1. SUFFICES ASSUME NEW l \in Links, l # own, NEW i \in Answers(l)'
                 PROVE  i \in Answers(l) /\ inbox'[l][i] = inbox[l][i] /\ i \in Nat
    OBVIOUS
  <2>2. inbox'[l] = inbox[l] /\ Len(inbox[l]) \in Nat
    BY <1>1, <1>2, <2>1 DEF LinkTypeOK
  <2>3. QED
    BY <2>1, <2>2 DEF Answers
(* The answer that is read is none of those that are left.                 *)
<1>4. ASSUME inbox[own] # <<>>, Accepts(c, reply), NEW l \in Links, NEW i \in Answers(l), l # own \/ i # 1
      PROVE  reply.call # inbox[l][i].call
  <2>1. 1 \in Answers(own) /\ reply = inbox[own][1]
    BY <1>1, <1>4, FirstReply
  <2>2. \A p \in Answers(own), q \in Answers(l) :
          inbox[own][p].call = inbox[l][q].call => own = l /\ p = q
    <3>1. AnswersAreSingle
      BY DEF LinkInv
    <3>2. QED
      BY <1>1, <3>1, Zenon DEF AnswersAreSingle
  <2>3. QED
    BY <1>4, <2>1, <2>2
<1>5. /\ same \in [Links -> [Nat -> Nat]] /\ shifted \in [Links -> [Nat -> Nat]]
      /\ \A l \in Links : \A i \in Nat :
           same[l][i] = i /\ shifted[l][i] = IF l = own THEN i + 1 ELSE i
  OBVIOUS
<1> HIDE DEF same, shifted
<1>6. /\ \A l \in Links : \A i, j \in Nat : same[l][i] = same[l][j] => i = j
      /\ \A l \in Links : \A i, j \in Nat : shifted[l][i] = shifted[l][j] => i = j
  BY <1>5
<1>7. CASE /\ Receive(c)
           /\ \A i \in Answers(own)' :
                i \in Nat /\ i + 1 \in Answers(own) /\ inbox'[own][i] = inbox[own][i + 1]
  <2>1. \A l \in Links : \A i \in Answers(l)' :
          shifted[l][i] \in Answers(l) /\ inbox'[l][i] = inbox[l][shifted[l][i]]
    BY <1>3, <1>5, <1>7
  <2>2. inbox[own] # <<>> /\ \A answer \in reported' :
          \/ answer \in reported
          \/ Accepts(c, reply) /\ answer[3] = reply.call
    <3>1. /\ inbox[own] # <<>>
          /\ reported' = IF Accepts(c, reply)
                         THEN reported \cup {<<c, reply.target, reply.call>>} ELSE reported
      BY <1>7, Zenon DEF Receive
    <3> DEFINE new == <<c, reply.target, reply.call>>
    <3>2. new[3] = reply.call
      OBVIOUS
    <3> HIDE DEF new
    <3>3. ASSUME NEW answer \in reported', answer \notin reported
          PROVE  Accepts(c, reply) /\ answer = new
      BY <3>1, <3>3 DEF new
    <3>4. QED
      BY <3>1, <3>2, <3>3
  <2>3. ASSUME NEW answer \in reported', answer \notin reported, NEW l \in Links, NEW i \in Answers(l)'
        PROVE  answer[3] # inbox'[l][i].call
    <3>1. CASE l = own
      <4>1. i \in Nat /\ i + 1 \in Answers(own) /\ i + 1 # 1 /\ inbox'[own][i] = inbox[own][i + 1]
        <5>1. i \in Nat /\ i + 1 \in Answers(own) /\ inbox'[own][i] = inbox[own][i + 1]
          BY <1>7, <2>3, <3>1
        <5>2. i # 0
          <6>1. inbox'[own] \in Seq(Reply)
            BY <1>1, <1>2
          <6>2. QED
            BY <2>3, <3>1, <6>1 DEF Answers
        <5>3. QED
          BY <5>1, <5>2
      <4>2. QED
        BY <1>1, <1>4, <2>2, <2>3, <3>1, <4>1
    <3>2. CASE l # own
      BY <1>3, <1>4, <2>2, <2>3, <3>2
    <3>3. QED
      BY <3>1, <3>2
  <2>4. \A answer \in reported' :
          \/ answer \in reported
          \/ \A l \in Links : \A i \in Answers(l)' : answer[3] # inbox'[l][i].call
    BY <2>3
  <2>5. QED
    BY <1>1, <1>2, <1>5, <1>6, <2>1, <2>4, FewerReplies
<1>8. CASE /\ ReceiveCut(c)
           /\ \A i \in Answers(own)' :
                i \in Nat /\ i # 1 /\ i \in Answers(own) /\ inbox'[own][i] = inbox[own][i]
  <2>1. \A l \in Links : \A i \in Answers(l)' :
          same[l][i] \in Answers(l) /\ inbox'[l][i] = inbox[l][same[l][i]]
    BY <1>3, <1>5, <1>8
  <2>2. inbox[own] # <<>> /\ Accepts(c, reply) /\ \A answer \in reported' :
          answer \in reported \/ answer[3] = reply.call
    BY <1>8 DEF ReceiveCut
  <2>3. ASSUME NEW answer \in reported', answer \notin reported, NEW l \in Links, NEW i \in Answers(l)'
        PROVE  answer[3] # inbox'[l][i].call
    BY <1>1, <1>3, <1>4, <1>8, <2>2, <2>3
  <2>4. \A answer \in reported' :
          \/ answer \in reported
          \/ \A l \in Links : \A i \in Answers(l)' : answer[3] # inbox'[l][i].call
    BY <2>3
  <2>5. QED
    BY <1>1, <1>2, <1>5, <1>6, <2>1, <2>4, FewerReplies
<1>9. CASE TimeOut(c) /\ Answers(own)' = {}
  <2>1. \A l \in Links : \A i \in Answers(l)' :
          same[l][i] \in Answers(l) /\ inbox'[l][i] = inbox[l][same[l][i]]
    BY <1>3, <1>5, <1>9
  <2>2. \A answer \in reported' : answer \in reported
    BY <1>9 DEF TimeOut
  <2>3. QED
    BY <1>1, <1>2, <1>5, <1>6, <2>1, <2>2, FewerReplies
<1>10. QED
  BY <1>7, <1>8, <1>9, CallStepInbox

LEMMA CallStep_LinkInv == ASSUME NEW c \in Calls, LinkInv, CallStep(c) PROVE LinkInv'
<1> DEFINE own == Link(c)
           reply == Head(inbox[own])
<1>1. LinkTypeOK /\ own \in Links /\ inbox[own] \in Seq(Reply)
  BY LinkOfCall DEF LinkInv, LinkTypeOK
<1>2. Waiting(c) /\ UNCHANGED <<wire, performed>>
  BY DEF CallStep, Receive, ReceiveCut, TimeOut
<1>3. \/ status' = [status EXCEPT ![c] = "failed"] /\ UNCHANGED reported
      \/ /\ status' = [status EXCEPT ![c] = "ok"]
         /\ inbox[own] # <<>> /\ Accepts(c, reply)
         /\ \E t \in Targets : reported' = reported \cup {<<c, t, reply.call>>}
  <2>1. CASE Receive(c)
    <3>1. inbox[own] # <<>>
      BY <2>1 DEF Receive
    <3>2. reply.target \in Targets
      BY <3>1, FirstReply DEF Reply
    <3>3. QED
      BY <2>1, <3>1, <3>2 DEF Receive
  <2>2. CASE ReceiveCut(c)
    <3>1. /\ inbox[own] # <<>> /\ Accepts(c, reply)
          /\ \E t \in Cuts[reply.target] : reported' = reported \cup {<<c, t, reply.call>>}
          /\ status' = [status EXCEPT ![c] = "ok"]
      BY <2>2 DEF ReceiveCut
    <3>2. Cuts[reply.target] \subseteq Targets
      BY <3>1, FirstReply, LinkAssumption DEF Reply
    <3>3. QED
      BY <3>1, <3>2
  <2>3. CASE TimeOut(c)
    BY <2>3 DEF TimeOut
  <2>4. QED
    BY <2>1, <2>2, <2>3 DEF CallStep
<1>4. ASSUME inbox[own] # <<>>, Accepts(c, reply)
      PROVE  /\ reply.call \in performed /\ reply.call \in Calls
             /\ Command[reply.call].kind = Command[c].kind
             /\ Link(reply.call) = Link(c)
             /\ \A answer \in reported : answer[3] # reply.call
  BY <1>4, FirstReply DEF Reply
<1>5. LinkTypeOK'
  <2>1. /\ status' \in [Calls -> {"idle", "waiting", "ok", "failed"}]
        /\ \A d \in Calls : d # c => status'[d] = status[d]
    BY <1>1, <1>3 DEF LinkTypeOK
  <2>2. reported' \subseteq Calls \X Targets \X Calls
    BY <1>1, <1>3, <1>4 DEF LinkTypeOK
  <2>3. \A d \in Own : inbox'[d] # <<>> => Waiting(d)'
    BY <1>1, <2>1, CallStepInbox, LinkOfCall DEF LinkTypeOK
  <2>4. inbox' \in [Links -> Seq(Reply)]
    BY CallStepInbox
  <2>5. QED
    BY <1>1, <1>2, <2>1, <2>2, <2>3, <2>4 DEF LinkTypeOK
<1>6. RepliesKeepToLinks'
  <2>1. SUFFICES ASSUME NEW l \in Links, NEW i \in 1 .. Len(inbox'[l])
                 PROVE  /\ Link(inbox'[l][i].call) = l
                        /\ inbox'[l][i].target = Command[inbox'[l][i].call].target
    BY DEF RepliesKeepToLinks, Link
  <2>2. PICK j \in 1 .. Len(inbox[l]) :
          inbox'[l][i].call = inbox[l][j].call /\ inbox'[l][i].target = inbox[l][j].target
    <3>1. CASE l = own
      BY <2>1, <3>1, CallStepInbox
    <3>2. CASE l # own
      BY <2>1, <3>2, CallStepInbox
    <3>3. QED
      BY <3>1, <3>2
  <2>3. QED
    BY <2>2 DEF LinkInv, RepliesKeepToLinks
<1>7. WireIsFresh' /\ IdleIsUntouched'
  BY <1>1, <1>2, <1>3, <1>4 DEF LinkInv, LinkTypeOK, WireIsFresh, IdleIsUntouched
<1>8. AnswersAreNotShared'
  <2>1. AnswersAreNotShared
    BY DEF LinkInv
  <2>2. CASE status' = [status EXCEPT ![c] = "failed"] /\ UNCHANGED reported
    BY <1>1, <1>2, <2>1, <2>2 DEF LinkTypeOK, AnswersAreNotShared
  <2>3. CASE /\ status' = [status EXCEPT ![c] = "ok"]
             /\ inbox[own] # <<>> /\ Accepts(c, reply)
             /\ \E t \in Targets : reported' = reported \cup {<<c, t, reply.call>>}
    <3>1. PICK t \in Targets : reported' = reported \cup {<<c, t, reply.call>>}
      BY <2>3
    <3>2. ASSUME NEW d \in Calls, status'[d] = "ok"
          PROVE  \E answer \in reported' : answer[1] = d
      <4>1. CASE d = c
        <5> DEFINE new == <<c, t, reply.call>>
        <5>1. new[1] = c /\ new \in reported'
          BY <3>1
        <5> HIDE DEF new
        <5>2. QED
          BY <4>1, <5>1
      <4>2. CASE d # c
        <5>1. status[d] = "ok"
          BY <1>1, <2>3, <3>2, <4>2 DEF LinkTypeOK
        <5>2. PICK answer \in reported : answer[1] = d
          BY <2>1, <3>2, <5>1, Zenon DEF AnswersAreNotShared
        <5>3. QED
          BY <3>1, <5>2
      <4>3. QED
        BY <4>1, <4>2
    <3>3. \A answer \in reported' :
            /\ answer[3] \in performed' /\ Command[answer[3]].kind = Command[answer[1]].kind
            /\ Link(answer[3]) = Link(answer[1])
      <4> DEFINE new == <<c, t, reply.call>>
      <4>1. new[1] = c /\ new[3] = reply.call
        OBVIOUS
      <4>2. \A answer \in reported' : answer \in reported \/ answer = new
        BY <3>1
      <4> HIDE DEF new
      <4>3. QED
        BY <1>2, <1>4, <2>1, <2>3, <4>1, <4>2 DEF AnswersAreNotShared
    <3>4. \A a, b \in reported' : a[3] = b[3] => a = b
      BY <1>4, <2>1, <2>3, <3>1 DEF AnswersAreNotShared
    <3>5. QED
      BY <3>2, <3>3, <3>4 DEF AnswersAreNotShared, Link
  <2>4. QED
    BY <1>3, <2>2, <2>3
<1>9. QED
  BY <1>5, <1>6, <1>7, <1>8, CallStepAnswers DEF LinkInv

LEMMA DeviceActs_LinkInv ==
  ASSUME NEW c \in Calls, LinkInv, Perform(c) \/ Refuse(c) \/ Ignore(c)
  PROVE  LinkInv'
<1>1. LinkTypeOK
  BY DEF LinkInv
<1>2. CASE Perform(c)
  <2>1. /\ c \in wire /\ wire' = wire \ {c} /\ performed' = performed \cup {c}
        /\ UNCHANGED <<status, reported>>
    BY <1>2 DEF Perform, Take
  <2>2. Command[c].kind \in Kinds \cup {Refused}
    BY LinkAssumption DEF CommandRecord
  <2>3. WireIsFresh' /\ IdleIsUntouched' /\ AnswersAreNotShared'
    BY <1>1, <2>1 DEF LinkInv, LinkTypeOK, WireIsFresh, IdleIsUntouched, AnswersAreNotShared
  <2>4. LinkTypeOK' /\ RepliesKeepToLinks'
    <3>1. CASE Deliver(c, Command[c].kind)
      BY <1>1, <2>1, <2>2, <3>1, DeliverTyped, DeliverOwn DEF LinkTypeOK
    <3>2. CASE UNCHANGED inbox
      BY <1>1, <2>1, <3>2 DEF LinkInv, LinkTypeOK, RepliesKeepToLinks
    <3>3. QED
      BY <1>2, <3>1, <3>2 DEF Perform
  <2>5. QED
    BY <1>2, <2>3, <2>4, DeliverAnswer DEF LinkInv
<1>3. CASE Refuse(c)
  <2> DEFINE own == Link(c)
             refusal == [kind |-> Refused, target |-> Command[c].target, call |-> c]
             same == [l \in Links |-> [i \in Nat |-> i]]
  <2>1. wire' = wire \ {c} /\ UNCHANGED <<status, reported, performed>> /\ Deliver(c, Refused)
    BY <1>3 DEF Refuse, Take
  <2>2. LinkTypeOK' /\ RepliesKeepToLinks'
    BY <1>1, <2>1, DeliverTyped, DeliverOwn DEF LinkTypeOK
  <2>3. WireIsFresh' /\ IdleIsUntouched' /\ AnswersAreNotShared'
    BY <2>1 DEF LinkInv, WireIsFresh, IdleIsUntouched, AnswersAreNotShared
  <2>4. ASSUME NEW l \in Links, NEW i \in Answers(l)'
        PROVE  i \in Nat /\ i \in Answers(l) /\ inbox'[l][i] = inbox[l][i]
    <3>1. inbox[l] \in Seq(Reply) /\ inbox'[l] \in Seq(Reply)
      BY <1>1, <2>2 DEF LinkTypeOK
    <3>2. CASE inbox'[l] = inbox[l]
      BY <2>4, <3>1, <3>2 DEF Answers
    <3>3. CASE inbox'[l] = Append(inbox[l], refusal)
      <4>1. i \in 1 .. Len(inbox[l]) + 1 /\ inbox'[l][i].kind # Refused
        BY <2>4, <3>1, <3>3 DEF Answers
      <4>2. i # Len(inbox[l]) + 1
        BY <3>1, <3>3, <4>1
      <4>3. i \in 1 .. Len(inbox[l]) /\ inbox'[l][i] = inbox[l][i]
        BY <3>1, <3>3, <4>1, <4>2
      <4>4. QED
        BY <3>1, <4>1, <4>3 DEF Answers
    <3>4. QED
      BY <1>1, <2>1, <3>2, <3>3, DeliverTyped
  <2>5. /\ same \in [Links -> [Nat -> Nat]]
        /\ \A l \in Links : \A i \in Nat : same[l][i] = i
    OBVIOUS
  <2> HIDE DEF same
  <2>6. AnswersAreEarned' /\ AnswersAreSingle'
    <3>1. \A l \in Links : \A i \in Answers(l)' :
            same[l][i] \in Answers(l) /\ inbox'[l][i] = inbox[l][same[l][i]]
      BY <2>4, <2>5
    <3>2. \A l \in Links : \A i, j \in Nat : same[l][i] = same[l][j] => i = j
      BY <2>5
    <3>3. performed \subseteq performed' /\ \A answer \in reported' : answer \in reported
      BY <2>1
    <3>4. inbox' \in [Links -> Seq(Reply)]
      BY <2>2 DEF LinkTypeOK
    <3>5. QED
      BY <2>5, <3>1, <3>2, <3>3, <3>4, FewerReplies
  <2>7. QED
    BY <2>2, <2>3, <2>6 DEF LinkInv
<1>4. CASE Ignore(c)
  <2>1. wire' = wire \ {c} /\ UNCHANGED <<status, reported, inbox, performed>>
    BY <1>4 DEF Ignore, Take
  <2>2. \A l \in Links : Answers(l)' = Answers(l)
    BY <2>1 DEF Answers
  <2>3. AnswersAreEarned' /\ AnswersAreSingle'
    BY <2>1, <2>2 DEF LinkInv, AnswersAreEarned, AnswersAreSingle
  <2>4. LinkTypeOK' /\ RepliesKeepToLinks'
    BY <2>1 DEF LinkInv, LinkTypeOK, RepliesKeepToLinks, Waiting
  <2>5. WireIsFresh' /\ IdleIsUntouched' /\ AnswersAreNotShared'
    BY <2>1 DEF LinkInv, WireIsFresh, IdleIsUntouched, AnswersAreNotShared
  <2>6. QED
    BY <2>3, <2>4, <2>5 DEF LinkInv
<1>5. QED
  BY <1>2, <1>3, <1>4

LEMMA LinkNext_LinkInv == ASSUME LinkInv, [LinkNext]_linkVars PROVE LinkInv'
<1>1. ASSUME NEW c \in Calls, SendFails(c)
      PROVE  LinkInv'
  <2>1. status[c] = "idle" /\ status' = [status EXCEPT ![c] = "failed"]
        /\ UNCHANGED <<reported, wire, inbox, performed>>
    BY <1>1 DEF SendFails
  <2>2. \A l \in Links : Answers(l)' = Answers(l)
    BY <2>1 DEF Answers
  <2>3. AnswersAreEarned' /\ AnswersAreSingle' /\ RepliesKeepToLinks'
    BY <2>1, <2>2 DEF LinkInv, AnswersAreEarned, AnswersAreSingle, RepliesKeepToLinks
  <2>4. LinkTypeOK' /\ WireIsFresh' /\ IdleIsUntouched' /\ AnswersAreNotShared'
    BY <2>1 DEF LinkInv, LinkTypeOK, WireIsFresh, IdleIsUntouched, AnswersAreNotShared
  <2>5. QED
    BY <2>3, <2>4 DEF LinkInv
<1>2. CASE UNCHANGED linkVars
  <2>1. \A l \in Links : Answers(l)' = Answers(l)
    BY <1>2 DEF Answers, linkVars
  <2>2. QED
    BY <1>2, <2>1 DEF LinkInv, linkVars, LinkTypeOK, WireIsFresh, IdleIsUntouched, RepliesKeepToLinks,
                      AnswersAreEarned, AnswersAreSingle, AnswersAreNotShared
<1>3. QED
  BY <1>1, <1>2, Send_LinkInv, CallStep_LinkInv, DeviceActs_LinkInv DEF LinkNext

(* The parts of LinkInv hold throughout: an answer is of a command that    *)
(* has been carried out, is for its own call where there is a connection   *)
(* per call, and is read once.                                             *)
THEOREM LinkInductive == LinkSpec => []LinkInv
<1>1. LinkInv /\ [LinkNext]_linkVars => LinkInv'
  BY LinkNext_LinkInv
<1>2. QED
  BY <1>1, LinkInit_LinkInv, PTL DEF LinkSpec

(* Replies on a connection of its own wait only for a call that can still  *)
(* read them.                                                              *)
THEOREM LinkTypeCorrect == LinkSpec => []LinkTypeOK
<1>1. LinkInv => LinkTypeOK
  BY DEF LinkInv
<1>2. QED
  BY <1>1, LinkInductive, PTL

(* A call no other can be taken for, that returned success, was carried    *)
(* out by the device, whatever happens on its link at the same time.       *)
LEMMA LoneSucceeds == LinkInv => SuccessWasPerformed
<1>1. SUFFICES ASSUME LinkInv, NEW c \in Lone, status[c] = "ok"
               PROVE  c \in performed
  BY DEF SuccessWasPerformed
<1>2. c \in Calls
  BY LoneCalls, LinkAssumption DEF Lone
<1>3. PICK answer \in reported : answer[1] = c
  BY <1>1, <1>2 DEF LinkInv, AnswersAreNotShared
<1>4. /\ answer[3] \in performed /\ answer[3] \in Calls
      /\ Command[answer[3]].kind = Command[c].kind
      /\ Link(answer[3]) = Link(c)
  BY <1>1, <1>3 DEF LinkInv, LinkTypeOK, AnswersAreNotShared
<1>5. QED
  BY <1>4, LoneCalls

(* So no service moves on after a command that was not carried out, unless *)
(* two commands of one kind share the port.                                *)
THEOREM LoneSuccessWasPerformed == LinkSpec => []SuccessWasPerformed
<1>1. QED
  BY LoneSucceeds, LinkInductive, PTL

(* However many threads share the port and however late its replies come,  *)
(* no reply acknowledges two calls, and none a command that was not        *)
(* carried out.                                                            *)
THEOREM NoAnswerIsShared == LinkSpec => []AnswersAreNotShared
<1>1. LinkInv => AnswersAreNotShared
  BY DEF LinkInv
<1>2. QED
  BY <1>1, LinkInductive, PTL

-----------------------------------------------------------------------------
(* What the target of an answer may be.                                    *)
Names(t, d) ==
  \/ t = Command[d].target
  \/ "cut" \in Faults /\ t \in Cuts[Command[d].target]

AnswersNameTargets == \A answer \in reported : Names(answer[2], answer[3])

LEMMA NamesStep ==
  ASSUME LinkInv, AnswersNameTargets, [LinkNext]_linkVars
  PROVE  AnswersNameTargets'
<1>1. ASSUME NEW c, NEW t, NEW d, reported' = reported \cup {<<c, t, d>>}, Names(t, d)
      PROVE  AnswersNameTargets'
  <2> DEFINE new == <<c, t, d>>
  <2>1. new[2] = t /\ new[3] = d
    OBVIOUS
  <2> HIDE DEF new
  <2>2. \A answer \in reported' : answer \in reported \/ answer = new
    BY <1>1 DEF new
  <2>3. QED
    BY <1>1, <2>1, <2>2 DEF AnswersNameTargets, Names
<1>2. ASSUME UNCHANGED reported
      PROVE  AnswersNameTargets'
  BY <1>2 DEF AnswersNameTargets, Names
<1>3. ASSUME NEW c \in Calls, Receive(c)
      PROVE  AnswersNameTargets'
  <2> DEFINE reply == Head(inbox[Link(c)])
  <2>1. Names(reply.target, reply.call)
    BY <1>3, FirstReply DEF Receive, Names
  <2>2. reported' = reported \/ reported' = reported \cup {<<c, reply.target, reply.call>>}
    BY <1>3 DEF Receive
  <2> HIDE DEF reply
  <2>3. QED
    BY <1>1, <1>2, <2>1, <2>2
<1>4. ASSUME NEW c \in Calls, ReceiveCut(c)
      PROVE  AnswersNameTargets'
  <2> DEFINE reply == Head(inbox[Link(c)])
  <2>1. "cut" \in Faults /\ reply.target = Command[reply.call].target
    BY <1>4, FirstReply DEF ReceiveCut
  <2>2. PICK t \in Cuts[reply.target] : reported' = reported \cup {<<c, t, reply.call>>}
    BY <1>4 DEF ReceiveCut
  <2>3. Names(t, reply.call)
    BY <2>1, <2>2 DEF Names
  <2> HIDE DEF reply
  <2>4. QED
    BY <1>1, <2>2, <2>3
<1>5. QED
  BY <1>2, <1>3, <1>4 DEF LinkNext, linkVars, SendFails, Send, CallStep, TimeOut, Perform, Take, Refuse, Ignore

(* The position a call reports is one that was asked for over its link, by *)
(* itself if no other call can be taken for it, or what a cut leaves of it. *)
THEOREM PositionWasAsked == LinkSpec => []ReportedIsAsked
<1>1. LinkInit => AnswersNameTargets
  BY DEF LinkInit, AnswersNameTargets
<1>2. LinkInv /\ AnswersNameTargets /\ [LinkNext]_linkVars => AnswersNameTargets'
  BY NamesStep
<1>3. LinkInv /\ AnswersNameTargets => ReportedIsAsked
  <2>1. SUFFICES ASSUME LinkInv, AnswersNameTargets, NEW answer \in reported, answer[1] \in Lone
                 PROVE  answer[3] = answer[1]
    BY DEF AnswersNameTargets, Names, ReportedIsAsked
  <2>2. /\ answer[3] \in Calls
        /\ Command[answer[3]].kind = Command[answer[1]].kind
        /\ Link(answer[3]) = Link(answer[1])
    BY <2>1 DEF LinkInv, LinkTypeOK, AnswersAreNotShared
  <2>3. QED
    BY <2>1, <2>2, LoneCalls
<1>4. QED
  BY <1>1, <1>2, <1>3, LinkInductive, PTL DEF LinkSpec

-----------------------------------------------------------------------------
LEMMA DeviceInit == LinkInit => Device!Init
<1>1. Lone \subseteq Calls
  BY LinkAssumption DEF Lone, Own
<1>2. QED
  BY <1>1 DEF LinkInit, Device!Init

(* A step of a call changes what a lone caller sees, or nothing.           *)
LEMMA StatusStep ==
  ASSUME NEW c \in Calls, NEW to, LinkInv, status' = [status EXCEPT ![c] = to]
  PROVE  [d \in Lone |-> status'[d]] =
           IF c \in Lone THEN [[d \in Lone |-> status[d]] EXCEPT ![c] = to] ELSE [d \in Lone |-> status[d]]
BY DEF LinkInv, LinkTypeOK

LEMMA DeviceStep ==
  ASSUME LinkInv, SuccessWasPerformed', [LinkNext]_linkVars
  PROVE  [Device!Next]_(Device!callVars)
<1> USE DEF Device!callVars, Device!Enter
<1>1. ASSUME NEW c \in Calls, NEW to, status' = [status EXCEPT ![c] = to], UNCHANGED performed,
             \/ status[c] = "idle" /\ to = "failed"
             \/ status[c] = "idle" /\ to = "waiting"
             \/ status[c] = "waiting" /\ to = "failed"
             \/ status[c] = "waiting" /\ to = "ok"
      PROVE  [Device!Next]_(Device!callVars)
  <2>1. CASE c \in Lone
    <3>1. to = "ok" => c \in performed \cap Lone
      BY <1>1, <2>1 DEF LinkInv, LinkTypeOK, SuccessWasPerformed
    <3>2. Device!Begin(c) \/ Device!Succeed(c) \/ Device!Fail(c)
      BY <1>1, <2>1, <3>1, StatusStep DEF Device!Begin, Device!Succeed, Device!Fail
    <3>3. QED
      BY <2>1, <3>2 DEF Device!Next
  <2>2. CASE c \notin Lone
    BY <1>1, <2>2, StatusStep
  <2>3. QED
    BY <2>1, <2>2
<1>2. ASSUME NEW c \in Calls, SendFails(c) \/ Send(c) \/ CallStep(c)
      PROVE  [Device!Next]_(Device!callVars)
  BY <1>1, <1>2 DEF SendFails, Send, CallStep, Receive, ReceiveCut, TimeOut
<1>3. ASSUME NEW c \in Calls, Perform(c)
      PROVE  [Device!Next]_(Device!callVars)
  <2>1. status[c] # "idle" /\ c \notin performed
    BY <1>3 DEF LinkInv, WireIsFresh, Perform, Take
  <2>2. performed' = performed \cup {c} /\ UNCHANGED status
    BY <1>3 DEF Perform
  <2>3. CASE c \in Lone
    BY <2>1, <2>2, <2>3 DEF Device!Next, Device!Carry
  <2>4. CASE c \notin Lone
    BY <2>2, <2>4
  <2>5. QED
    BY <2>3, <2>4
<1>4. ASSUME NEW c \in Calls, Refuse(c) \/ Ignore(c)
      PROVE  UNCHANGED <<status, performed>>
  BY <1>4 DEF Refuse, Ignore
<1>5. QED
  BY <1>2, <1>3, <1>4 DEF LinkNext, linkVars

(* The calls no other can be taken for are what DeviceCalls promises the   *)
(* services: carried out at most once, and before they succeed.            *)
THEOREM LoneImplementDeviceCalls == LinkSpec => ImplementsDeviceCalls
<1>1. LinkInv /\ SuccessWasPerformed' /\ [LinkNext]_linkVars => [Device!Next]_(Device!callVars)
  BY DeviceStep
<1>2. QED
  BY <1>1, DeviceInit, LinkInductive, LoneSuccessWasPerformed, PTL DEF LinkSpec, ImplementsDeviceCalls, Device!Spec
=============================================================================

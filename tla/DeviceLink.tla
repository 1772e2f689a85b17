------------------------------ MODULE DeviceLink ------------------------------
(***************************************************************************)
(* The real adapters (src/app/hardware/{drum,lock,rfid}_real.py) and the   *)
(* transports under them: every call sends one command and reads one reply *)
(* within a timeout.  Over TCP a call has a connection of its own; over a  *)
(* serial port all calls, of all threads, share one line, whose input is   *)
(* emptied before a command is written.  No reply says which command it    *)
(* answers.                                                                *)
(*                                                                         *)
(* One instance is a machine whose devices are connected either way, with  *)
(* the calls to them, each made once: Serial are those that use the port.  *)
(* Pings come from GET /readiness and commands from diagnostics at any     *)
(* time, those of operations from the holder of the database's write lock. *)
(* The devices take commands in any order, as they may those of other      *)
(* connections.                                                            *)
(***************************************************************************)
EXTENDS Integers, Sequences, FiniteSets

CONSTANTS
  Calls,
  Command,    \* call |-> [kind, target] it asks for
  Kinds,      \* ping, move, unlock, ...
  SoleKinds,  \* the kinds only operations use, one call at a time
  Targets,
  Cuts,       \* target |-> what its numeral can read as when it is cut short
  Serial,     \* the calls to devices on the serial port
  Line,       \* the port
  Faults      \* what the device may do wrong

CommandRecord == [kind : Kinds, target : Targets]
Refused == "refused"  \* BUSY, ERR, UNAVAILABLE, or no reply of the protocol

ASSUME LinkAssumption ==
  /\ Command \in [Calls -> CommandRecord]
  /\ SoleKinds \subseteq Kinds
  /\ Refused \notin Kinds
  /\ Cuts \in [Targets -> SUBSET Targets]
  /\ Serial \subseteq Calls
  /\ Line \notin Calls
  /\ Faults \subseteq {"silent", "refuse", "cut", "offline"}

VARIABLES
  status,     \* of each call
  reported,   \* <<call, target its reply named, call it was sent for>>
  wire,       \* calls whose command the device has yet to look at
  inbox,      \* per link, replies nobody has read
  performed   \* calls whose command the device has carried out

linkVars == <<status, reported, wire, inbox, performed>>

Links == Calls \cup {Line}
Reply == [kind : Kinds \cup {Refused}, target : Targets, call : Calls]

Own == Calls \ Serial

(* Wrong variant: one connection for all calls.                            *)
LinkShared(c) == Line

Link(c) == IF c \in Serial THEN Line ELSE c

Waiting(c) == status[c] = "waiting"

(* The request has ended: a connection of its own is closed.               *)
Closed(c, box) == IF Link(c) = c THEN [box EXCEPT ![c] = <<>>] ELSE box

-----------------------------------------------------------------------------
(* _raise_if_unavailable, a port that does not open, a failed write.       *)
SendFails(c) ==
  /\ "offline" \in Faults
  /\ status[c] = "idle"
  /\ status' = [status EXCEPT ![c] = "failed"]
  /\ UNCHANGED <<reported, wire, inbox, performed>>

(* Opens the link, resets its input and writes the command.                *)
Send(c) ==
  /\ status[c] = "idle"
  /\ Command[c].kind \in SoleKinds =>
       \A d \in Calls : Command[d].kind \in SoleKinds => ~ Waiting(d)
  /\ status' = [status EXCEPT ![c] = "waiting"]
  /\ inbox' = [inbox EXCEPT ![Link(c)] = <<>>]
  /\ wire' = wire \cup {c}
  /\ UNCHANGED <<reported, performed>>

(* Wrong variant: any reply will do.                                       *)
AcceptsAnything(c, reply) == TRUE

(* The prefix of the reply is the one the command calls for.               *)
Accepts(c, reply) == reply.kind = Command[c].kind

(* Wrong variant: what has been read is left in the buffer.                *)
ReceiveKeepsReply(c) ==
  /\ Waiting(c)
  /\ inbox[Link(c)] # <<>>
  /\ LET reply == Head(inbox[Link(c)])
     IN  /\ status' = [status EXCEPT ![c] = IF Accepts(c, reply) THEN "ok" ELSE "failed"]
         /\ reported' = IF Accepts(c, reply) THEN reported \cup {<<c, reply.target, reply.call>>} ELSE reported
  /\ UNCHANGED <<inbox, wire, performed>>

Receive(c) ==
  /\ Waiting(c)
  /\ inbox[Link(c)] # <<>>
  /\ LET reply == Head(inbox[Link(c)])
     IN  /\ status' = [status EXCEPT ![c] = IF Accepts(c, reply) THEN "ok" ELSE "failed"]
         /\ reported' = IF Accepts(c, reply) THEN reported \cup {<<c, reply.target, reply.call>>} ELSE reported
  /\ inbox' = Closed(c, [inbox EXCEPT ![Link(c)] = Tail(@)])
  /\ UNCHANGED <<wire, performed>>

(* read_until and recv return what has come when the time is up or the     *)
(* peer closes: a numeral may lack its last digits.  What comes after is   *)
(* no reply of the protocol.                                               *)
ReceiveCut(c) ==
  /\ "cut" \in Faults
  /\ Waiting(c)
  /\ inbox[Link(c)] # <<>>
  /\ LET reply == Head(inbox[Link(c)])
     IN  /\ Accepts(c, reply)
         /\ \E t \in Cuts[reply.target] : reported' = reported \cup {<<c, t, reply.call>>}
         /\ inbox' = Closed(c, [inbox EXCEPT ![Link(c)] =
                                  <<[reply EXCEPT !.kind = Refused]>> \o Tail(@)])
  /\ status' = [status EXCEPT ![c] = "ok"]
  /\ UNCHANGED <<wire, performed>>

TimeOut(c) ==
  /\ Waiting(c)
  /\ inbox[Link(c)] = <<>>
  /\ status' = [status EXCEPT ![c] = "failed"]
  /\ inbox' = Closed(c, inbox)
  /\ UNCHANGED <<reported, wire, performed>>

CallStep(c) == Receive(c) \/ ReceiveCut(c) \/ TimeOut(c)

-----------------------------------------------------------------------------
(* Wrong variant: replies reach connections that are closed.               *)
DeliverToClosed(c, kind) ==
  inbox' = [inbox EXCEPT ![Link(c)] =
              Append(@, [kind |-> kind, target |-> Command[c].target, call |-> c])]

(* A reply for a connection that is closed is lost, the line takes any.    *)
Deliver(c, kind) ==
  IF Link(c) = c /\ ~ Waiting(c)
  THEN UNCHANGED inbox
  ELSE inbox' = [inbox EXCEPT ![Link(c)] =
                   Append(@, [kind |-> kind, target |-> Command[c].target, call |-> c])]

Take(c) == c \in wire /\ wire' = wire \ {c}

Perform(c) ==
  /\ Take(c)
  /\ performed' = performed \cup {c}
  /\ \/ Deliver(c, Command[c].kind)
     \/ "silent" \in Faults /\ UNCHANGED inbox
  /\ UNCHANGED <<status, reported>>

Refuse(c) ==
  /\ "refuse" \in Faults
  /\ Take(c)
  /\ Deliver(c, Refused)
  /\ UNCHANGED <<status, reported, performed>>

Ignore(c) ==
  /\ "silent" \in Faults
  /\ Take(c)
  /\ UNCHANGED <<status, reported, inbox, performed>>

-----------------------------------------------------------------------------
LinkInit ==
  /\ status = [c \in Calls |-> "idle"]
  /\ reported = {}
  /\ wire = {}
  /\ inbox = [l \in Links |-> <<>>]
  /\ performed = {}

LinkNext ==
  \E c \in Calls :
    \/ SendFails(c) \/ Send(c) \/ CallStep(c)
    \/ Perform(c) \/ Refuse(c) \/ Ignore(c)

LinkSpec == LinkInit /\ [][LinkNext]_linkVars

-----------------------------------------------------------------------------
(* Replies wait only for calls that can still read them.                   *)
LinkTypeOK ==
  /\ status \in [Calls -> {"idle", "waiting", "ok", "failed"}]
  /\ reported \subseteq Calls \X Targets \X Calls
  /\ wire \subseteq Calls
  /\ inbox \in [Links -> Seq(Reply)]
  /\ performed \subseteq Calls
  /\ \A c \in Own : inbox[c] # <<>> => Waiting(c)

(* A call that returned success was carried out: the adapters fail closed  *)
(* (docstring of RealHardwareAdapterBase, real_adapter_base.py:18), and a  *)
(* service that unlocks after a move relies on it.  The port breaks it.    *)
AdaptersFailClosed ==
  \A c \in Calls : status[c] = "ok" => c \in performed

(* The calls no other can be taken for: those with a connection of their   *)
(* own, and on the port those that are the only ones of their kind.        *)
Lone ==
  Own \cup {c \in Serial : \A d \in Serial \ {c} : Command[d].kind # Command[c].kind}

(* A call no other can be taken for was carried out if it succeeds,        *)
(* whatever goes on at the same time and on the same port.                 *)
SuccessWasPerformed ==
  \A c \in Lone : status[c] = "ok" => c \in performed

(* The position a call reports is the one that was asked for, or, when the *)
(* network cuts replies short, what is left of it: asked for by the call   *)
(* itself if no other can be taken for it, else perhaps by another.        *)
ReportedIsAsked ==
  \A answer \in reported :
    LET asked == Command[answer[3]].target
    IN  /\ \/ answer[2] = asked
           \/ "cut" \in Faults /\ answer[2] \in Cuts[asked]
        /\ answer[1] \in Lone => answer[3] = answer[1]

(* One reply acknowledges one call, also when calls of several threads     *)
(* share the line and replies come late: successful calls can be paired    *)
(* off with commands of their kind that the device has carried out for the *)
(* same link.                                                              *)
AnswersAreNotShared ==
  /\ \A c \in Calls : status[c] = "ok" => \E answer \in reported : answer[1] = c
  /\ \A answer \in reported :
       /\ answer[3] \in performed
       /\ Command[answer[3]].kind = Command[answer[1]].kind
       /\ Link(answer[3]) = Link(answer[1])
  /\ \A a, b \in reported : a[3] = b[3] => a = b

(* What the services see of the calls no other can be taken for is         *)
(* DeviceCalls.                                                            *)
Device ==
  INSTANCE DeviceCalls WITH Calls <- Lone,
                            status <- [c \in Lone |-> status[c]],
                            performed <- performed \cap Lone
ImplementsDeviceCalls == Device!Spec

-----------------------------------------------------------------------------
(* The parts of the inductive invariant behind the theorems.               *)

(* Commands on the wire were sent and are yet to be carried out.           *)
WireIsFresh == \A c \in wire : status[c] # "idle" /\ c \notin performed

IdleIsUntouched == \A c \in Calls : status[c] = "idle" => c \notin performed

(* What a link brings answers a call that was made over it, and names what *)
(* that call asked for.                                                    *)
RepliesKeepToLinks ==
  \A l \in Links : \A i \in 1 .. Len(inbox[l]) :
    LET c == inbox[l][i].call
    IN  Link(c) = l /\ inbox[l][i].target = Command[c].target

(* The places of the answers a link holds: a refusal is none.              *)
Answers(l) == {i \in 1 .. Len(inbox[l]) : inbox[l][i].kind # Refused}

(* An answer on the way is of the kind of its command, which has been      *)
(* carried out, and has not been read before.                              *)
AnswersAreEarned ==
  \A l \in Links : \A i \in Answers(l) :
    LET c == inbox[l][i].call
    IN  /\ c \in performed
        /\ inbox[l][i].kind = Command[c].kind
        /\ \A answer \in reported : answer[3] # c

AnswersAreSingle ==
  \A l, m \in Links : \A i \in Answers(l), j \in Answers(m) :
    inbox[l][i].call = inbox[m][j].call => l = m /\ i = j

LinkInv ==
  /\ LinkTypeOK
  /\ WireIsFresh
  /\ IdleIsUntouched
  /\ RepliesKeepToLinks
  /\ AnswersAreEarned
  /\ AnswersAreSingle
  /\ AnswersAreNotShared
=============================================================================

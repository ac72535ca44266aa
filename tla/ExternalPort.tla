---------------------------- MODULE ExternalPort ----------------------------
(***************************************************************************)
(* The port through which an application on the host sends messages to, or *)
(* takes them from, a worker on an FPGA.                                   *)
(*                                                                         *)
(* The host's ring of local buffers and the FPGA's ring of far buffers are *)
(* linked by copies, by ready flags in the host's memory and by a doorbell *)
(* register of the FPGA.  Who copies and who only rings or flags depends   *)
(* on the roles that the two ports agreed on (module Roles).  There is no  *)
(* lock: the FPGA may act between any two steps of the host's thread.      *)
(***************************************************************************)
EXTENDS Roles, Sequences

CONSTANTS
  NumLocal,      \* buffers of the host's ring
  NumFar,        \* buffers of the FPGA's ring
  MaxMessages    \* bound on the messages sent

ASSUME ExternalPortAssumption ==
  /\ NumLocal \in Nat \ {0}
  /\ NumFar \in Nat \ {0}
  /\ MaxMessages \in Nat

Locals == 0 .. NumLocal - 1
Fars == 0 .. NumFar - 1
NextLocal(i) == (i + 1) % NumLocal
NextFar(j) == (j + 1) % NumFar

VARIABLES
  provider,      \* the FPGA's port is the provider: messages go to the FPGA
  role,          \* the host's role
  \* the host's memory
  nextLocal, nextRemote, nextFar,
  localReady,    \* local buffers whose readyForLocal flag is up
  remoteReady,   \* local buffers whose readyForRemote flag is up
  busy,          \* local buffers in the application's hands
  localMsg,      \* what each local buffer holds
  farReady,      \* far buffers whose flag in the host's memory is up
  \* the host's thread
  pc, call,      \* where it is, and in which call
  nReady,        \* what it read of the FPGA's nReady register
  answer,        \* what the last tryFlush said, until the next call
  \* the FPGA
  farMsg,        \* what each far buffer holds
  head, full,    \* its oldest full buffer, and how many are full
  remote,        \* the local buffer it moves next, when it moves
  credits,       \* doorbells it has not used
  flags,         \* flags of the host's memory it is about to raise
  \* history
  nSent, got     \* messages sent, and handed to the consumer

host == <<nextLocal, nextRemote, nextFar, remoteReady, busy>>
thread == <<pc, call, nReady, answer>>
fpga == <<head, full, remote, credits, flags>>
vars == <<provider, role, host, localReady, localMsg, farReady, thread,
          farMsg, fpga, nSent, got>>

\* The roles negotiation can give to the host, whichever side has a wish,
\* except where the FPGA's role does not fit (Negotiation!RolesFit).
HostRoles(p) ==
  LET Pairs == {ChooseRoles(Prefer(NewPort(IF p THEN "external" ELSE "rpl"), r),
                            Prefer(NewPort(IF p THEN "rpl" ELSE "external"), s)) :
                  r \in Wishes(IF p THEN "external" ELSE "rpl"),
                  s \in Wishes(IF p THEN "rpl" ELSE "external")}
  IN {IF p THEN c.user ELSE c.provider :
        c \in {c \in Pairs : c.user = Other(c.provider)}}

Moves == role \in {"ActiveMessage", "ActiveOnly"}

\* The constructor.  The FPGA starts when the flags are in place.
Init ==
  /\ provider \in BOOLEAN
  /\ role \in HostRoles(provider)
  /\ nextLocal = 0 /\ nextRemote = 0 /\ nextFar = 0
  /\ localReady = (IF provider THEN Locals ELSE {})
  /\ remoteReady = (IF provider THEN {} ELSE Locals)
  /\ busy = {}
  /\ localMsg = [i \in Locals |-> 0]
  /\ farReady = (IF provider THEN Fars ELSE {})
  /\ pc = "idle" /\ call = "none" /\ nReady = 0 /\ answer = "none"
  /\ farMsg = [j \in Fars |-> 0]
  /\ head = 0 /\ full = 0 /\ remote = 0 /\ flags = {}
  /\ credits = (IF provider \/ Moves THEN 0 ELSE NumLocal)
  /\ nSent = 0
  /\ got = <<>>

-----------------------------------------------------------------------------
(* The FPGA's side of the link.  It is hardware: what it does is what the   *)
(* host's side and the use of its registers require.                        *)

\* The nReady register of a passive FPGA: the buffers the host can move.
NReady == IF provider THEN NumFar - full ELSE full

\* Its worker takes the oldest message; a flow-controlling FPGA says so.
FarTakes ==
  /\ provider /\ full > 0
  /\ got' = Append(got, farMsg[head])
  /\ head' = NextFar(head)
  /\ full' = full - 1
  /\ flags' = IF role = "ActiveMessage" THEN flags \cup {head} ELSE flags
  /\ UNCHANGED <<provider, role, host, localReady, localMsg, farReady, thread,
                 farMsg, remote, credits, nSent>>

\* Its worker gives the next message.
FarGives ==
  LET tail == (head + full) % NumFar IN
  /\ ~provider /\ full < NumFar /\ nSent < MaxMessages
  /\ farMsg' = [farMsg EXCEPT ![tail] = nSent + 1]
  /\ nSent' = nSent + 1
  /\ full' = full + 1
  /\ flags' = IF role = "ActiveMessage" THEN flags \cup {tail} ELSE flags
  /\ UNCHANGED <<provider, role, host, localReady, localMsg, farReady, thread,
                 head, remote, credits, got>>

\* An FPGA that moves the data takes a message from the host, or puts one there.
FarMoves ==
  /\ role = "ActiveFlowControl" /\ credits > 0
  /\ \/ /\ provider /\ full < NumFar
        /\ farMsg' = [farMsg EXCEPT ![(head + full) % NumFar] = localMsg[remote]]
        /\ full' = full + 1
        /\ UNCHANGED <<localMsg, head>>
     \/ /\ ~provider /\ full > 0
        /\ localMsg' = [localMsg EXCEPT ![remote] = farMsg[head]]
        /\ head' = NextFar(head)
        /\ full' = full - 1
        /\ UNCHANGED farMsg
  /\ credits' = credits - 1
  /\ remote' = NextLocal(remote)
  /\ flags' = flags \cup {remote}
  /\ UNCHANGED <<provider, role, host, localReady, farReady, thread, nSent, got>>

\* A flag reaches the host's memory.
FlagArrives(i) ==
  /\ i \in flags
  /\ flags' = flags \ {i}
  /\ IF role = "ActiveMessage"
       THEN farReady' = farReady \cup {i} /\ UNCHANGED localReady
       ELSE localReady' = localReady \cup {i} /\ UNCHANGED farReady
  /\ UNCHANGED <<provider, role, host, localMsg, thread, farMsg,
                 head, full, remote, credits, nSent, got>>

-----------------------------------------------------------------------------
(* The host's calls.  Each goes through tryMove.                            *)

\* tryMove is entered: only in the ActiveOnly role, and only with something to
\* move, it reads the FPGA's register.
Enter(c, ready) ==
  /\ pc = "idle" /\ pc' = "move"
  /\ call' = c
  /\ answer' = "none"
  /\ nReady' = IF role = "ActiveOnly" /\ nextRemote \in ready THEN NReady ELSE 0

GetBuffer ==
  /\ Enter("get", remoteReady)
  /\ UNCHANGED <<provider, role, host, localReady, localMsg, farReady,
                 farMsg, fpga, nSent, got>>

TryFlush ==
  /\ provider
  /\ Enter("flush", remoteReady)
  /\ UNCHANGED <<provider, role, host, localReady, localMsg, farReady,
                 farMsg, fpga, nSent, got>>

\* Mutant: a host that does not move the data does not ring either.
ReleaseSilent ==
  /\ nextLocal \in busy
  /\ provider => nSent < MaxMessages
  /\ localMsg' = IF provider THEN [localMsg EXCEPT ![nextLocal] = nSent + 1] ELSE localMsg
  /\ nSent' = IF provider THEN nSent + 1 ELSE nSent
  /\ remoteReady' = remoteReady \cup {nextLocal}
  /\ busy' = busy \ {nextLocal}
  /\ nextLocal' = NextLocal(nextLocal)
  /\ Enter("release", remoteReady')
  /\ UNCHANGED <<provider, role, nextRemote, nextFar, localReady, farReady,
                 farMsg, fpga, got>>

\* put and release: the application gives its buffer back, filled or read.
Release ==
  /\ nextLocal \in busy
  /\ provider => nSent < MaxMessages
  /\ localMsg' = IF provider THEN [localMsg EXCEPT ![nextLocal] = nSent + 1] ELSE localMsg
  /\ nSent' = IF provider THEN nSent + 1 ELSE nSent
  /\ remoteReady' = remoteReady \cup {nextLocal}
  /\ busy' = busy \ {nextLocal}
  /\ credits' = IF role = "ActiveFlowControl" THEN credits + 1 ELSE credits
  /\ nextLocal' = NextLocal(nextLocal)
  /\ Enter("release", remoteReady')
  /\ UNCHANGED <<provider, role, nextRemote, nextFar, localReady, farReady,
                 farMsg, head, full, remote, flags, got>>

\* Mutant: a move does not wait for a far buffer.
MayMoveBlind ==
  /\ nextRemote \in remoteReady
  /\ \/ role = "ActiveOnly" /\ nReady > 0
     \/ role = "ActiveMessage"

\* The condition of the loops in tryMove.
MayMove ==
  /\ nextRemote \in remoteReady
  /\ \/ role = "ActiveOnly" /\ nReady > 0
     \/ role = "ActiveMessage" /\ nextFar \in farReady

\* moveData, first the copy, metadata and data.
Copy ==
  /\ pc = "move" /\ MayMove
  /\ pc' = "copied"
  /\ IF provider
       THEN farMsg' = [farMsg EXCEPT ![nextFar] = localMsg[nextRemote]] /\ UNCHANGED localMsg
       ELSE localMsg' = [localMsg EXCEPT ![nextRemote] = farMsg[nextFar]] /\ UNCHANGED farMsg
  /\ UNCHANGED <<provider, role, host, localReady, farReady, call, nReady, answer,
                 fpga, nSent, got>>

\* Mutant: the flag of the far buffer is left up.
ClearFarReadyForgotten ==
  /\ pc = "copied"
  /\ pc' = "cleared"
  /\ UNCHANGED <<provider, role, host, localReady, localMsg, farReady, call, nReady,
                 answer, farMsg, fpga, nSent, got>>

\* Then the flag of the far buffer, before the doorbell lets the FPGA raise it.
ClearFarReady ==
  /\ pc = "copied"
  /\ pc' = "cleared"
  /\ farReady' = farReady \ {nextFar}
  /\ UNCHANGED <<provider, role, host, localReady, localMsg, call, nReady, answer,
                 farMsg, fpga, nSent, got>>

\* Mutant: the far ring does not wrap.
RingFarStraight ==
  /\ pc = "cleared"
  /\ pc' = "move"
  /\ full' = IF provider THEN full + 1 ELSE full - 1
  /\ head' = IF provider THEN head ELSE NextFar(head)
  /\ nextFar' = nextFar + 1
  /\ localReady' = localReady \cup {nextRemote}
  /\ remoteReady' = remoteReady \ {nextRemote}
  /\ nextRemote' = NextLocal(nextRemote)
  /\ nReady' = IF role = "ActiveOnly" THEN nReady - 1 ELSE nReady
  /\ UNCHANGED <<provider, role, nextLocal, busy, localMsg, farReady, call, answer,
                 farMsg, remote, credits, flags, nSent, got>>

\* Mutant: the local buffer stays ready for the remote side.
RingFarStaysReady ==
  /\ pc = "cleared"
  /\ pc' = "move"
  /\ full' = IF provider THEN full + 1 ELSE full - 1
  /\ head' = IF provider THEN head ELSE NextFar(head)
  /\ nextFar' = NextFar(nextFar)
  /\ localReady' = localReady \cup {nextRemote}
  /\ nextRemote' = NextLocal(nextRemote)
  /\ nReady' = IF role = "ActiveOnly" THEN nReady - 1 ELSE nReady
  /\ UNCHANGED <<provider, role, nextLocal, remoteReady, busy, localMsg, farReady,
                 call, answer, farMsg, remote, credits, flags, nSent, got>>

\* Then the doorbell, and both rings advance.
RingFar ==
  /\ pc = "cleared"
  /\ pc' = "move"
  /\ full' = IF provider THEN full + 1 ELSE full - 1
  /\ head' = IF provider THEN head ELSE NextFar(head)
  /\ nextFar' = NextFar(nextFar)
  /\ localReady' = localReady \cup {nextRemote}
  /\ remoteReady' = remoteReady \ {nextRemote}
  /\ nextRemote' = NextLocal(nextRemote)
  /\ nReady' = IF role = "ActiveOnly" THEN nReady - 1 ELSE nReady
  /\ UNCHANGED <<provider, role, nextLocal, busy, localMsg, farReady, call, answer,
                 farMsg, remote, credits, flags, nSent, got>>

Leave(c) ==
  /\ pc = "move" /\ ~MayMove /\ call = c
  /\ pc' = "idle"
  /\ call' = "none"
  /\ nReady' = 0

\* Mutant: the FPGA is told of a taken buffer as if it were given back.
FinishGetRings ==
  /\ Leave("get")
  /\ IF nextLocal \in localReady
       THEN /\ busy' = busy \cup {nextLocal}
            /\ localReady' = localReady \ {nextLocal}
            /\ got' = IF provider THEN got ELSE Append(got, localMsg[nextLocal])
            /\ credits' = IF role = "ActiveFlowControl" THEN credits + 1 ELSE credits
       ELSE UNCHANGED <<busy, localReady, got, credits>>
  /\ UNCHANGED <<provider, role, nextLocal, nextRemote, nextFar, remoteReady,
                 localMsg, farReady, answer, farMsg, head, full, remote, flags, nSent>>

\* getLocal hands out the next local buffer if it is ready.
FinishGet ==
  /\ Leave("get")
  /\ IF nextLocal \in localReady
       THEN /\ busy' = busy \cup {nextLocal}
            /\ localReady' = localReady \ {nextLocal}
            /\ got' = IF provider THEN got ELSE Append(got, localMsg[nextLocal])
       ELSE UNCHANGED <<busy, localReady, got>>
  /\ UNCHANGED <<provider, role, nextLocal, nextRemote, nextFar, remoteReady,
                 localMsg, farReady, answer, farMsg, fpga, nSent>>

\* Mutant: without data to move there is nothing to wait for.
MoreToMove == Moves /\ nextRemote \in remoteReady

\* The answer of tryFlush: there are still buffers to send.
More ==
  IF Moves THEN nextRemote \in remoteReady
           ELSE \E i \in Locals : i \notin localReady

FinishFlush ==
  /\ Leave("flush")
  /\ answer' = IF More THEN "more" ELSE "done"
  /\ UNCHANGED <<provider, role, host, localReady, localMsg, farReady, farMsg, fpga,
                 nSent, got>>

FinishRelease ==
  /\ Leave("release")
  /\ UNCHANGED <<provider, role, host, localReady, localMsg, farReady, answer, farMsg,
                 fpga, nSent, got>>

-----------------------------------------------------------------------------
HostStep == Copy \/ ClearFarReady \/ RingFar \/ FinishGet \/ FinishFlush \/ FinishRelease
HostNext == GetBuffer \/ TryFlush \/ Release \/ HostStep
FarNext == FarTakes \/ FarGives \/ FarMoves \/ \E i \in Locals \cup Fars : FlagArrives(i)

Next == HostNext \/ FarNext

Spec == Init /\ [][Next]_vars

\* A call ends, the application keeps calling and gives back what it has read,
\* and the FPGA goes on.  Who produces owes nothing.
Fairness ==
  /\ WF_vars(HostStep)
  /\ WF_vars(GetBuffer \/ TryFlush)
  /\ SF_vars(~provider /\ Release)
  /\ WF_vars(FarTakes)
  /\ WF_vars(FarMoves)
  /\ \A i \in Locals \cup Fars : WF_vars(FlagArrives(i))

FairSpec == Spec /\ Fairness
-----------------------------------------------------------------------------
(* Properties *)

Content == 0 .. MaxMessages

\* Every variable keeps the range the code gives it.
TypeOK ==
  /\ provider \in BOOLEAN
  /\ role \in {"ActiveMessage", "ActiveFlowControl", "ActiveOnly"}
  /\ {nextLocal, nextRemote, remote} \subseteq Locals
  /\ {nextFar, head} \subseteq Fars
  /\ localReady \cup remoteReady \cup busy \subseteq Locals
  /\ farReady \subseteq Fars
  /\ localMsg \in [Locals -> Content]
  /\ farMsg \in [Fars -> Content]
  /\ pc \in {"idle", "move", "copied", "cleared"}
  /\ call \in {"none", "get", "flush", "release"}
  /\ answer \in {"none", "more", "done"}
  /\ nReady \in 0 .. NumFar
  /\ full \in 0 .. NumFar
  /\ credits \in 0 .. NumLocal
  /\ flags \subseteq (IF role = "ActiveFlowControl" THEN Locals ELSE Fars)
  /\ nSent \in 0 .. MaxMessages
  /\ got \in Seq(Content)

\* The local buffers with the FPGA, or on the way to or from it.
Away == IF Moves THEN remoteReady
                 ELSE {(remote + k) % NumLocal : k \in 0 .. credits - 1} \cup flags

Partition(S, parts) ==
  /\ S = UNION {parts[k] : k \in DOMAIN parts}
  /\ \A k, l \in DOMAIN parts : k # l => parts[k] \cap parts[l] = {}

\* Every local buffer is in one hand: ready for the application, held by it, or
\* away; one that is in two hands is overwritten, one in none is lost (the
\* assertions of getLocal and release).
OneOwner ==
  /\ Partition(Locals, <<localReady, busy, Away>>)
  /\ busy \subseteq {nextLocal}

FullFars == {(head + k) % NumFar : k \in 0 .. full - 1}

\* What the host believes of the far ring is true, and nothing of it is lost:
\* its flags and the ones under way are exactly the buffers that it may move,
\* and the count it works through is never more than there are.
FarKnown ==
  LET Movable == IF provider THEN Fars \ FullFars ELSE FullFars
      Cleared == IF pc = "cleared" THEN {nextFar} ELSE {}
  IN /\ role = "ActiveMessage" => Partition(Movable, <<farReady, flags, Cleared>>)
     /\ role = "ActiveOnly" => nReady <= NReady

\* When tryFlush says that there is nothing left to send, every message put
\* has left the host's buffers.
FlushDone == answer = "done" => nSent = Len(got) + full

\* What the application reads in a buffer does not change while it holds it.
HeldStable ==
  [][~provider => \A i \in busy : localMsg'[i] = localMsg[i]]_vars

\* The link implements the stream: order, integrity, no duplicate, and no more
\* messages outstanding than it has buffers, in every role.
Promise == INSTANCE Stream WITH
  InPorts <- {"port"},
  Messages <- 1 .. MaxMessages,
  Capacity <- NumLocal + NumFar,
  sent <- [k \in 1 .. nSent |-> k],
  got <- [p \in {"port"} |-> got]

InOrder == Promise!Safe

\* With an application that keeps calling and an FPGA that goes on, every
\* message sent is delivered.
Delivered == Promise!Spec
=============================================================================

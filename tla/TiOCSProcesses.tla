-------------------------- MODULE TiOCSProcesses --------------------------
(***************************************************************************)
(* The processes of the TNC tree and their message queue                   *)
(* (Ti-OCSSD/TiOCS.cpp): TiOCSInit opens the System V queue, forks the     *)
(* child, builds the index and runs the benchmark, which exits; the child  *)
(* answers each message for ever.  other_function is the exchange of the   *)
(* parent with its child; no code calls it yet, so here the parent may do  *)
(* so whenever it is not busy.                                             *)
(*                                                                         *)
(* One queue and one message type carry both directions, a child outlives  *)
(* its parent, and the queue, which is named by the directory, outlives    *)
(* both: the program can be started again beside the children of the runs  *)
(* before.  The kernel gives a message to the process that has waited      *)
(* longest.  Children are not killed.  MaxRuns bounds the runs.            *)
(***************************************************************************)
EXTENDS Integers, FiniteSets, SequencesExt

CONSTANTS
  MaxRuns,
  Rounds              \* 3
ASSUME ProcessesAssumption == MaxRuns \in Nat \ {0} /\ Rounds \in Nat \ {0}

VARIABLES
  runno,              \* the number of the parent's run, and of its child
  at,                 \* where each process is
  round,              \* i + 1 of other_function, 0 outside
  queued,             \* messages in the queue
  waiters,            \* the processes blocked in msgrcv, the first come first
  stranded            \* history: exchanges their parent did not finish

procvars == <<runno, at, round, queued, waiters, stranded>>

Parent == 0
Child == 1 .. MaxRuns
Process == {Parent} \cup Child
Alive == {"msgget", "fork", "index", "ready", "sending", "receiving", "blocked"}
Awaiting == {"receiving", "blocked"}

ProcInit ==
  /\ runno = 1
  /\ at = [p \in Process |-> IF p = Parent THEN "msgget" ELSE "none"]
  /\ round = 0
  /\ queued = 0
  /\ waiters = << >>
  /\ stranded = 0

-----------------------------------------------------------------------------
\* TiOCSInit, sub_process_init and print_init_info.
OpenQueue ==
  /\ at[Parent] = "msgget"
  /\ \E next \in {"fork", "ended"} : at' = [at EXCEPT ![Parent] = next]
  /\ UNCHANGED <<runno, round, queued, waiters, stranded>>

\* A fork that fails is reported, and the parent goes on without a child.
Fork ==
  /\ at[Parent] = "fork"
  /\ \E child \in {"receiving", "none"} :
       at' = [at EXCEPT ![Parent] = "index", ![runno] = child]
  /\ UNCHANGED <<runno, round, queued, waiters, stranded>>

BuildIndex ==
  /\ at[Parent] = "index"
  /\ \E next \in {"ready", "ended"} : at' = [at EXCEPT ![Parent] = next]
  /\ UNCHANGED <<runno, round, queued, waiters, stranded>>

-----------------------------------------------------------------------------
\* Mutant of Received: a child takes the message without an answer.
ReceivedOnly(p) ==
  IF p # Parent THEN "receiving" ELSE IF round < Rounds THEN "sending" ELSE "ready"

\* p has received a message: the parent sends its next one or is done, a child
\* answers.
Received(p) ==
  IF p # Parent THEN "answering" ELSE IF round < Rounds THEN "sending" ELSE "ready"
NextRound(p) ==
  IF p # Parent THEN round ELSE IF round < Rounds THEN round + 1 ELSE 0

\* p has sent a message and goes to "next": the first waiter gets it, or it is queued.
Sent(p, next) ==
  IF waiters = << >>
  THEN /\ queued' = queued + 1
       /\ at' = [at EXCEPT ![p] = next]
       /\ UNCHANGED <<waiters, round>>
  ELSE /\ at' = [at EXCEPT ![p] = next, ![Head(waiters)] = Received(Head(waiters))]
       /\ round' = NextRound(Head(waiters))
       /\ waiters' = Tail(waiters)
       /\ UNCHANGED queued

Exchange ==
  /\ at[Parent] = "ready"
  /\ at' = [at EXCEPT ![Parent] = "sending"]
  /\ round' = 1
  /\ UNCHANGED <<runno, queued, waiters, stranded>>

Send == at[Parent] = "sending" /\ Sent(Parent, "receiving") /\ UNCHANGED <<runno, stranded>>

\* Mutant of Answer: a child answers only while somebody waits.
AnswerIfAwaited(c) ==
  /\ at[c] = "answering"
  /\ IF waiters # << >> THEN Sent(c, "receiving")
     ELSE at' = [at EXCEPT ![c] = "receiving"] /\ UNCHANGED <<round, queued, waiters>>
  /\ UNCHANGED <<runno, stranded>>

\* The answer is of the type it received, so it may as well be taken by a child.
Answer(c) == at[c] = "answering" /\ Sent(c, "receiving") /\ UNCHANGED <<runno, stranded>>

\* The parent asks for any type, a child for type 1: all messages are of that.
Receive(p) ==
  /\ at[p] = "receiving"
  /\ IF queued > 0
     THEN /\ queued' = queued - 1
          /\ at' = [at EXCEPT ![p] = Received(p)]
          /\ round' = NextRound(p)
          /\ UNCHANGED waiters
     ELSE /\ waiters' = Append(waiters, p)
          /\ at' = [at EXCEPT ![p] = "blocked"]
          /\ UNCHANGED <<queued, round>>
  /\ UNCHANGED <<runno, stranded>>

-----------------------------------------------------------------------------
\* The parent is gone: the benchmark has called exit, a send has failed or it was
\* killed.  The lines that remove the queue and wait for the child are not reached.
End ==
  /\ at[Parent] \in Alive
  /\ at' = [at EXCEPT ![Parent] = "ended"]
  /\ round' = 0
  /\ \/ at[Parent] # "blocked" /\ UNCHANGED waiters
     \/ \E i \in DOMAIN waiters : waiters[i] = Parent /\ waiters' = RemoveAt(waiters, i)
  /\ stranded' = IF at[Parent] \in Awaiting THEN stranded + 1 ELSE stranded
  /\ UNCHANGED <<runno, queued>>

\* The program is started again; msgget finds the queue of before.
Restart ==
  /\ at[Parent] = "ended"
  /\ runno < MaxRuns
  /\ runno' = runno + 1
  /\ at' = [at EXCEPT ![Parent] = "msgget"]
  /\ UNCHANGED <<round, queued, waiters, stranded>>

ProcNext ==
  \/ OpenQueue \/ Fork \/ BuildIndex
  \/ Exchange \/ Send \/ End \/ Restart
  \/ \E c \in Child : Answer(c)
  \/ \E p \in Process : Receive(p)

\* A process that can go on does, sooner or later.
ProcFairness ==
  /\ \A c \in Child : WF_procvars(Answer(c))
  /\ \A p \in Process : WF_procvars(Receive(p))

ProcSpec == ProcInit /\ [][ProcNext]_procvars /\ ProcFairness

-----------------------------------------------------------------------------
\* The state is well formed: the waiters are the processes blocked, and none waits
\* while there is a message.
ProcTypeOK ==
  /\ runno \in 1 .. MaxRuns
  /\ at[Parent] \in Alive \cup {"ended"}
  /\ \A c \in Child : at[c] \in {"none", "receiving", "blocked", "answering"}
  /\ round \in 0 .. Rounds
  /\ \A p \in Process : at[p] = "blocked" <=> \E i \in DOMAIN waiters : waiters[i] = p
  /\ Len(waiters) = Cardinality({p \in Process : at[p] = "blocked"})
  /\ waiters # << >> => queued = 0

\* No message is lost and none is answered twice, although anyone may take any: in
\* the queue and with the children there is one for the exchange the parent is in
\* and one for each exchange that a parent before left, and these go round for ever.
InFlight ==
  queued + Cardinality({c \in Child : at[c] = "answering"})
    = stranded + (IF at[Parent] \in Awaiting THEN 1 ELSE 0)

\* A parent that waits for an answer gets a message, be it its own, when there is
\* no child, or one meant for somebody else: it is never left waiting.
ExchangeEnds == at[Parent] \in Awaiting ~> at[Parent] \notin Awaiting
=============================================================================

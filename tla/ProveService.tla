---------------------------- MODULE ProveService ----------------------------
(***************************************************************************)
(* What the prover server promises to those who call it, with none of its  *)
(* threads, files or keys: every call of its two methods is answered, a    *)
(* proof comes only for a trace that passed the checks of the handler and  *)
(* can be proved, a refusal only for a request that does not pass them,    *)
(* and a connection is dropped without an answer only for a reason: the    *)
(* trace cannot be proved, the server's directory was not ready, or the    *)
(* server or its disk fails.                                               *)
(***************************************************************************)
EXTENDS Naturals

CONSTANTS
  Calls,          \* the calls made in a behaviour; a retry is another call
  Requests,       \* what a call may ask
  Asks(_),        \* does the request ask for a proof (or for the spec)?
  Admissible(_),  \* does the request pass the checks of the handler?
  Provable(_),    \* can its trace be proved by the circuits it asks for?
  Forfeits(_)     \* does it ask what the configuration cannot give?

VARIABLES
  request,        \* what each call asks
  answer,         \* what each call has got so far
  faults,         \* crashes and disk failures so far
  unlucky         \* calls that were served while there was no whole seed file

\* The server's directory, which changes as it likes.
VARIABLES
  paramsReady,    \* both parameter files are in place
  seedReady       \* the seed file is there and whole

serviceVars == <<request, answer, faults, unlucky>>

Answers == {"unsent", "waiting", "proof", "spec", "refused", "dropped", "timeout"}

ServiceInit ==
  /\ request \in [Calls -> Requests]
  /\ answer = [i \in Calls |-> "unsent"]
  /\ faults = 0
  /\ unlucky = {}

\* Calls that are over need not be remembered.
Becomes(i, from, to) ==
  /\ answer[i] = from
  /\ answer' = [answer EXCEPT ![i] = to]
  /\ unlucky' \subseteq unlucky
  /\ UNCHANGED <<request, faults>>

Send(i) == Becomes(i, "unsent", "waiting")

GiveUp(i) == Becomes(i, "waiting", "timeout")

AnswerSpec(i) == ~ Asks(request[i]) /\ Becomes(i, "waiting", "spec")

AnswerProof(i) ==
  /\ Asks(request[i]) /\ Admissible(request[i]) /\ Provable(request[i])
  /\ Becomes(i, "waiting", "proof")

Refuse(i) ==
  /\ Asks(request[i]) /\ ~ Admissible(request[i])
  /\ Becomes(i, "waiting", "refused")

Drop(i) ==
  /\ Asks(request[i]) /\ Admissible(request[i])
  /\ \/ ~ Provable(request[i]) \/ Forfeits(request[i])
     \/ ~ paramsReady
     \/ i \in unlucky
  /\ Becomes(i, "waiting", "dropped")

\* Serving the call meets a directory without a whole seed file.
MeetNoSeed(i) ==
  /\ answer[i] # "unsent" /\ ~ seedReady
  /\ unlucky' = unlucky \cup {i}
  /\ UNCHANGED <<request, answer, faults>>

Forget ==
  /\ unlucky' \subseteq unlucky
  /\ UNCHANGED <<request, answer, faults>>

\* A failure may take any of the waiting calls with it.
Fail ==
  /\ faults' = faults + 1
  /\ answer' \in [Calls -> Answers]
  /\ \A i \in Calls :
       \/ answer'[i] = answer[i]
       \/ answer[i] = "waiting" /\ answer'[i] = "dropped"
  /\ unlucky' \subseteq unlucky
  /\ UNCHANGED request

ServiceNext ==
  \/ Fail \/ Forget
  \/ \E i \in Calls :
       \/ Send(i) \/ GiveUp(i) \/ MeetNoSeed(i)
       \/ AnswerSpec(i) \/ AnswerProof(i) \/ Refuse(i) \/ Drop(i)

\* Every call is answered in the end, or its caller gives up.
ServiceSpec ==
  /\ ServiceInit
  /\ [][ServiceNext]_serviceVars
  /\ \A i \in Calls : answer[i] = "waiting" ~> answer[i] # "waiting"
=============================================================================

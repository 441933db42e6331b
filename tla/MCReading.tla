----------------------------- MODULE MCReading -----------------------------
(* What a client that reads a history meets: the limiter in front of the    *)
(* gateway's routes, and the pages.  They share no state, and a request     *)
(* that the limiter refuses reaches no handler, so that an order of steps   *)
(* of the one among those of the other tells nothing: the instance takes    *)
(* either.  Four messages in two moments, so that created_at ties, and      *)
(* pages of one and two; a limit of three requests in four ticks.           *)
EXTENDS MessageHistory, RateLimit

VARIABLE part

readingVars == <<part, vars, limitVars>>

Limiting == part = "limiter" /\ UNCHANGED <<part, vars>>
History == part = "history" /\ UNCHANGED <<part, limitVars>>

ReadingInit ==
  /\ part \in {"limiter", "history"}
  /\ Init
  /\ LimitInit /\ (part = "history" => limiter = "gateway")

ReadingNext == (LimitNext /\ Limiting) \/ (Next /\ History)

(* The fairness of FairLimitSpec and of Spec. *)
ReadingSpec ==
  /\ ReadingInit /\ [][ReadingNext]_readingVars
  /\ WF_readingVars(Tick /\ Limiting)
  /\ WF_readingVars(Reads /\ History)

=============================================================================

---------------------------- MODULE BatchLiveness ---------------------------
(***************************************************************************)
(* BatchSettlement where the facilitator need not answer.  No call to it   *)
(* has a timeout (`reqwest::Client::new()`), so a run that waits for an    *)
(* answer may wait forever: the periodic loop then never fires again, and  *)
(* a triggered run never returns.  Only of one run, which the environment  *)
(* picks, nobody knows which, are the calls answered.                      *)
(***************************************************************************)
EXTENDS BatchSettlement

VARIABLE prompt   \* the run whose calls are answered

LiveInit == Init /\ prompt \in Runs

LiveNext == Next /\ UNCHANGED prompt

liveVars == <<vars, prompt>>

(***************************************************************************)
(* The timer of the periodic task fires again and again, or an operator    *)
(* triggers the prompt run again and again; tokio polls a task whose       *)
(* answer has arrived; and the facilitator does not fail that run forever: *)
(* of infinitely many of its calls some are executed and answered.         *)
(***************************************************************************)
Fairness ==
  \A k \in Runs :
    LET Prompt(A) == prompt = k /\ A /\ UNCHANGED <<req, prompt>> IN
    /\ WF_liveVars(Prompt(StartRun(k)))
    /\ SF_liveVars(Prompt(ClaimExecuted(k)))
    /\ SF_liveVars(Prompt(PostSettle(k)))
    /\ SF_liveVars(Prompt(SettleExecuted(k)))
    /\ SF_liveVars(Prompt(Reconcile(k)))

FairSpec == LiveInit /\ [][LiveNext]_liveVars /\ Fairness

(***************************************************************************)
(* Whatever a channel has been charged is eventually paid out to the       *)
(* receiver, if the process stays up and each channel is funded once:      *)
(* every other run may hang at a call to the facilitator, and so may every *)
(* request, because none holds the lock or anything else a run needs over  *)
(* an await (main.rs, `run_claim_settle`).                                 *)
(***************************************************************************)
ChargesArePaidOut ==
  \A c \in Cids, m \in Vouchers :
    (c \in Present /\ channels[c].charged = m) ~> settled[c] >= m
=============================================================================

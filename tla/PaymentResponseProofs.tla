------------------------ MODULE PaymentResponseProofs -----------------------
(***************************************************************************)
(* A buyer that goes by the PAYMENT-RESPONSE header is served to the end   *)
(* of its deposit, for every value of the constants that funds each        *)
(* channel once (OneDeposit).                                              *)
(***************************************************************************)
EXTENDS PaymentResponse, OneDepositProofs

-----------------------------------------------------------------------------
(* PaymentResponse adds variables to BatchSettlement and no behaviour *)

LEMMA ToldStep ==
  ASSUME [ToldNext]_toldVars
  PROVE  [Next]_vars
<1>1. ASSUME NEW r \in Reqs, NEW c \in Cids, NEW max \in Vouchers, Voucher(r, c, max)
      PROVE  Next
  BY <1>1 DEF Voucher, Next, HandlerNext
<1>2. ASSUME NEW r \in Reqs, Open(r) \/ Serve(r) \/ Fail(r) \/ Proceed(r)
      PROVE  Next
  BY <1>2 DEF Open, Serve, Fail, Proceed, Next, HandlerNext
<1>3. CASE Forget
  BY <1>3 DEF Forget, Next
<1> QED BY <1>1, <1>2, <1>3 DEF ToldNext, toldVars, Next

(***************************************************************************)
(* The router with its answers behaves as the router without, so what is   *)
(* proved of BatchSettlement holds of it.                                  *)
(***************************************************************************)
THEOREM ToldIsBatchSettlement == ToldSpec => Spec
<1>1. ToldInit => Init
  BY DEF ToldInit
<1>2. [ToldNext]_toldVars => [Next]_vars
  BY ToldStep
<1> QED BY <1>1, <1>2, PTL DEF ToldSpec, Spec

-----------------------------------------------------------------------------
(* What an answer says stays true while nobody else uses the channel *)

ChannelAnswer == [charged : U128, balance : U128, totalClaimed : U128]

\* The charge and the balance of an answer are the present ones, and nothing
\* that was or will be written off exceeds that charge.
Current(c, answer) ==
  /\ channels[c] # None
  /\ channels[c].charged = answer.charged
  /\ channels[c].balance = answer.balance
  /\ channels[c].lastMax = answer.charged
  /\ channels[c].totalClaimed <= answer.charged
  /\ \A k \in Runs : c \in DOMAIN run[k].batch => run[k].batch[c] <= answer.charged

\* One buyer that follows has one request in flight, and no other answer.
Carries(r) ==
  carried[r] # None =>
    /\ req[r].pc = "upstream" /\ req[r].cid \in Cids
    /\ Current(req[r].cid, carried[r])
    /\ told[req[r].cid] = None
    /\ \A s \in Reqs \ {r} : carried[s] # None => req[s].cid # req[r].cid

ToldInv ==
  /\ carried \in [Reqs -> ChannelAnswer \cup {None}]
  /\ told \in [Cids -> ChannelAnswer \cup {None}]
  /\ \A r \in Reqs : Carries(r)
  /\ \A c \in Cids : told[c] # None => Current(c, told[c])

Known == BatchInv /\ BatchInv' /\ OneDepositInv

\* A step that leaves the entry or writes a batch back to it.
Quiet(c) == Untouched(c) \/ \E k \in Runs : WrittenBackBy(k, c)

LEMMA CurrentStays ==
  ASSUME Known, [Next]_vars, NEW c \in Cids, NEW answer, Current(c, answer), Quiet(c)
  PROVE  Current(c, answer)'
<1>1. channels[c] \in ChannelState /\ channels[c].lastMax \in Nat
  BY Constants
     DEF Current, Known, BatchInv, TypeInv, TypeOK, TableTypeOK, ChannelState, U128
<1>2. \A k \in Runs : c \in DOMAIN run'[k].batch => run'[k].batch[c] <= answer.charged
  <2> SUFFICES ASSUME NEW k \in Runs, c \in DOMAIN run'[k].batch
               PROVE  run'[k].batch[c] <= answer.charged
    OBVIOUS
  <2>1. CASE run'[k].batch = run[k].batch
    BY <2>1 DEF Current
  <2>2. CASE run'[k].batch[c] = channels[c].lastMax
    BY <1>1, <2>2 DEF Current
  <2> QED BY <2>1, <2>2, BatchSteps DEF Known, BatchInv
<1>3. CASE Untouched(c)
  BY <1>2, <1>3 DEF Untouched, Current
<1>4. ASSUME NEW k \in Runs, WrittenBackBy(k, c)
      PROVE  Current(c, answer)'
  <2>1. channels'[c] = [channels[c] EXCEPT !.totalClaimed = run[k].batch[c]]
    BY <1>4 DEF WrittenBackBy
  <2>2. run[k].batch[c] \in U128 /\ run[k].batch[c] <= answer.charged
    BY <1>4, BatchOf DEF WrittenBackBy, Current, Known, BatchInv
  <2>3. channels'[c] \in ChannelState
    BY <1>1, <2>1, <2>2 DEF ChannelState
  <2>4. channels'[c] # None
    BY <2>3, EntryAssumption
  <2>5. /\ channels'[c].charged = channels[c].charged
        /\ channels'[c].balance = channels[c].balance
        /\ channels'[c].lastMax = channels[c].lastMax
        /\ channels'[c].totalClaimed = run[k].batch[c]
    BY <1>1, <2>1 DEF ChannelState
  <2> QED BY <1>2, <2>2, <2>4, <2>5 DEF Current
<1> QED BY <1>3, <1>4 DEF Quiet

\* A step on which no buyer starts to follow.
LEMMA NobodyFollows ==
  ASSUME Known, ToldInv, [Next]_vars,
         carried' \in [Reqs -> ChannelAnswer \cup {None}],
         told' \in [Cids -> ChannelAnswer \cup {None}],
         \A r \in Reqs : carried'[r] # None =>
           /\ carried'[r] = carried[r] /\ req'[r] = req[r]
           /\ Quiet(req[r].cid) /\ told'[req[r].cid] = None,
         \A c \in Cids : told'[c] # None => Current(c, told[c])'
  PROVE  ToldInv'
<1>1. ASSUME NEW r \in Reqs, carried'[r] # None
      PROVE  Current(req[r].cid, carried[r])'
  <2> DEFINE c == req[r].cid
             answer == carried[r]
  <2>1. c \in Cids /\ Current(c, answer) /\ Quiet(c)
    BY <1>1 DEF ToldInv, Carries
  <2>2. PICK d \in Cids, a \in ChannelAnswer : d = c /\ a = answer
    BY <1>1, <2>1 DEF ToldInv
  <2>3. Current(d, a) /\ Quiet(d)
    BY <2>1, <2>2
  <2>4. Current(d, a)'
    BY <2>3, CurrentStays
  <2> QED BY <1>1, <2>2, <2>4 DEF Current
<1>2. ASSUME NEW r \in Reqs PROVE Carries(r)'
  BY <1>1, <1>2 DEF ToldInv, Carries
<1> QED BY <1>2 DEF ToldInv

\* A step on which the buyer of channel c follows with slot r.
LEMMA SomebodyFollows ==
  ASSUME Known, ToldInv, [Next]_vars, NEW r \in Reqs, NEW c \in Cids,
         NEW answer \in ChannelAnswer, answer = ChannelStateOf(c), Follows(r, c),
         Current(c, answer)',
         req'[r].pc = "upstream", req'[r].cid = c,
         \A s \in Reqs \ {r} :
           req'[s] = req[s] /\ (carried[s] # None => req[s].cid # c),
         \A d \in Cids \ {c} : Quiet(d)
  PROVE  ToldInv'
<1>1. /\ carried' = [carried EXCEPT ![r] = answer]
      /\ told' = [told EXCEPT ![c] = None]
  BY DEF Follows
<1>2. /\ carried' \in [Reqs -> ChannelAnswer \cup {None}]
      /\ told' \in [Cids -> ChannelAnswer \cup {None}]
      /\ carried'[r] = answer /\ told'[c] = None
  BY <1>1 DEF ToldInv
<1>3. ASSUME NEW d \in Cids, told'[d] # None PROVE Current(d, told[d])'
  <2>1. d # c /\ told'[d] = told[d] /\ told[d] # None
    BY <1>1, <1>2, <1>3 DEF ToldInv
  <2>2. PICK a \in ChannelAnswer : a = told[d]
    BY <2>1 DEF ToldInv
  <2>3. Current(d, a) /\ Quiet(d)
    BY <2>1, <2>2 DEF ToldInv
  <2>4. Current(d, a)'
    BY <2>3, CurrentStays
  <2> QED BY <2>1, <2>2, <2>4 DEF Current
<1>4. ASSUME NEW s \in Reqs \ {r}, carried'[s] # None
      PROVE  /\ carried'[s] = carried[s] /\ req'[s] = req[s]
             /\ req[s].cid \in Cids \ {c} /\ Current(req[s].cid, carried[s])'
  <2>1. carried'[s] = carried[s]
    BY <1>1 DEF ToldInv
  <2>2. req[s].cid \in Cids \ {c} /\ Current(req[s].cid, carried[s])
    BY <1>4, <2>1 DEF ToldInv, Carries
  <2>3. PICK d \in Cids, a \in ChannelAnswer : d = req[s].cid /\ a = carried[s]
    BY <1>4, <2>1, <2>2 DEF ToldInv
  <2>4. Current(d, a) /\ Quiet(d)
    BY <2>2, <2>3
  <2>5. Current(d, a)'
    BY <2>4, CurrentStays
  <2>6. req'[s] = req[s]
    OBVIOUS
  <2> QED BY <2>1, <2>2, <2>3, <2>5, <2>6 DEF Current
<1>5. Carries(r)'
  BY <1>2, <1>4 DEF Carries, Current
<1>6. ASSUME NEW s \in Reqs \ {r} PROVE Carries(s)'
  <2> SUFFICES ASSUME carried'[s] # None PROVE Carries(s)'
    BY DEF Carries
  <2>1. /\ carried'[s] = carried[s] /\ req'[s] = req[s]
        /\ req[s].cid \in Cids \ {c} /\ Current(req[s].cid, carried[s])'
    BY <1>4
  <2>2. req[s].pc = "upstream" /\ told[req[s].cid] = None
    BY <2>1 DEF ToldInv, Carries
  <2>3. told'[req'[s].cid] = None
    BY <1>1, <2>1, <2>2 DEF ToldInv
  <2>4. ASSUME NEW q \in Reqs \ {s}, carried'[q] # None PROVE req'[q].cid # req'[s].cid
    <3>1. CASE q = r
      BY <2>1, <3>1
    <3>2. CASE q # r
      BY <1>4, <2>1, <2>4, <3>2 DEF ToldInv, Carries
    <3> QED BY <3>1, <3>2
  <2> QED BY <2>1, <2>2, <2>3, <2>4 DEF Carries
<1> QED BY <1>2, <1>3, <1>5, <1>6 DEF ToldInv

\* A step on which somebody else uses channel c, with slot r.
LEMMA SomebodyStrays ==
  ASSUME Known, ToldInv, [Next]_vars, NEW r \in Reqs, NEW c \in Cids, Strays(c),
         carried[r] = None,
         \A s \in Reqs \ {r} : req'[s] = req[s],
         \A d \in Cids \ {c} : Quiet(d)
  PROVE  ToldInv'
<1>1. /\ carried' = [s \in Reqs |-> IF req[s].cid = c THEN None ELSE carried[s]]
      /\ told' = [told EXCEPT ![c] = None]
  BY DEF Strays
<1>2. /\ carried' \in [Reqs -> ChannelAnswer \cup {None}]
      /\ told' \in [Cids -> ChannelAnswer \cup {None}]
  BY <1>1 DEF ToldInv
<1>3. ASSUME NEW s \in Reqs, carried'[s] # None
      PROVE  /\ carried'[s] = carried[s] /\ req'[s] = req[s]
             /\ Quiet(req[s].cid) /\ told'[req[s].cid] = None
  <2>1. carried'[s] = carried[s] /\ req[s].cid # c /\ s # r
    BY <1>1, <1>3
  <2>2. req[s].cid \in Cids /\ told[req[s].cid] = None
    BY <1>3, <2>1 DEF ToldInv, Carries
  <2> QED BY <1>1, <2>1, <2>2 DEF ToldInv
<1>4. ASSUME NEW d \in Cids, told'[d] # None PROVE Current(d, told[d])'
  <2>1. d # c /\ told'[d] = told[d]
    BY <1>1, <1>4 DEF ToldInv
  <2>2. PICK a \in ChannelAnswer : a = told[d]
    BY <1>4, <2>1 DEF ToldInv
  <2>3. Current(d, a) /\ Quiet(d)
    BY <1>4, <2>1, <2>2 DEF ToldInv
  <2>4. Current(d, a)'
    BY <2>3, CurrentStays
  <2> QED BY <2>1, <2>2, <2>4 DEF Current
<1> QED BY <1>2, <1>3, <1>4, NobodyFollows

-----------------------------------------------------------------------------
(* The invariant, action by action *)

LEMMA VoucherKeeps ==
  ASSUME Known, ToldInv, [Next]_vars,
         NEW r \in Reqs, NEW c \in Cids, NEW max \in Vouchers, Voucher(r, c, max)
  PROVE  ToldInv'
<1>1. /\ req \in [Reqs -> Request] /\ channels \in [Cids -> ChannelState \cup {None}]
      /\ channels' \in [Cids -> ChannelState \cup {None}]
  BY DEF Known, BatchInv, TypeInv, TypeOK, HandlerTypeOK, TableTypeOK
<1>2. /\ req'[r].pc = "upstream" /\ req'[r].cid = c
      /\ \A s \in Reqs \ {r} : req'[s] = req[s]
  BY <1>1 DEF Voucher, AdmitVoucher, Become, Blank
<1>3. \A d \in Cids \ {c} : Quiet(d)
  BY <1>1 DEF Voucher, AdmitVoucher, HandOver, Quiet, Untouched
<1>4. carried[r] = None
  BY DEF ToldInv, Carries, Voucher, AdmitVoucher, Answered
<1>5. CASE Strays(c)
  BY <1>2, <1>3, <1>4, <1>5, SomebodyStrays
<1>6. CASE told[c] # None /\ max = NextCeiling(c) /\ Follows(r, c)
  <2>1. Current(c, told[c])
    BY <1>6 DEF ToldInv
  <2>2. channels'[c] = [channels[c] EXCEPT !.charged = max, !.lastMax = max]
    BY <1>1 DEF Voucher, AdmitVoucher, Charge
  <2>3. channels[c] \in ChannelState /\ max \in U128
    BY <1>1, <2>1, Constants DEF Current
  <2>4. channels'[c] \in ChannelState
    BY <2>2, <2>3 DEF ChannelState
  <2>5. /\ channels'[c].charged = max /\ channels'[c].lastMax = max
        /\ channels'[c].totalClaimed = channels[c].totalClaimed
        /\ channels'[c] # None
    BY <2>2, <2>3, <2>4, EntryAssumption DEF ChannelState
  <2>6. told[c].charged \in Nat /\ told[c].charged <= max
    <3>1. told[c].charged \in Nat
      BY <1>6, Constants DEF ToldInv, ChannelAnswer, U128
    <3> QED BY <1>6, <3>1, Constants DEF NextCeiling, U128
  <2>7. PICK answer \in ChannelAnswer : answer = ChannelStateOf(c)
    BY <2>4 DEF ChannelStateOf, ChannelState, ChannelAnswer
  <2>8. answer.charged = max /\ answer.balance = channels'[c].balance
    BY <2>5, <2>7 DEF ChannelStateOf
  <2>9. channels'[c].totalClaimed <= max
    BY <2>1, <2>3, <2>5, <2>6, Constants DEF Current, ChannelState, U128
  <2>10. \A k \in Runs : c \in DOMAIN run'[k].batch => run'[k].batch[c] <= max
    <3>1. run' = run
      BY DEF Voucher
    <3> SUFFICES ASSUME NEW k \in Runs, c \in DOMAIN run[k].batch
                 PROVE  run[k].batch[c] <= max
      BY <3>1
    <3>2. run[k].batch[c] \in Nat /\ run[k].batch[c] <= told[c].charged
      BY <2>1, BatchOf, Constants DEF Current, Known, BatchInv, U128
    <3> QED BY <2>3, <2>6, <3>2, Constants DEF U128
  <2>11. Current(c, answer)'
    BY <2>5, <2>8, <2>9, <2>10 DEF Current
  <2>12. \A s \in Reqs \ {r} : carried[s] # None => req[s].cid # c
    BY <1>6 DEF ToldInv, Carries
  <2> QED BY <1>2, <1>3, <1>6, <2>7, <2>11, <2>12, SomebodyFollows
<1> QED BY <1>5, <1>6 DEF Voucher

LEMMA OpenKeeps ==
  ASSUME Known, ToldInv, [Next]_vars, OneDeposit, NEW r \in Reqs, Open(r)
  PROVE  ToldInv'
<1>1. /\ req \in [Reqs -> Request] /\ req[r] \in Request
      /\ channels \in [Cids -> ChannelState \cup {None}]
      /\ channels' \in [Cids -> ChannelState \cup {None}]
  BY DEF Known, BatchInv, TypeInv, TypeOK, HandlerTypeOK, TableTypeOK
<1>2. req[r].cid \in Cids /\ req[r].pc = "settled"
  BY DEF Open, OpenChannel, InFlight, Known, BatchInv, TypeInv, RequestWF
<1> PICK c \in Cids : c = req[r].cid
  BY <1>2
<1>3. /\ req'[r].pc = "upstream" /\ req'[r].cid = c
      /\ \A s \in Reqs \ {r} : req'[s] = req[s]
  BY <1>1 DEF Open, OpenChannel, Become, Request
<1>4. \A d \in Cids \ {c} : Quiet(d)
  BY <1>1 DEF Open, OpenChannel, HandOver, Quiet, Untouched
<1>5. carried[r] = None
  BY <1>2 DEF ToldInv, Carries
<1>6. CASE Strays(c)
  BY <1>2, <1>3, <1>4, <1>5, <1>6, SomebodyStrays
<1>7. CASE channels[c] = None /\ req[r].max = Amount /\ Follows(r, c)
  <2>1. channels'[c] = Opened(req[r].max, req[r].snap)
    BY <1>1, <1>2 DEF Open, OpenChannel
  <2>2. channels'[c] \in ChannelState /\ channels'[c] # None
    BY <1>1, <2>1, OpenedType, EntryAssumption DEF Request
  <2>4. OpenedBy(r, c)
    BY <1>2, <1>3, <2>1 DEF OpenedBy
  <2>5. req[r].snap.totalClaimed = 0 /\ \A k \in Runs : c \notin DOMAIN run[k].batch
    BY <1>2, <2>4, OpeningOfEntry DEF Known, OneDepositInv
  <2>6. /\ channels'[c].charged = Amount /\ channels'[c].lastMax = Amount
        /\ channels'[c].totalClaimed = 0
    BY <1>7, <2>1, <2>5 DEF Opened
  <2>7. PICK answer \in ChannelAnswer : answer = ChannelStateOf(c)
    BY <2>2 DEF ChannelStateOf, ChannelState, ChannelAnswer
  <2>8. answer.charged = Amount /\ answer.balance = channels'[c].balance
    BY <2>6, <2>7 DEF ChannelStateOf
  <2>9. /\ 0 <= Amount
        /\ \A k \in Runs : c \notin DOMAIN run'[k].batch
    <3>1. run' = run
      BY DEF Open
    <3> QED BY <2>5, <3>1, Constants DEF U128
  <2>10. Current(c, answer)'
    BY <2>2, <2>6, <2>8, <2>9 DEF Current
  <2>11. \A s \in Reqs \ {r} : carried[s] # None => req[s].cid # c
    BY <1>7 DEF ToldInv, Carries, Current
  <2> QED BY <1>2, <1>3, <1>4, <1>7, <2>7, <2>10, <2>11, SomebodyFollows
<1> QED BY <1>6, <1>7 DEF Open

\* The answer of slot r is sent, or lost.
LEMMA AnswerKeeps ==
  ASSUME Known, ToldInv, [Next]_vars, NEW r \in Reqs, Serve(r) \/ Fail(r)
  PROVE  ToldInv'
<1>1. req \in [Reqs -> Request]
  BY DEF Known, BatchInv, TypeInv, TypeOK, HandlerTypeOK
<1>2. /\ UNCHANGED tableVars /\ carried' = [carried EXCEPT ![r] = None]
      /\ \A s \in Reqs \ {r} : req'[s] = req[s]
  BY <1>1 DEF Serve, Fail, UpstreamServes, UpstreamFails, DropRequest, Respond, Become
<1>3. \A d \in Cids : Quiet(d)
  BY <1>2 DEF tableVars, historyVars, Quiet, Untouched
<1>4. told' = told \/ /\ carried[r] # None
                      /\ told' = [told EXCEPT ![req[r].cid] = carried[r]]
  BY DEF Serve, Fail
<1>5. /\ carried' \in [Reqs -> ChannelAnswer \cup {None}]
      /\ told' \in [Cids -> ChannelAnswer \cup {None}]
  BY <1>2, <1>4 DEF ToldInv
<1>6. ASSUME NEW s \in Reqs, carried'[s] # None
      PROVE  /\ carried'[s] = carried[s] /\ req'[s] = req[s]
             /\ Quiet(req[s].cid) /\ told'[req[s].cid] = None
  <2>1. s # r /\ carried'[s] = carried[s]
    BY <1>2, <1>6 DEF ToldInv
  <2>2. req[s].cid \in Cids /\ told[req[s].cid] = None
    BY <1>6, <2>1 DEF ToldInv, Carries
  <2>3. carried[r] # None => req[r].cid # req[s].cid
    BY <1>6, <2>1 DEF ToldInv, Carries
  <2> QED BY <1>2, <1>3, <1>4, <2>1, <2>2, <2>3 DEF ToldInv
<1>7. ASSUME NEW d \in Cids, told'[d] # None PROVE Current(d, told[d])'
  <2>1. Current(d, told'[d])
    BY <1>4, <1>7 DEF ToldInv, Carries
  <2>2. PICK a \in ChannelAnswer : a = told'[d]
    BY <1>5, <1>7
  <2>3. Current(d, a)
    BY <2>1, <2>2
  <2>4. Current(d, a)'
    BY <1>3, <2>3, CurrentStays
  <2> QED BY <2>2, <2>4 DEF Current
<1> QED BY <1>5, <1>6, <1>7, NobodyFollows

\* Every other step leaves the answers alone.
LEMMA OthersKeep ==
  ASSUME Known, ToldInv, [Next]_vars, UNCHANGED answerVars,
         \A c \in Cids : Quiet(c),
         \A r \in Reqs : req'[r] = req[r] \/ req[r].pc # "upstream"
  PROVE  ToldInv'
<1>1. carried' = carried /\ told' = told
  BY DEF answerVars
<1>2. \A r \in Reqs : carried'[r] # None =>
        /\ carried'[r] = carried[r] /\ req'[r] = req[r]
        /\ Quiet(req[r].cid) /\ told'[req[r].cid] = None
  BY <1>1 DEF ToldInv, Carries
<1>3. ASSUME NEW d \in Cids, told'[d] # None PROVE Current(d, told[d])'
  <2>1. PICK a \in ChannelAnswer : a = told[d]
    BY <1>1, <1>3 DEF ToldInv
  <2>2. Current(d, a)
    BY <1>1, <1>3, <2>1 DEF ToldInv
  <2>3. Current(d, a)'
    BY <2>2, CurrentStays
  <2> QED BY <1>1, <2>1, <2>3 DEF Current
<1> QED BY <1>1, <1>2, <1>3, NobodyFollows DEF ToldInv

LEMMA ToldInvStep ==
  ASSUME Known, ToldInv, [ToldNext]_toldVars, OneDeposit
  PROVE  ToldInv'
<1>1. [Next]_vars
  BY ToldStep
<1>2. req \in [Reqs -> Request]
  BY DEF Known, BatchInv, TypeInv, TypeOK, HandlerTypeOK
<1>3. UNCHANGED tableVars => \A c \in Cids : Quiet(c)
  BY DEF tableVars, historyVars, Quiet, Untouched
<1>4. ASSUME NEW r \in Reqs, Proceed(r) PROVE ToldInv'
  <2>1. UNCHANGED tableVars /\ UNCHANGED answerVars /\ req[r].pc # "upstream"
    BY <1>4 DEF Proceed, RefuseVoucher, PresentDeposit, DepositVerified,
                DepositExecuted, DepositRefused, DepositErrs, Answered
  <2>2. \A s \in Reqs \ {r} : req'[s] = req[s]
    BY <1>2, <1>4 DEF Proceed, RefuseVoucher, PresentDeposit, DepositVerified,
                DepositExecuted, DepositRefused, DepositErrs, Respond, Become
  <2> QED BY <1>1, <1>3, <2>1, <2>2, OthersKeep
<1>5. ASSUME NEW k \in Runs, RunNext(k), UNCHANGED <<req, answerVars>> PROVE ToldInv'
  <2>1. UNCHANGED tableVars \/ Reconcile(k)
    BY <1>5 DEF RunNext, StartRun, ClaimExecuted, ClaimFails, PostSettle,
                SettleExecuted, SettleFails, DropRun, EndRun
  <2>2. ASSUME Reconcile(k), NEW c \in Cids PROVE Quiet(c)
    BY <2>2 DEF Reconcile, Reconciled, historyVars, Untouched, WrittenBackBy, Quiet
  <2> QED BY <1>1, <1>3, <1>5, <2>1, <2>2, OthersKeep
<1>6. ASSUME NEW c \in Cids, NEW left \in Remainders,
             Withdraw(c, left), UNCHANGED answerVars
      PROVE  ToldInv'
  BY <1>1, <1>3, <1>6, OthersKeep DEF Withdraw
<1>7. CASE Forget
  BY <1>7 DEF Forget, ToldInv, Carries
<1>8. CASE UNCHANGED toldVars
  BY <1>1, <1>3, <1>8, OthersKeep DEF toldVars, vars
<1> QED
  BY <1>1, <1>4, <1>5, <1>6, <1>7, <1>8, VoucherKeeps, OpenKeeps, AnswerKeeps DEF ToldNext

-----------------------------------------------------------------------------
(***************************************************************************)
(* With one deposit per channel, a buyer that goes by the answers of the   *)
(* router is served exactly as long as its deposit lasts: no claim that is *)
(* written back between an answer and its next voucher, no overlapping     *)
(* run, no failing call and no restart makes the policy refuse it early.   *)
(***************************************************************************)
THEOREM FollowersAreServedAlways ==
  ASSUME OneDeposit
  PROVE  ToldSpec => []FollowersAreServed
<1>1. ToldInit => ToldInv
  BY DEF ToldInit, ToldInv, Carries
<1>2. Known /\ ToldInv /\ [ToldNext]_toldVars => ToldInv'
  BY ToldInvStep
<1>3. ASSUME BatchInv, ToldInv, NEW c \in Cids, told[c] # None
      PROVE  /\ c \in Present
             /\ Admits(channels[c], NextCeiling(c)) <=> NextCeiling(c) <= told[c].balance
  <2>1. Current(c, told[c])
    BY <1>3 DEF ToldInv
  <2>2. /\ channels[c].charged \in Nat /\ channels[c].totalClaimed \in Nat
        /\ channels[c].balance \in Nat /\ Amount \in Nat /\ Amount > 0 /\ MaxU128 \in Nat
    BY <1>3, <2>1, Constants
       DEF Current, BatchInv, TypeInv, TypeOK, TableTypeOK, ChannelState, U128, OneDeposit
  <2> QED BY <2>1, <2>2 DEF Current, Present, Admits, SatAdd, NextCeiling
<1>4. BatchInv /\ ToldInv => FollowersAreServed
  BY <1>3 DEF FollowersAreServed
<1> QED
  BY <1>1, <1>2, <1>4, ToldIsBatchSettlement, OneDepositInvariant, PTL
     DEF ToldSpec, Known
=============================================================================

--------------------------- MODULE LedgerProofs ---------------------------
(***************************************************************************)
(* Theorems about Ledger, for any set of calls, workspaces and requests.   *)
(***************************************************************************)
EXTENDS Ledger, SequenceTheorems, TLAPS

-----------------------------------------------------------------------------
(* Facts about requests. *)

\* What a granted request leaves behind is a pair of integers again.
LEMMA AfterType ==
  ASSUME NEW q \in Request, NEW b \in Balances
  PROVE  After(q, b) \in Balances
  BY RequestAssumption DEF After, Balances, RequestType

\* The first step of a call belongs to the code of its operation.
LEMMA FirstStepFits ==
  ASSUME NEW q \in Request
  PROVE  \/ FirstStep(q) = "failed"
         \/ FirstStep(q) = "upsert" /\ q.op = "credit" /\ q.id # NoId
         \/ FirstStep(q) = "find" /\ q.op \in {"get", "legacy"}
         \/ FirstStep(q) = "read" /\ q.op = "deduct" /\ ~Keyed(q)
         \/ FirstStep(q) = "check" /\ q.op \in {"deduct", "reserve", "settle"}
                                  /\ (q.op = "deduct" => Keyed(q))
  <1>1. q.op \in Op
    BY RequestAssumption DEF RequestType
  <1>2. CASE Rejected(q)
    BY <1>2 DEF FirstStep
  <1>3. CASE ~Rejected(q) /\ q.op = "credit"
    BY <1>3 DEF FirstStep, Rejected
  <1>4. CASE q.op \in {"get", "legacy"}
    BY <1>4 DEF FirstStep, Rejected
  <1>5. CASE q.op \in {"deduct", "reserve", "settle"}
    BY <1>5 DEF FirstStep, Rejected
  <1>6. QED
    BY <1>1, <1>2, <1>3, <1>4, <1>5 DEF Op

\* syncLegacyBalance inserts, stops or saves.
LEMMA AfterFindCases ==
  ASSUME NEW w
  PROVE  \/ AfterFind(w) = "insert" /\ w \notin exists
         \/ AfterFind(w) = "done" /\ w \in synced
         \/ AfterFind(w) = "save" /\ w \in exists /\ w \notin synced
  BY DEF AfterFind

LEMMA ReceiptType ==
  ASSUME TypeOK, NEW c \in Call, req[c] \in Request
  PROVE  Receipt(c) \in Tx
  <1>1. snap[c] \in Balances /\ After(req[c], snap[c]) \in Balances
    BY AfterType DEF TypeOK
  <1>2. TypeOf(req[c]) \in TxType
    BY DEF TypeOf, TxType
  <1>3. Total(snap[c]) \in Int /\ Total(After(req[c], snap[c])) \in Int
    BY <1>1 DEF Total, Balances
  <1>4. QED
    BY <1>2, <1>3 DEF Receipt, Tx

-----------------------------------------------------------------------------
(* Type correctness needs to know that a call in progress has a request,   *)
(* and of the operation whose code the call is in.                         *)

Asked == \A c \in Call : pc[c] # "idle" => req[c] \in Request

Fits ==
  \A c \in Call :
    /\ pc[c] \in {"upsert", "increment"} =>
         req[c].op = "credit" /\ req[c].id # NoId
    /\ pc[c] = "create" => req[c].op = "get"
    /\ pc[c] = "insert" => req[c].op = "legacy"
    /\ pc[c] \in {"check", "read"} => req[c].op \in {"deduct", "reserve", "settle"}
    /\ pc[c] = "save" => req[c].op \in {"deduct", "reserve", "settle", "legacy"}
    /\ pc[c] = "record" => req[c].op # "get"

TypeInv == TypeOK /\ Asked /\ Fits

LEMMA TypeInit == Init => TypeInv
  BY DEF Init, TypeInv, TypeOK, Asked, Fits, Empty, Balances

LEMMA TypeStep == TypeInv /\ [Next]_vars => TypeInv'
  <1> SUFFICES ASSUME TypeInv, [Next]_vars PROVE TypeInv'
    OBVIOUS
  <1> USE DEF TypeInv
  <1>1. ASSUME NEW c \in Call, NEW q \in Request, Start(c, q)
        PROVE  TypeInv'
    <2>1. FirstStep(q) \in Step \cup {"failed"}
      BY FirstStepFits DEF Step
    <2>2. q.ws \in Workspace
      BY RequestAssumption DEF RequestType
    <2>3. TypeOK' /\ Asked'
      BY <1>1, <2>1, <2>2
      DEF Start, Goto, TypeOK, Asked, wallets
    <2>4. Fits'
      <3>1. /\ pc'[c] = FirstStep(q) /\ req'[c] = q
            /\ \A d \in Call \ {c} : pc'[d] = pc[d] /\ req'[d] = req[d]
        BY <1>1 DEF Start, Goto, TypeOK
      <3>2. QED
        BY <3>1, FirstStepFits DEF Fits
    <2>5. QED
      BY <2>3, <2>4
  <1>2. ASSUME NEW c \in Call, Progress(c)
        PROVE  TypeInv'
    <2>0. req[c] \in Request
      BY <1>2 DEF Progress, Asked, FindWallet, CreateWallet, Upsert, Increment,
         AlreadyCredited, CheckKey, ReadWallet, Refuse, SaveWallet, FindLegacy,
         InsertLegacy, InsertRaced, RecordTx, DuplicateTx, TypeOK
    <2>1. req[c].ws \in Workspace
      BY <2>0, RequestAssumption DEF RequestType
    <2> DEFINE w == req[c].ws
    <2>2. CASE FindWallet(c) \/ CheckKey(c) \/ Refuse(c) \/ InsertRaced(c)
               \/ DuplicateTx(c) \/ AlreadyCredited(c)
      BY <2>2, <2>0 DEF FindWallet, CheckKey, Refuse, InsertRaced, DuplicateTx,
         AlreadyCredited, Goto, TypeOK, Asked, Fits, wallets, history, Step
    <2>3. CASE CreateWallet(c) \/ Upsert(c)
      BY <2>3, <2>0, <2>1 DEF CreateWallet, Upsert, Goto, TypeOK, Asked, Fits, history,
         Step
    <2>4. CASE ReadWallet(c)
      BY <2>4, <2>0, <2>1 DEF ReadWallet, Goto, TypeOK, Asked, Fits, wallets,
         history, Step
    <2>10. CASE FindLegacy(c)
      <3>1. AfterFind(w) \in {"insert", "done", "save"}
        BY AfterFindCases
      <3>2. QED
        BY <2>10, <2>0, <2>1, <3>1 DEF FindLegacy, Goto, TypeOK, Asked, Fits,
           wallets, history, Step
    <2>5. CASE Increment(c)
      <3>1. After(req[c], balance[w]) \in Balances
        BY <2>0, <2>1, AfterType DEF TypeOK
      <3>2. req[c].id \in Id
        BY <2>5, <2>0, RequestAssumption DEF Increment, RequestType, Fits
      <3>3. QED
        BY <2>5, <2>0, <2>1, <3>1, <3>2
        DEF Increment, AddToSet, Goto, TypeOK, Asked, Fits, Step
    <2>6. CASE SaveWallet(c)
      <3>1. After(req[c], snap[c]) \in Balances
        BY <2>0, AfterType DEF TypeOK
      <3>2. SetModified(balance[w], snap[c], After(req[c], snap[c])) \in Balances
        BY <2>1, <3>1 DEF SetModified, Balances, TypeOK
      <3>3. QED
        BY <2>6, <2>0, <2>1, <3>2 DEF SaveWallet, Goto, TypeOK, Asked, Fits, Step
    <2>7. CASE InsertLegacy(c)
      <3>1. Empty \in Balances /\ After(req[c], Empty) \in Balances
        BY <2>0, AfterType DEF Empty, Balances
      <3>2. QED
        BY <2>7, <2>0, <2>1, <3>1 DEF InsertLegacy, Goto, TypeOK, Asked, Fits, Step
    <2>8. CASE RecordTx(c)
      <3>1. Receipt(c) \in Tx
        BY <2>0, ReceiptType
      <3>2. Append(txs[w], Receipt(c)) \in Seq(Tx)
        BY <2>1, <3>1 DEF TypeOK
      <3>3. QED
        BY <2>8, <2>0, <2>1, <3>2
        DEF RecordTx, Goto, TypeOK, Asked, Fits, wallets, history
    <2>9. QED
      BY <1>2, <2>2, <2>3, <2>4, <2>5, <2>6, <2>7, <2>8, <2>10 DEF Progress
  <1>3. ASSUME NEW c \in Call, Die(c)
        PROVE  TypeInv'
    <2>1. req[c] \in Request /\ req[c].ws \in Workspace
      BY <1>3, RequestAssumption DEF Die, InProgress, Step, Asked, RequestType
    <2>2. QED
      BY <1>3, <2>1 DEF Die, Goto, TypeOK, Asked, Fits, wallets, InProgress, Step
  <1>4. CASE UNCHANGED vars
    BY <1>4 DEF vars, wallets, history, TypeOK, Asked, Fits
  <1>5. QED
    BY <1>1, <1>2, <1>3, <1>4 DEF Next

\* Every state of the ledger is well typed.
THEOREM TypeCorrect == Spec => []TypeOK
  <1>1. TypeInv => TypeOK
    BY DEF TypeInv
  <1>2. QED
    BY TypeInit, TypeStep, <1>1, PTL DEF Spec

-----------------------------------------------------------------------------
(* What a step of one call leaves alone. *)

LEMMA ProgressFrame ==
  ASSUME TypeInv, NEW c \in Call, Progress(c)
  PROVE  /\ req[c] \in Request /\ req[c].ws \in Workspace
         /\ req' = req /\ late' = late /\ disturbed' = disturbed
         /\ exists \subseteq exists' /\ synced \subseteq synced'
         /\ wrote \subseteq wrote' /\ wrote' \subseteq wrote \cup {c}
         /\ \A w \in Workspace : processed[w] \subseteq processed'[w]
         /\ \A w \in Workspace \ {req[c].ws} :
               balance'[w] = balance[w] /\ txs'[w] = txs[w]
         /\ \A d \in Call \ {c} : pc'[d] = pc[d] /\ snap'[d] = snap[d]
         /\ pc[c] \in Step
  <1>1. pc[c] \in Step
    BY DEF Progress, FindWallet, CreateWallet, Upsert, Increment,
       AlreadyCredited, CheckKey, ReadWallet, Refuse, SaveWallet, FindLegacy,
       InsertLegacy, InsertRaced, RecordTx, DuplicateTx, Step
  <1>2. req[c] \in Request /\ req[c].ws \in Workspace
    BY <1>1, RequestAssumption DEF TypeInv, Asked, Step, RequestType
  <1>3. CASE FindWallet(c) \/ CheckKey(c) \/ Refuse(c) \/ InsertRaced(c)
             \/ DuplicateTx(c) \/ AlreadyCredited(c) \/ ReadWallet(c)
             \/ FindLegacy(c)
    BY <1>1, <1>2, <1>3 DEF FindWallet, CheckKey, Refuse, InsertRaced,
       DuplicateTx, AlreadyCredited, ReadWallet, FindLegacy, Goto, TypeInv,
       TypeOK, wallets, history
  <1>4. CASE CreateWallet(c) \/ Upsert(c) \/ RecordTx(c)
    BY <1>1, <1>2, <1>4 DEF CreateWallet, Upsert, RecordTx, Goto, TypeInv, TypeOK,
       wallets, history
  <1>5. CASE Increment(c)
    BY <1>1, <1>2, <1>5 DEF Increment, AddToSet, Goto, TypeInv, TypeOK
  <1>6. CASE SaveWallet(c) \/ InsertLegacy(c)
    BY <1>1, <1>2, <1>6 DEF SaveWallet, InsertLegacy, Goto, TypeInv, TypeOK
  <1>7. QED
    BY <1>3, <1>4, <1>5, <1>6 DEF Progress

-----------------------------------------------------------------------------
(* No overdraft: a call about to save has checked the funds of a solvent   *)
(* wallet, and what it saves depends on nothing else.                      *)

Solvent(b) ==
  b.parked >= 0 /\ (SpendWithinReservation => b.available >= 0)

Covered ==
  \A c \in Call :
    pc[c] = "save" => Solvent(snap[c]) /\ Funded(req[c], snap[c])

OverdraftInv == (\A w \in Workspace : Solvent(balance[w])) /\ Covered

\* A funded request leaves a solvent wallet solvent.
LEMMA AfterSolvent ==
  ASSUME NEW q \in Request, NEW b \in Balances, Solvent(b), Funded(q, b)
  PROVE  Solvent(After(q, b))
  <1>1. q \in RequestType
    BY RequestAssumption
  <1>2. q.amount \in Nat /\ q.spend \in Nat /\ q.op \in Op
    BY <1>1 DEF RequestType
  <1>3. b.available \in Int /\ b.parked \in Int
    BY DEF Balances
  <1>4. CASE q.op \in {"get", "credit", "legacy"}
    BY <1>2, <1>3, <1>4 DEF Solvent, After
  <1>5. CASE q.op = "deduct"
    BY <1>2, <1>3, <1>5 DEF Solvent, After, Funded
  <1>6. CASE q.op = "reserve"
    BY <1>2, <1>3, <1>6 DEF Solvent, After, Funded
  <1>7. CASE q.op = "settle"
    <2>1. SpendWithinReservation => q.spend <= q.amount
      BY <1>7 DEF SpendWithinReservation
    <2>2. QED
      BY <1>2, <1>3, <1>7, <2>1 DEF Solvent, After, Funded
  <1>8. QED
    BY <1>2, <1>4, <1>5, <1>6, <1>7 DEF Op

LEMMA OverdraftInit == Init => OverdraftInv
  BY DEF Init, OverdraftInv, Covered, Solvent, Empty

LEMMA OverdraftStep ==
  TypeInv /\ OverdraftInv /\ [Next]_vars => OverdraftInv'
  <1> SUFFICES ASSUME TypeInv, OverdraftInv, [Next]_vars PROVE OverdraftInv'
    OBVIOUS
  <1>1. ASSUME NEW c \in Call, NEW q \in Request, Start(c, q)
        PROVE  OverdraftInv'
    <2>1. /\ pc'[c] # "save"
          /\ \A d \in Call \ {c} : pc'[d] = pc[d] /\ req'[d] = req[d]
          /\ snap' = snap /\ balance' = balance
      BY <1>1, FirstStepFits DEF Start, Goto, TypeInv, TypeOK, wallets
    <2>2. QED
      BY <2>1 DEF OverdraftInv, Covered, Solvent
  <1>2. ASSUME NEW c \in Call, Progress(c)
        PROVE  OverdraftInv'
    <2> DEFINE w == req[c].ws
    <2>1. /\ req[c] \in Request /\ w \in Workspace
          /\ req' = req
          /\ \A v \in Workspace \ {w} : balance'[v] = balance[v]
          /\ \A d \in Call \ {c} : pc'[d] = pc[d] /\ snap'[d] = snap[d]
      BY <1>2, ProgressFrame
    <2>2. balance[w] \in Balances /\ snap[c] \in Balances
      BY <2>1 DEF TypeInv, TypeOK
    <2>3. Solvent(balance[w])
      BY <2>1 DEF OverdraftInv
    <2>4. SUFFICES /\ Solvent(balance'[w])
                   /\ pc'[c] = "save" =>
                        Solvent(snap'[c]) /\ Funded(req[c], snap'[c])
      BY <2>1 DEF OverdraftInv, Covered, Solvent
    <2>5. CASE ReadWallet(c)
      BY <2>5, <2>1, <2>3 DEF ReadWallet, wallets, TypeInv, TypeOK
    <2>6. CASE FindLegacy(c)
      BY <2>6, <2>1, <2>3 DEF FindLegacy, wallets, TypeInv, TypeOK, Funded
    <2>7. CASE SaveWallet(c)
      <3>1. Solvent(After(req[c], snap[c])) /\ After(req[c], snap[c]) \in Balances
        BY <2>7, <2>1, <2>2, AfterSolvent, AfterType
        DEF SaveWallet, OverdraftInv, Covered
      <3>2. balance'[w] = SetModified(balance[w], snap[c], After(req[c], snap[c]))
        BY <2>7, <2>1 DEF SaveWallet, TypeInv, TypeOK
      <3>3. Solvent(balance'[w])
        BY <3>1, <3>2, <2>2, <2>3 DEF SetModified, Solvent
      <3>4. QED
        BY <2>7, <3>3 DEF SaveWallet, Goto, TypeInv, TypeOK
    <2>8. CASE Increment(c)
      <3>1. Funded(req[c], balance[w])
        BY <2>8 DEF Increment, TypeInv, Fits, Funded
      <3>2. balance'[w] = After(req[c], balance[w]) /\ pc'[c] = "record"
        BY <2>8, <2>1 DEF Increment, Goto, TypeInv, TypeOK
      <3>3. QED
        BY <3>1, <3>2, <2>1, <2>2, <2>3, AfterSolvent
    <2>9. CASE InsertLegacy(c)
      <3>1. Funded(req[c], Empty) /\ Solvent(Empty) /\ Empty \in Balances
        BY <2>9 DEF InsertLegacy, TypeInv, Fits, Funded, Empty, Solvent, Balances
      <3>2. balance'[w] = After(req[c], Empty) /\ pc'[c] = "record"
        BY <2>9, <2>1 DEF InsertLegacy, Goto, TypeInv, TypeOK
      <3>3. QED
        BY <3>1, <3>2, <2>1, AfterSolvent
    <2>10. CASE FindWallet(c) \/ CheckKey(c) \/ Refuse(c) \/ InsertRaced(c)
                \/ DuplicateTx(c) \/ AlreadyCredited(c) \/ RecordTx(c)
                \/ CreateWallet(c) \/ Upsert(c)
      BY <2>10, <2>1, <2>3 DEF FindWallet, CheckKey, Refuse, InsertRaced,
         DuplicateTx, AlreadyCredited, RecordTx, CreateWallet, Upsert, Goto,
         wallets, TypeInv, TypeOK
    <2>11. QED
      BY <1>2, <2>5, <2>6, <2>7, <2>8, <2>9, <2>10 DEF Progress
  <1>3. ASSUME NEW c \in Call, Die(c)
        PROVE  OverdraftInv'
    BY <1>3 DEF Die, Goto, wallets, TypeInv, TypeOK, OverdraftInv, Covered, Solvent
  <1>4. CASE UNCHANGED vars
    BY <1>4 DEF vars, wallets, OverdraftInv, Covered, Solvent
  <1>5. QED
    BY <1>1, <1>2, <1>3, <1>4 DEF Next

\* No interleaving of calls and no crash overdraws a wallet.
THEOREM NeverOverdrawn == Spec => []NoOverdraft
  <1>1. OverdraftInv => NoOverdraft
    BY DEF OverdraftInv, NoOverdraft, Solvent
  <1>2. QED
    BY TypeInit, TypeStep, OverdraftInit, OverdraftStep, <1>1, PTL DEF Spec

-----------------------------------------------------------------------------
(* Credits happen once: a call that has credited a payment has put its     *)
(* reference in processedExternalReferences in the same atomic update.     *)

Marked ==
  \A c \in wrote :
    /\ pc[c] \in {"record", "done", "failed", "died"}
    /\ req[c].op = "credit" => req[c].id \in processed[req[c].ws]
    /\ req[c].op = "legacy" => req[c].ws \in synced
    /\ req[c].ws \in exists

\* A call in the middle of an operation found a wallet, and has changed it
\* exactly when it is about to store the transaction.
Located ==
  \A c \in Call :
    /\ pc[c] \in {"increment", "save"} => req[c].ws \in exists
    /\ pc[c] = "record" => c \in wrote

CreditInv == Marked /\ Located /\ CreditedOnce

LEMMA CreditInit == Init => CreditInv
  BY DEF Init, CreditInv, Marked, Located, CreditedOnce

LEMMA CreditStep == TypeInv /\ CreditInv /\ [Next]_vars => CreditInv'
  <1> SUFFICES ASSUME TypeInv, CreditInv, [Next]_vars PROVE CreditInv'
    OBVIOUS
  <1> USE DEF CreditInv
  <1>1. ASSUME NEW c \in Call, NEW q \in Request, Start(c, q)
        PROVE  CreditInv'
    <2>1. /\ pc'[c] \notin {"increment", "save", "record"}
          /\ pc[c] = "idle"
          /\ \A d \in Call \ {c} : pc'[d] = pc[d] /\ req'[d] = req[d]
          /\ UNCHANGED <<wrote, exists, processed, synced>>
      BY <1>1, FirstStepFits DEF Start, Goto, TypeInv, TypeOK, wallets
    <2>2. c \notin wrote
      BY <2>1 DEF Marked
    <2>3. wrote \subseteq Call
      BY DEF TypeInv, TypeOK
    <2>4. QED
      BY <2>1, <2>2, <2>3 DEF Marked, Located, CreditedOnce
  <1>2. ASSUME NEW c \in Call, Progress(c)
        PROVE  CreditInv'
    <2> DEFINE w == req[c].ws
    <2>1. /\ req[c] \in Request /\ w \in Workspace
          /\ req' = req /\ exists \subseteq exists' /\ synced \subseteq synced'
          /\ wrote \subseteq wrote' /\ wrote' \subseteq wrote \cup {c}
          /\ \A v \in Workspace : processed[v] \subseteq processed'[v]
          /\ \A d \in Call \ {c} : pc'[d] = pc[d]
          /\ pc[c] \in Step
      BY <1>2, ProgressFrame
    <2>2. wrote \subseteq Call
      BY DEF TypeInv, TypeOK
    <2>3. \A d \in wrote : req[d].ws \in Workspace
      BY <2>2, RequestAssumption DEF Marked, TypeInv, Asked, RequestType
    <2>4. CASE pc[c] \in {"increment", "save", "insert"} /\ c \in wrote'
      <3>1. c \notin wrote
        BY <2>4 DEF Marked
      <3>2. Increment(c) \/ SaveWallet(c) \/ InsertLegacy(c)
        BY <1>2, <2>4, <3>1 DEF Progress, FindWallet, CreateWallet, Upsert,
           AlreadyCredited, CheckKey, ReadWallet, Refuse, FindLegacy,
           InsertRaced, RecordTx, DuplicateTx, wallets, history
      <3>3. /\ pc'[c] = "record" /\ w \in exists'
            /\ req[c].op = "credit" =>
                 req[c].id \in processed'[w] /\ req[c].id \notin processed[w]
            /\ req[c].op = "legacy" => w \in synced'
        <4>1. CASE Increment(c)
          <5>1. req[c].op = "credit" /\ w \in exists
            BY <4>1 DEF Increment, TypeInv, Fits, Located
          <5>2. QED
            BY <4>1, <5>1, <2>1 DEF Increment, Goto, AddToSet, TypeInv, TypeOK
        <4>2. CASE SaveWallet(c)
          <5>1. req[c].op # "credit" /\ w \in exists
            BY <4>2 DEF SaveWallet, TypeInv, Fits, Located
          <5>2. QED
            BY <4>2, <5>1, <2>1 DEF SaveWallet, Goto, TypeInv, TypeOK
        <4>3. CASE InsertLegacy(c)
          <5>1. req[c].op = "legacy"
            BY <4>3 DEF InsertLegacy, TypeInv, Fits
          <5>2. QED
            BY <4>3, <5>1, <2>1 DEF InsertLegacy, Goto, TypeInv, TypeOK
        <4>4. QED
          BY <3>2, <4>1, <4>2, <4>3
      <3>4. Marked' /\ Located'
        BY <2>1, <2>2, <2>3, <2>4, <3>3 DEF Marked, Located
      <3>5. CreditedOnce'
        BY <2>1, <2>2, <3>3 DEF CreditedOnce, Marked
      <3>6. QED
        BY <3>4, <3>5
    <2>5. CASE ~(pc[c] \in {"increment", "save", "insert"} /\ c \in wrote')
      <3>1. /\ wrote' = wrote
            /\ pc'[c] # "record"
            /\ pc'[c] \in {"increment", "save"} => w \in exists'
            /\ pc[c] = "record" => pc'[c] \in {"done", "failed"}
        <4>1. CASE FindWallet(c) \/ CreateWallet(c) \/ Upsert(c)
                   \/ AlreadyCredited(c) \/ CheckKey(c) \/ Refuse(c)
                   \/ InsertRaced(c) \/ RecordTx(c) \/ DuplicateTx(c)
          BY <4>1, <2>1 DEF FindWallet, CreateWallet, Upsert, AlreadyCredited,
             CheckKey, Refuse, InsertRaced, RecordTx, DuplicateTx, Goto,
             history, TypeInv, TypeOK
        <4>2. CASE ReadWallet(c)
          BY <4>2, <2>1 DEF ReadWallet, Goto, wallets, history, TypeInv, TypeOK
        <4>3. CASE FindLegacy(c)
          BY <4>3, <2>1, AfterFindCases
          DEF FindLegacy, Goto, wallets, history, TypeInv, TypeOK
        <4>4. CASE Increment(c) \/ SaveWallet(c) \/ InsertLegacy(c)
          BY <4>4, <2>5 DEF Increment, SaveWallet, InsertLegacy
        <4>5. QED
          BY <1>2, <4>1, <4>2, <4>3, <4>4 DEF Progress
      <3>2. c \in wrote => pc[c] = "record"
        BY <2>1 DEF Marked, Step
      <3>3. Marked' /\ Located'
        BY <2>1, <2>2, <2>3, <3>1, <3>2 DEF Marked, Located
      <3>4. CreditedOnce'
        BY <2>1, <3>1 DEF CreditedOnce
      <3>5. QED
        BY <3>3, <3>4
    <2>6. QED
      BY <2>4, <2>5
  <1>3. ASSUME NEW c \in Call, Die(c)
        PROVE  CreditInv'
    BY <1>3 DEF Die, InProgress, Step, Goto, wallets, TypeInv, TypeOK, Marked,
       Located, CreditedOnce
  <1>4. CASE UNCHANGED vars
    BY <1>4 DEF vars, wallets, history, Marked, Located, CreditedOnce
  <1>5. QED
    BY <1>1, <1>2, <1>3, <1>4 DEF Next

\* Whatever the checkout callback, the webhook and their retries do at the same
\* time, a payment is credited to a workspace at most once.
THEOREM CreditsHappenOnce == Spec => []CreditedOnce
  <1>1. CreditInv => CreditedOnce
    BY DEF CreditInv
  <1>2. QED
    BY TypeInit, TypeStep, CreditInit, CreditStep, <1>1, PTL DEF Spec

-----------------------------------------------------------------------------
(* Late calls change nothing.  The transaction a late call would store is  *)
(* evidence of what its own idempotence test looks at: the stored key, the *)
(* reference in processedExternalReferences, or the isLegacySynced flag.   *)

\* Keys of different operations differ where it matters.
LEMMA KeyFacts ==
  ASSUME NEW q \in Request
  PROVE  /\ q.op = "credit" /\ q.id # NoId => Key(q) = <<"ext", q.id>>
         /\ q.op = "legacy" => Key(q) = <<"legacy-sync", q.ws>>
         /\ \A v : Key(q) = <<"legacy-sync", v>> => q.op = "legacy" /\ q.ws = v
         /\ Keyed(q) <=> q.op # "get" /\ (q.op \in {"credit", "deduct"} => q.id # NoId)
         /\ TypeOf(q) = "RECHARGE" <=> q.op = "credit"
  <1>1. q.op \in Op
    BY RequestAssumption DEF RequestType
  <1>2. CASE q.op = "get"
    BY <1>2 DEF Key, NoKey, Keyed, TypeOf
  <1>3. CASE q.op = "reserve"
    BY <1>3 DEF Key, NoKey, Keyed, TypeOf
  <1>4. CASE q.op = "settle"
    BY <1>4 DEF Key, NoKey, Keyed, TypeOf
  <1>5. CASE q.op = "legacy"
    BY <1>5 DEF Key, NoKey, Keyed, TypeOf
  <1>6. CASE q.op \in {"credit", "deduct"}
    BY <1>6 DEF Key, NoKey, Keyed, TypeOf
  <1>7. QED
    BY <1>1, <1>2, <1>3, <1>4, <1>5, <1>6 DEF Op

\* Transactions are only ever appended.
LEMMA TxsGrow ==
  ASSUME TypeInv, [Next]_vars, NEW w \in Workspace, NEW i \in DOMAIN txs[w]
  PROVE  i \in DOMAIN txs'[w] /\ txs'[w][i] = txs[w][i]
  <1>1. CASE txs' = txs
    BY <1>1
  <1>2. ASSUME NEW c \in Call, RecordTx(c)
        PROVE  i \in DOMAIN txs'[w] /\ txs'[w][i] = txs[w][i]
    <2>1. req[c] \in Request /\ req[c].ws \in Workspace
      BY <1>2, ProgressFrame DEF Progress
    <2>2. txs[w] \in Seq(Tx) /\ Receipt(c) \in Tx
      BY <2>1, ReceiptType DEF TypeInv, TypeOK
    <2>3. txs'[w] = txs[w] \/ txs'[w] = Append(txs[w], Receipt(c))
      BY <1>2, <2>1 DEF RecordTx, TypeInv, TypeOK
    <2>4. QED
      BY <2>2, <2>3
  <1>3. QED
    BY <1>1, <1>2 DEF Next, Start, Progress, FindWallet, CreateWallet, Upsert,
       Increment, AlreadyCredited, CheckKey, ReadWallet, Refuse, SaveWallet,
       FindLegacy, InsertLegacy, InsertRaced, DuplicateTx, Die, vars

LEMMA StoredGrows ==
  ASSUME TypeInv, [Next]_vars, NEW k, Stored(k)
  PROVE  Stored(k)'
  BY TxsGrow DEF Stored

Backed ==
  \A w \in Workspace : \A i \in DOMAIN txs[w] :
    /\ txs[w][i].type = "RECHARGE" =>
         \E id \in processed[w] : txs[w][i].key = <<"ext", id>>
    /\ \A v : txs[w][i].key = <<"legacy-sync", v>> => v \in synced /\ v \in exists

LEMMA BackedStep ==
  ASSUME TypeInv, CreditInv, Backed, [Next]_vars
  PROVE  Backed'
  <1>1. CASE UNCHANGED <<txs, processed, synced, exists>>
    BY <1>1 DEF Backed
  <1>2. ASSUME NEW c \in Call, Progress(c), ~RecordTx(c)
        PROVE  Backed'
    <2>1. /\ exists \subseteq exists' /\ synced \subseteq synced'
          /\ \A v \in Workspace : processed[v] \subseteq processed'[v]
      BY <1>2, ProgressFrame
    <2>2. txs' = txs
      BY <1>2 DEF Progress, FindWallet, CreateWallet, Upsert, Increment,
         AlreadyCredited, CheckKey, ReadWallet, Refuse, SaveWallet, FindLegacy,
         InsertLegacy, InsertRaced, DuplicateTx
    <2>3. QED
      BY <2>1, <2>2 DEF Backed
  <1>3. ASSUME NEW c \in Call, RecordTx(c)
        PROVE  Backed'
    <2> DEFINE u == req[c].ws
    <2>1. req[c] \in Request /\ u \in Workspace
      BY <1>3, ProgressFrame DEF Progress
    <2>2. /\ txs[u] \in Seq(Tx) /\ Receipt(c) \in Tx
          /\ txs'[u] = Append(txs[u], Receipt(c))
          /\ \A w \in Workspace \ {u} : txs'[w] = txs[w]
          /\ UNCHANGED <<processed, synced, exists>>
      BY <1>3, <2>1, ReceiptType DEF RecordTx, TypeInv, TypeOK, wallets
    <2>3. c \in wrote
      BY <1>3 DEF RecordTx, CreditInv, Located
    <2>4. /\ Receipt(c).type = "RECHARGE" =>
               \E id \in processed[u] : Receipt(c).key = <<"ext", id>>
          /\ \A v : Receipt(c).key = <<"legacy-sync", v>> =>
               v \in synced /\ v \in exists
      <3>1. Receipt(c).type = TypeOf(req[c]) /\ Receipt(c).key = Key(req[c])
        BY DEF Receipt
      <3>2. /\ req[c].op = "credit" => req[c].id \in processed[u] /\ req[c].id # NoId
            /\ req[c].op = "legacy" => u \in synced
            /\ u \in exists
        BY <2>1, <2>3, RequestAssumption DEF CreditInv, Marked, TypeInv, TypeOK
      <3>3. QED
        BY <2>1, <3>1, <3>2, KeyFacts
    <2>5. ASSUME NEW i \in DOMAIN txs'[u]
          PROVE  \/ i \in DOMAIN txs[u] /\ txs'[u][i] = txs[u][i]
                 \/ txs'[u][i] = Receipt(c)
      BY <2>2, <2>5
    <2>6. SUFFICES ASSUME NEW w \in Workspace, NEW i \in DOMAIN txs'[w]
                   PROVE  /\ txs'[w][i].type = "RECHARGE" =>
                               \E id \in processed[w] : txs'[w][i].key = <<"ext", id>>
                          /\ \A v : txs'[w][i].key = <<"legacy-sync", v>> =>
                               v \in synced /\ v \in exists
      BY <2>2 DEF Backed
    <2>7. CASE i \in DOMAIN txs[w] /\ txs'[w][i] = txs[w][i]
      BY <2>7 DEF Backed
    <2>8. CASE w = u /\ txs'[w][i] = Receipt(c)
      BY <2>4, <2>8
    <2>9. QED
      BY <2>2, <2>5, <2>7, <2>8
  <1>4. QED
    BY <1>1, <1>2, <1>3 DEF Next, Start, Die, wallets, vars

Harmless ==
  \A c \in late :
    /\ req[c] \in Request /\ Keyed(req[c])
    /\ c \notin wrote
    /\ pc[c] \notin {"idle", "read", "save", "insert", "record"}
    /\ req[c].op = "credit" => req[c].id \in processed[req[c].ws]
    /\ req[c].op = "legacy" => req[c].ws \in synced /\ req[c].ws \in exists
    /\ req[c].op \in {"deduct", "reserve", "settle"} => Stored(Key(req[c]))

LateInv == Backed /\ Harmless

LEMMA LateInit == Init => LateInv
  BY DEF Init, LateInv, Backed, Harmless

LEMMA LateStep ==
  TypeInv /\ CreditInv /\ LateInv /\ [Next]_vars => LateInv'
  <1> SUFFICES ASSUME TypeInv, CreditInv, LateInv, [Next]_vars
               PROVE  Harmless'
    BY BackedStep DEF LateInv
  <1> USE DEF LateInv
  <1>0. late \subseteq Call
    BY DEF TypeInv, TypeOK
  <1>1. ASSUME NEW c \in Call, NEW q \in Request, Start(c, q)
        PROVE  Harmless'
    <2>1. /\ pc[c] = "idle" /\ pc'[c] = FirstStep(q) /\ req'[c] = q
          /\ \A d \in Call \ {c} : pc'[d] = pc[d] /\ req'[d] = req[d]
          /\ UNCHANGED <<wrote, exists, processed, synced, txs>>
          /\ late' = IF StoredFor(q) THEN late \cup {c} ELSE late
      BY <1>1 DEF Start, Goto, TypeInv, TypeOK, wallets
    <2>2. c \notin late /\ c \notin wrote
      BY <2>1 DEF Harmless, CreditInv, Marked
    <2>3. \A k : Stored(k) => Stored(k)'
      BY <2>1 DEF Stored
    <2>4. ASSUME StoredFor(q)
          PROVE  /\ Keyed(q)
                 /\ FirstStep(q) \notin {"idle", "read", "save", "insert", "record"}
                 /\ q.op = "credit" => q.id \in processed[q.ws]
                 /\ q.op = "legacy" => q.ws \in synced /\ q.ws \in exists
                 /\ q.op \in {"deduct", "reserve", "settle"} => Stored(Key(q))
      <3>1. Keyed(q)
        BY <2>4 DEF StoredFor
      <3>2. FirstStep(q) \notin {"idle", "read", "save", "insert", "record"}
        BY <3>1, FirstStepFits
      <3>3. ASSUME q.op = "credit"
            PROVE  q.id \in processed[q.ws]
        <4>1. Key(q) = <<"ext", q.id>> /\ q.ws \in Workspace
          BY <3>1, <3>3, KeyFacts, RequestAssumption DEF RequestType
        <4>2. PICK i \in DOMAIN txs[q.ws] :
                txs[q.ws][i].key = Key(q) /\ txs[q.ws][i].type = "RECHARGE"
          BY <2>4, <3>3 DEF StoredFor
        <4>3. PICK id \in processed[q.ws] : <<"ext", q.id>> = <<"ext", id>>
          BY <4>1, <4>2 DEF Backed
        <4>4. QED
          BY <4>3
      <3>4. ASSUME q.op = "legacy"
            PROVE  q.ws \in synced /\ q.ws \in exists
        BY <2>4, <3>4, KeyFacts DEF StoredFor, Backed
      <3>5. Stored(Key(q))
        BY <2>4 DEF StoredFor, Stored
      <3>6. QED
        BY <3>1, <3>2, <3>3, <3>4, <3>5
    <2>5. QED
      BY <1>0, <2>1, <2>2, <2>3, <2>4 DEF Harmless
  <1>2. ASSUME NEW c \in Call, Progress(c)
        PROVE  Harmless'
    <2>1. /\ req' = req /\ late' = late
          /\ exists \subseteq exists' /\ synced \subseteq synced'
          /\ wrote' \subseteq wrote \cup {c}
          /\ \A w \in Workspace : processed[w] \subseteq processed'[w]
          /\ \A d \in Call \ {c} : pc'[d] = pc[d]
          /\ pc[c] \in Step
      BY <1>2, ProgressFrame
    <2>2. \A k : Stored(k) => Stored(k)'
      BY StoredGrows
    <2>3. \A d \in late : req[d].ws \in Workspace
      BY RequestAssumption DEF Harmless, RequestType
    <2>4. c \in late =>
            /\ c \notin wrote'
            /\ pc'[c] \notin {"idle", "read", "save", "insert", "record"}
      <3> SUFFICES ASSUME c \in late
                   PROVE  /\ wrote' = wrote
                          /\ pc'[c] \in {"create", "increment", "done", "failed"}
        BY DEF Harmless
      <3>1. /\ ~Increment(c) /\ ~ReadWallet(c) /\ ~Refuse(c) /\ ~SaveWallet(c)
            /\ ~InsertLegacy(c) /\ ~InsertRaced(c) /\ ~RecordTx(c)
            /\ ~DuplicateTx(c)
        BY DEF Harmless, Increment, ReadWallet, Refuse, SaveWallet, InsertLegacy,
           InsertRaced, RecordTx, DuplicateTx, TypeInv, Fits
      <3>2. CASE FindLegacy(c)
        <4>1. AfterFind(req[c].ws) = "done"
          BY <3>2 DEF FindLegacy, Harmless, AfterFind
        <4>2. QED
          BY <3>2, <4>1 DEF FindLegacy, Goto, history, TypeInv, TypeOK
      <3>3. CASE CheckKey(c)
        <4>1. Stored(Key(req[c]))
          BY <3>3 DEF CheckKey, Harmless, TypeInv, Fits
        <4>2. QED
          BY <3>3, <4>1 DEF CheckKey, Goto, history, TypeInv, TypeOK
      <3>4. CASE FindWallet(c) \/ CreateWallet(c) \/ Upsert(c) \/ AlreadyCredited(c)
        BY <3>4 DEF FindWallet, CreateWallet, Upsert, AlreadyCredited, Goto,
           history, TypeInv, TypeOK
      <3>5. QED
        BY <1>2, <3>1, <3>2, <3>3, <3>4 DEF Progress
    <2>5. QED
      BY <1>0, <2>1, <2>2, <2>3, <2>4 DEF Harmless
  <1>3. ASSUME NEW c \in Call, Die(c)
        PROVE  Harmless'
    BY <1>3 DEF Die, Goto, wallets, TypeInv, TypeOK, Harmless, Stored
  <1>4. CASE UNCHANGED vars
    BY <1>4 DEF vars, wallets, history, Harmless, Stored
  <1>5. QED
    BY <1>1, <1>2, <1>3, <1>4 DEF Next

\* A call made after its transaction was stored moves no money, however it
\* interleaves with the others.
THEOREM LateCallsAreHarmless == Spec => []LateCallsChangeNothing
  <1>1. LateInv => LateCallsChangeNothing
    BY DEF LateInv, Harmless, LateCallsChangeNothing
  <1>2. QED
    BY TypeInit, TypeStep, CreditInit, CreditStep, LateInit, LateStep, <1>1, PTL
    DEF Spec

-----------------------------------------------------------------------------
(* The audit trail of an undisturbed wallet.  At most one call is ever in  *)
(* progress on it, so what that call has read is still there when it       *)
(* saves, and no transaction of its key appears before its own.            *)

Alone ==
  \A c, d \in Call :
    c # d /\ InProgress(c) /\ InProgress(d) /\ req[c].ws = req[d].ws
      => req[c].ws \in disturbed

Steady ==
  \A c \in Call : req[c] \in Request /\ req[c].ws \notin disturbed =>
    /\ pc[c] = "save" => snap[c] = balance[req[c].ws]
    /\ pc[c] = "record" => /\ Total(snap[c]) = Newest(req[c].ws)
                           /\ balance[req[c].ws] = After(req[c], snap[c])
    /\ pc[c] \in {"read", "save", "record"} /\ Keyed(req[c]) => ~Stored(Key(req[c]))

Settled ==
  \A w \in Workspace \ disturbed :
    \/ Total(balance[w]) = Newest(w)
    \/ \E c \in Call : pc[c] = "record" /\ req[c].ws = w

Chained ==
  \A w \in Workspace \ disturbed : \A i \in DOMAIN txs[w] :
    txs[w][i].prev = IF i = 1 THEN 0 ELSE txs[w][i - 1].new

Blank ==
  \A w \in Workspace \ exists : balance[w] = Empty /\ txs[w] = << >>

Sourced ==
  \A w \in Workspace : \A i \in DOMAIN txs[w] :
    \E q \in Request :
      txs[w][i].key = Key(q) /\ txs[w][i].type = TypeOf(q) /\ q.ws = w

Effective ==
  \A c \in wrote :
    Keyed(req[c]) /\ req[c].ws \notin disturbed =>
      pc[c] = "record" \/ Stored(Key(req[c]))

Once ==
  \A c, d \in wrote :
    Keyed(req[c]) /\ Key(req[c]) = Key(req[d]) /\ req[c].ws \notin disturbed
      => c = d

BookInv ==
  OneUsePerReference =>
    Alone /\ Steady /\ Settled /\ Chained /\ Blank /\ Sourced /\ Effective /\ Once

LEMMA BookInit == Init => BookInv
  <1> SUFFICES ASSUME Init PROVE BookInv
    OBVIOUS
  <1>1. Alone /\ Steady
    BY DEF Init, Alone, Steady, InProgress, Step
  <1>3. Chained /\ Blank /\ Sourced
    <2>1. \A w \in Workspace : txs[w] = << >> /\ balance[w] = Empty
      BY DEF Init
    <2>2. DOMAIN << >> = {}
      OBVIOUS
    <2>3. QED
      BY <2>1, <2>2 DEF Chained, Blank, Sourced
  <1>4. Effective /\ Once
    BY DEF Init, Effective, Once
  <1>2. Settled
    <2>1. Total(Empty) = 0
      BY DEF Total, Empty
    <2>2. \A w \in Workspace : balance[w] = Empty /\ Newest(w) = 0
      BY DEF Init, Newest
    <2>3. QED
      BY <2>1, <2>2 DEF Settled
  <1>5. QED
    BY <1>1, <1>2, <1>3, <1>4 DEF BookInv

\* The only new key after a step is that of the call that stored it.
LEMMA StoredStep ==
  ASSUME TypeInv, NEW c \in Call, Progress(c), NEW k, Stored(k)', ~Stored(k)
  PROVE  RecordTx(c) /\ k = Key(req[c])
  <1> DEFINE w == req[c].ws
  <1>1. CASE txs' = txs
    BY <1>1 DEF Stored
  <1>2. CASE RecordTx(c)
    <2>1. req[c] \in Request /\ w \in Workspace
      BY <1>2, ProgressFrame
    <2>2. /\ txs[w] \in Seq(Tx) /\ Receipt(c) \in Tx
          /\ txs'[w] = Append(txs[w], Receipt(c))
          /\ \A v \in Workspace \ {w} : txs'[v] = txs[v]
      BY <1>2, <2>1, ReceiptType DEF RecordTx, TypeInv, TypeOK
    <2>3. PICK v \in Workspace : \E i \in DOMAIN txs'[v] : txs'[v][i].key = k
      BY DEF Stored
    <2>4. PICK i \in DOMAIN txs'[v] : txs'[v][i].key = k
      BY <2>3
    <2>5. ~(i \in DOMAIN txs[v] /\ txs'[v][i] = txs[v][i])
      BY <2>4 DEF Stored
    <2>6. v = w
      BY <2>2, <2>5
    <2>8. i \in DOMAIN Append(txs[w], Receipt(c)) /\ txs'[v][i] = Receipt(c)
      <3>1. i \in 1 .. Len(txs[w]) + 1 /\ DOMAIN txs[w] = 1 .. Len(txs[w])
        BY <2>2, <2>6
      <3>2. i = Len(txs[w]) + 1
        BY <2>2, <2>5, <2>6, <3>1
      <3>3. QED
        BY <2>2, <2>6, <3>1, <3>2
    <2>7. QED
      BY <1>2, <2>4, <2>8 DEF Receipt
  <1>3. QED
    BY <1>1, <1>2 DEF Progress, FindWallet, CreateWallet, Upsert, Increment,
       AlreadyCredited, CheckKey, ReadWallet, Refuse, SaveWallet, FindLegacy,
       InsertLegacy, InsertRaced, DuplicateTx

\* On a wallet nobody else uses, the saved document is the funded result.
LEMMA SaveAlone ==
  ASSUME NEW b \in Balances, NEW a \in Balances
  PROVE  SetModified(b, b, a) = a
  BY DEF SetModified, Balances

\* A step of one call keeps every other call's part of the invariant: the other
\* call is on another wallet, or the wallet is disturbed.
LEMMA OthersSteady ==
  ASSUME OneUsePerReference, TypeInv, Alone, Steady,
         NEW c \in Call, Progress(c),
         NEW d \in Call \ {c}, req[d] \in Request, req[d].ws \notin disturbed
  PROVE  /\ pc[d] = "save" => snap'[d] = balance'[req[d].ws]
         /\ pc[d] = "record" =>
              /\ Total(snap'[d]) = Newest(req[d].ws)'
              /\ balance'[req[d].ws] = After(req[d], snap'[d])
         /\ pc[d] \in {"read", "save", "record"} /\ Keyed(req[d]) =>
              ~Stored(Key(req[d]))'
  <1>1. /\ req[c] \in Request /\ req' = req /\ pc[c] \in Step
        /\ \A w \in Workspace \ {req[c].ws} :
              balance'[w] = balance[w] /\ txs'[w] = txs[w]
        /\ pc'[d] = pc[d] /\ snap'[d] = snap[d]
    BY ProgressFrame
  <1>2. req[d].ws \in Workspace
    BY RequestAssumption DEF RequestType
  <1>3. SUFFICES ASSUME pc[d] \in {"read", "save", "record"}
                 PROVE  /\ req[d].ws # req[c].ws
                        /\ Keyed(req[d]) => ~Stored(Key(req[d]))'
    BY <1>1, <1>2 DEF Steady, Newest
  <1>4. InProgress(c) /\ InProgress(d)
    BY <1>1, <1>3 DEF InProgress, Step
  <1>5. req[d].ws # req[c].ws
    BY <1>4 DEF Alone
  <1>6. ASSUME Keyed(req[d]), Stored(Key(req[d]))'
        PROVE  FALSE
    <2>1. ~Stored(Key(req[d]))
      BY <1>3, <1>6 DEF Steady
    <2>2. Key(req[d]) = Key(req[c])
      <3>1. \A k : Stored(k)' /\ ~Stored(k) => k = Key(req[c])
        BY StoredStep
      <3>2. PICK k : k = Key(req[d])
        OBVIOUS
      <3>3. Stored(k)'
        BY <1>1, <1>6, <3>2 DEF Stored
      <3>4. QED
        BY <2>1, <3>1, <3>2, <3>3
    <2>3. QED
      BY <1>1, <1>5, <1>6, <2>2 DEF OneUsePerReference
  <1>7. QED
    BY <1>5, <1>6

\* What a step of a call does to an undisturbed wallet that it is alone on.
LEMMA OwnStep ==
  ASSUME OneUsePerReference, TypeInv, CreditInv, LateInv, Alone, Steady, Settled,
         Chained, Blank, Sourced,
         NEW c \in Call, Progress(c), req[c].ws \notin disturbed
  PROVE  /\ pc'[c] = "save" => snap'[c] = balance'[req[c].ws]
         /\ pc'[c] = "record" =>
              /\ Total(snap'[c]) = Newest(req[c].ws)'
              /\ balance'[req[c].ws] = After(req[c], snap'[c])
         /\ pc'[c] \in {"read", "save", "record"} /\ Keyed(req[c]) =>
              ~Stored(Key(req[c]))'
         /\ pc'[c] # "record" => Total(balance'[req[c].ws]) = Newest(req[c].ws)'
         /\ \A i \in DOMAIN txs'[req[c].ws] :
              txs'[req[c].ws][i].prev =
                IF i = 1 THEN 0 ELSE txs'[req[c].ws][i - 1].new
         /\ ~DuplicateTx(c) \/ ~Keyed(req[c])
  <1> DEFINE w == req[c].ws
  <1> DEFINE NotStored == Keyed(req[c]) => ~Stored(Key(req[c]))
  <1> DEFINE Trail(t) == \A i \in DOMAIN t[w] :
                           t[w][i].prev = IF i = 1 THEN 0 ELSE t[w][i - 1].new
  <1>1. /\ req[c] \in Request /\ w \in Workspace /\ req' = req /\ pc[c] \in Step
        /\ balance[w] \in Balances /\ snap[c] \in Balances
    BY ProgressFrame DEF TypeInv, TypeOK
  <1>2. ASSUME pc[c] # "record" PROVE Total(balance[w]) = Newest(w)
    BY <1>1, <1>2 DEF Settled, Alone, InProgress, Step
  <1>3. Trail(txs)
    BY <1>1 DEF Chained
  <1>4. CASE RecordTx(c)
    <2>1. /\ txs[w] \in Seq(Tx) /\ Receipt(c) \in Tx
          /\ txs'[w] = Append(txs[w], Receipt(c))
          /\ pc'[c] = "done" /\ balance' = balance /\ pc[c] = "record"
      BY <1>1, <1>4, ReceiptType DEF RecordTx, Goto, wallets, TypeInv, TypeOK
    <2>2. Total(snap[c]) = Newest(w) /\ balance[w] = After(req[c], snap[c])
      BY <1>1, <2>1 DEF Steady
    <2>3. Newest(w)' = Receipt(c).new
      <3>1. w' = w
        BY <1>1
      <3>2. txs'[w] # << >> /\ txs'[w][Len(txs'[w])] = Receipt(c)
        BY <2>1
      <3>3. QED
        BY <3>1, <3>2 DEF Newest
    <2>4. Total(balance'[w]) = Newest(w)'
      BY <2>1, <2>2, <2>3 DEF Receipt
    <2>5. Receipt(c).prev = Newest(w)
      BY <2>2 DEF Receipt
    <2>6. ASSUME NEW i \in DOMAIN txs'[w]
          PROVE  txs'[w][i].prev = IF i = 1 THEN 0 ELSE txs'[w][i - 1].new
      <3> DEFINE n == Len(txs[w])
      <3>1. n \in Nat /\ i \in 1 .. n + 1 /\ DOMAIN txs[w] = 1 .. n
        BY <2>1, <2>6
      <3>2. \A j \in 1 .. n : txs'[w][j] = txs[w][j]
        BY <2>1
      <3>3. txs'[w][n + 1] = Receipt(c)
        BY <2>1
      <3>4. CASE i \in 1 .. n
        <4>1. txs[w][i].prev = IF i = 1 THEN 0 ELSE txs[w][i - 1].new
          BY <1>3, <3>1, <3>4
        <4>2. i # 1 => i - 1 \in 1 .. n
          BY <3>1, <3>4
        <4>3. QED
          BY <3>2, <3>4, <4>1, <4>2
      <3>5. CASE i = n + 1 /\ n = 0
        <4>1. txs[w] = << >>
          BY <2>1, <3>5
        <4>2. QED
          BY <2>5, <3>3, <3>5, <4>1 DEF Newest
      <3>6. CASE i = n + 1 /\ n # 0
        <4>1. txs[w] # << >> /\ n \in 1 .. n
          BY <2>1, <3>1, <3>6
        <4>2. QED
          BY <2>5, <3>1, <3>2, <3>3, <3>6, <4>1 DEF Newest
      <3>7. QED
        BY <3>1, <3>4, <3>5, <3>6
    <2>7. ~DuplicateTx(c) \/ ~Keyed(req[c])
      BY <1>4 DEF RecordTx, DuplicateTx
    <2>8. QED
      BY <2>1, <2>4, <2>6, <2>7
  <1>5. CASE ~RecordTx(c)
    <2>1. txs' = txs
      BY <1>5 DEF Progress, FindWallet, CreateWallet, Upsert, Increment,
         AlreadyCredited, CheckKey, ReadWallet, Refuse, SaveWallet, FindLegacy,
         InsertLegacy, InsertRaced, DuplicateTx
    <2>2. Newest(w)' = Newest(w)
      BY <1>1, <2>1 DEF Newest
    <2>3. Trail(txs')
      BY <1>3, <2>1
    <2>4. NotStored => (Keyed(req[c]) => ~Stored(Key(req[c]))')
      BY <1>1, <2>1 DEF Stored
    <2>5. pc[c] \in {"read", "save", "record"} => NotStored
      BY <1>1 DEF Steady
    <2>6. SUFFICES
            /\ pc'[c] = "save" => snap'[c] = balance'[w]
            /\ pc'[c] = "record" => /\ Total(snap'[c]) = Newest(w)
                                    /\ balance'[w] = After(req[c], snap'[c])
            /\ pc'[c] \in {"read", "save", "record"} => NotStored
            /\ pc'[c] # "record" => Total(balance'[w]) = Newest(w)
            /\ ~DuplicateTx(c) \/ ~Keyed(req[c])
      BY <2>2, <2>3, <2>4
    <2>7. CASE ReadWallet(c)
      BY <2>7, <1>1, <1>2, <2>5 DEF ReadWallet, Goto, wallets, TypeInv, TypeOK,
         DuplicateTx
    <2>8. CASE CheckKey(c)
      BY <2>8, <1>1, <1>2 DEF CheckKey, Goto, wallets, TypeInv, TypeOK, DuplicateTx
    <2>9. CASE FindLegacy(c)
      <3>1. \/ pc'[c] \in {"insert", "done"}
            \/ pc'[c] = "save" /\ w \notin synced
        <4>1. pc'[c] = AfterFind(w)
          BY <2>9, <1>1 DEF FindLegacy, Goto, TypeInv, TypeOK
        <4>2. QED
          BY <4>1 DEF AfterFind
      <3>2. w \notin synced => NotStored
        BY <2>9, <1>1, KeyFacts DEF FindLegacy, Stored, LateInv, Backed
      <3>3. QED
        BY <2>9, <1>1, <1>2, <3>1, <3>2 DEF FindLegacy, Goto, wallets, TypeInv,
           TypeOK, DuplicateTx
    <2>10. CASE SaveWallet(c)
      <3>1. snap[c] = balance[w] /\ NotStored /\ pc[c] = "save"
        BY <2>10, <1>1 DEF SaveWallet, Steady
      <3>2. After(req[c], snap[c]) \in Balances
        BY <1>1, AfterType
      <3>3. balance'[w] = After(req[c], snap[c])
        BY <2>10, <1>1, <3>1, <3>2, SaveAlone DEF SaveWallet, TypeInv, TypeOK
      <3>4. QED
        BY <2>10, <1>1, <1>2, <3>1, <3>3
        DEF SaveWallet, Goto, TypeInv, TypeOK, DuplicateTx
    <2>11. CASE Increment(c)
      <3>1. req[c].op = "credit" /\ req[c].id # NoId
        BY <2>11 DEF Increment, TypeInv, Fits
      <3>2. NotStored
        <4> SUFFICES ASSUME Keyed(req[c]), NEW v \in Workspace,
                            NEW i \in DOMAIN txs[v], txs[v][i].key = Key(req[c])
                     PROVE  FALSE
          BY DEF Stored
        <4>1. PICK q \in Request : /\ Key(req[c]) = Key(q)
                                   /\ txs[v][i].type = TypeOf(q) /\ q.ws = v
          BY DEF Sourced
        <4>2. q.op = "credit" /\ v = w
          BY <1>1, <3>1, <4>1 DEF OneUsePerReference
        <4>3. txs[v][i].type = "RECHARGE"
          BY <4>1, <4>2, KeyFacts
        <4>4. PICK id \in processed[w] : Key(req[c]) = <<"ext", id>>
          BY <4>2, <4>3 DEF LateInv, Backed
        <4>5. Key(req[c]) = <<"ext", req[c].id>>
          BY <1>1, <3>1, KeyFacts
        <4>6. req[c].id \in processed[w]
          BY <4>4, <4>5
        <4>7. QED
          BY <2>11, <4>6 DEF Increment
      <3>3. /\ pc[c] = "increment" /\ pc'[c] = "record" /\ snap'[c] = balance[w]
            /\ balance'[w] = After(req[c], balance[w])
        BY <2>11, <1>1 DEF Increment, Goto, TypeInv, TypeOK
      <3>4. QED
        BY <1>2, <3>2, <3>3 DEF DuplicateTx
    <2>12. CASE InsertLegacy(c)
      <3>1. w \notin exists /\ req[c].op = "legacy" /\ pc[c] = "insert"
        BY <2>12 DEF InsertLegacy, TypeInv, Fits
      <3>2. NotStored
        BY <1>1, <3>1, KeyFacts DEF Stored, LateInv, Backed
      <3>3. Newest(w) = 0 /\ Total(Empty) = 0
        BY <1>1, <3>1 DEF Blank, Newest, Total, Empty
      <3>4. /\ pc'[c] = "record" /\ snap'[c] = Empty
            /\ balance'[w] = After(req[c], Empty)
        BY <2>12, <1>1 DEF InsertLegacy, Goto, TypeInv, TypeOK
      <3>5. QED
        BY <3>1, <3>2, <3>3, <3>4 DEF DuplicateTx
    <2>13. CASE DuplicateTx(c)
      <3>1. ~Stored(Key(req[c])) /\ Stored(Key(req[c]))
        BY <2>13, <2>5 DEF DuplicateTx
      <3>2. QED
        BY <3>1
    <2>14. CASE FindWallet(c) \/ CreateWallet(c) \/ Upsert(c) \/ AlreadyCredited(c)
                \/ Refuse(c) \/ InsertRaced(c)
      BY <2>14, <1>1, <1>2 DEF FindWallet, CreateWallet, Upsert, AlreadyCredited,
         Refuse, InsertRaced, Goto, wallets, TypeInv, TypeOK, DuplicateTx
    <2>15. QED
      BY <1>5, <2>7, <2>8, <2>9, <2>10, <2>11, <2>12, <2>13, <2>14 DEF Progress
  <1>6. QED
    BY <1>4, <1>5

\* Three steps change a balance, and the call stores its transaction next.
LEMMA WritingSteps ==
  ASSUME TypeInv, NEW c \in Call, Progress(c), c \notin wrote, c \in wrote'
  PROVE  pc'[c] = "record" /\ (Increment(c) \/ SaveWallet(c) \/ InsertLegacy(c))
  <1>1. CASE Increment(c) \/ SaveWallet(c) \/ InsertLegacy(c)
    BY <1>1 DEF Increment, SaveWallet, InsertLegacy, Goto, TypeInv, TypeOK
  <1>2. CASE ~(Increment(c) \/ SaveWallet(c) \/ InsertLegacy(c))
    BY <1>2 DEF Progress, FindWallet, CreateWallet, Upsert,
       AlreadyCredited, CheckKey, ReadWallet, Refuse, FindLegacy, InsertRaced,
       RecordTx, DuplicateTx, wallets, history
  <1>3. QED
    BY <1>1, <1>2

\* On an undisturbed wallet no request takes effect under a key that an earlier
\* one has used.
LEMMA FirstEffect ==
  ASSUME OneUsePerReference, TypeInv, CreditInv, Alone, Steady, Effective,
         NEW c \in Call, Progress(c), c \notin wrote, c \in wrote',
         Keyed(req[c]), req[c].ws \notin disturbed,
         NEW d \in wrote
  PROVE  Key(req[c]) # Key(req[d])
  <1> DEFINE w == req[c].ws
  <1> SUFFICES ASSUME Key(req[c]) = Key(req[d]) PROVE FALSE
    OBVIOUS
  <1>0. wrote \subseteq Call
    BY DEF TypeInv, TypeOK
  <1>1. req[c] \in Request /\ w \in Workspace /\ pc[c] \in Step
    BY ProgressFrame
  <1>2. d \in Call /\ d # c /\ req[d] \in Request
    BY <1>0 DEF CreditInv, Marked, TypeInv, Asked
  <1>3. req[d].op = req[c].op /\ req[d].ws = w
    BY <1>1, <1>2 DEF OneUsePerReference
  <1>4. pc[d] # "record"
    BY <1>1, <1>2, <1>3 DEF Alone, InProgress, Step
  <1>5. Stored(Key(req[c]))
    BY <1>3, <1>4 DEF Effective, Keyed
  <1>6. CASE SaveWallet(c)
    BY <1>1, <1>5, <1>6 DEF SaveWallet, Steady
  <1>7. CASE InsertLegacy(c)
    BY <1>3, <1>7 DEF InsertLegacy, CreditInv, Marked
  <1>8. CASE Increment(c)
    <2>1. req[c].op = "credit" /\ req[c].id # NoId
      BY <1>8 DEF Increment, TypeInv, Fits
    <2>2. req[d].id \in processed[w]
      BY <1>3, <2>1 DEF CreditInv, Marked
    <2>3. Keyed(req[d])
      BY DEF Keyed
    <2>4. Key(req[c]) = <<"ext", req[c].id>> /\ Key(req[d]) = <<"ext", req[d].id>>
      BY <1>1, <1>2, <1>3, <2>1, <2>3, KeyFacts
    <2>5. <<"ext", req[c].id>> = <<"ext", req[d].id>>
      BY <2>4
    <2>6. req[c].id = req[d].id
      BY <2>5
    <2>7. QED
      BY <1>8, <2>2, <2>6 DEF Increment
  <1>9. QED
    BY <1>6, <1>7, <1>8, WritingSteps

LEMMA BookStep ==
  TypeInv /\ CreditInv /\ LateInv /\ BookInv /\ [Next]_vars => BookInv'
  <1> SUFFICES ASSUME TypeInv, CreditInv, LateInv, [Next]_vars,
                      OneUsePerReference, Alone, Steady, Settled, Chained, Blank,
                      Sourced, Effective, Once
               PROVE  /\ Alone' /\ Steady' /\ Settled' /\ Chained' /\ Blank'
                      /\ Sourced' /\ Effective' /\ Once'
    BY DEF BookInv
  <1>0. wrote \subseteq Call
    BY DEF TypeInv, TypeOK
  <1>1. ASSUME NEW c \in Call, NEW q \in Request, Start(c, q)
        PROVE  /\ Alone' /\ Steady' /\ Settled' /\ Chained' /\ Blank'
               /\ Sourced' /\ Effective' /\ Once'
    <2>1. /\ pc[c] = "idle" /\ pc'[c] = FirstStep(q) /\ req'[c] = q
          /\ \A d \in Call \ {c} : pc'[d] = pc[d] /\ req'[d] = req[d]
          /\ UNCHANGED <<balance, txs, exists, snap, wrote>>
          /\ disturbed \subseteq disturbed'
          /\ (\E d \in Call : InProgress(d) /\ On(d, q.ws)) => q.ws \in disturbed'
      BY <1>1 DEF Start, Goto, TypeInv, TypeOK, wallets
    <2>2. /\ FirstStep(q) \notin {"save", "record"}
          /\ FirstStep(q) = "read" => ~Keyed(q)
      BY FirstStepFits
    <2>3. \A k : Stored(k)' <=> Stored(k)
      BY <2>1 DEF Stored
    <2>4. \A w : Newest(w)' = Newest(w)
      BY <2>1 DEF Newest
    <2>5. Alone'
      <3>1. \A d \in Call \ {c} : InProgress(d)' <=> InProgress(d)
        BY <2>1 DEF InProgress
      <3>2. \A d \in Call \ {c} : InProgress(d) => req[d] # NoRequest
        BY NoRequestAssumption DEF InProgress, Step, TypeInv, Asked
      <3>3. \A d \in Call \ {c} :
              InProgress(d) /\ req[d].ws = q.ws => q.ws \in disturbed'
        BY <2>1, <3>2 DEF On
      <3>4. QED
        BY <2>1, <3>1, <3>3 DEF Alone
    <2>6. Steady'
      BY <2>1, <2>2, <2>3, <2>4 DEF Steady
    <2>7. Settled'
      <3>1. \A d \in Call : pc[d] = "record" => pc'[d] = "record" /\ req'[d] = req[d]
        BY <2>1
      <3>2. QED
        BY <2>1, <2>4, <3>1 DEF Settled
    <2>8. Chained' /\ Blank' /\ Sourced'
      BY <2>1 DEF Chained, Blank, Sourced
    <2>9. c \notin wrote
      BY <2>1 DEF CreditInv, Marked
    <2>10. Effective'
      BY <1>0, <2>1, <2>3, <2>9 DEF Effective
    <2>11. Once'
      BY <1>0, <2>1, <2>9 DEF Once
    <2>12. QED
      BY <2>5, <2>6, <2>7, <2>8, <2>10, <2>11
  <1>2. ASSUME NEW c \in Call, Progress(c)
        PROVE  /\ Alone' /\ Steady' /\ Settled' /\ Chained' /\ Blank'
               /\ Sourced' /\ Effective' /\ Once'
    <2> DEFINE w == req[c].ws
    <2>1. /\ req[c] \in Request /\ w \in Workspace
          /\ req' = req /\ disturbed' = disturbed /\ exists \subseteq exists'
          /\ wrote \subseteq wrote' /\ wrote' \subseteq wrote \cup {c}
          /\ \A v \in Workspace \ {w} : balance'[v] = balance[v] /\ txs'[v] = txs[v]
          /\ \A d \in Call \ {c} : pc'[d] = pc[d] /\ snap'[d] = snap[d]
          /\ pc[c] \in Step
      BY <1>2, ProgressFrame
    <2>2. \A k : Stored(k) => Stored(k)'
      BY StoredGrows
    <2>3. Alone'
      BY <2>1 DEF Alone, InProgress
    <2>4. Steady'
      <3> SUFFICES ASSUME NEW d \in Call, req[d] \in Request,
                          req[d].ws \notin disturbed
                   PROVE  /\ pc'[d] = "save" => snap'[d] = balance'[req[d].ws]
                          /\ pc'[d] = "record" =>
                               /\ Total(snap'[d]) = Newest(req[d].ws)'
                               /\ balance'[req[d].ws] = After(req[d], snap'[d])
                          /\ pc'[d] \in {"read", "save", "record"} /\ Keyed(req[d])
                               => ~Stored(Key(req[d]))'
        BY <2>1 DEF Steady
      <3>1. CASE d = c
        BY <1>2, <3>1, OwnStep
      <3>2. CASE d # c
        BY <1>2, <2>1, <3>2, OthersSteady
      <3>3. QED
        BY <3>1, <3>2
    <2>5. Settled'
      <3> SUFFICES ASSUME NEW v \in Workspace \ disturbed,
                          \A d \in Call : ~(pc'[d] = "record" /\ req[d].ws = v)
                   PROVE  Total(balance'[v]) = Newest(v)'
        BY <2>1 DEF Settled
      <3>1. CASE v = w
        <4>1. Total(balance'[w]) = Newest(req[c].ws)'
          BY <1>2, <3>1, OwnStep
        <4>2. QED
          BY <2>1, <3>1, <4>1 DEF Newest
      <3>2. CASE v # w
        <4>1. \A d \in Call : ~(pc[d] = "record" /\ req[d].ws = v)
          BY <2>1, <3>2
        <4>2. Newest(v)' = Newest(v)
          BY <2>1, <3>2 DEF Newest
        <4>3. QED
          BY <2>1, <3>2, <4>1, <4>2 DEF Settled
      <3>3. QED
        BY <3>1, <3>2
    <2>6. Chained'
      <3> SUFFICES ASSUME NEW v \in Workspace \ disturbed, NEW i \in DOMAIN txs'[v]
                   PROVE  txs'[v][i].prev = IF i = 1 THEN 0 ELSE txs'[v][i - 1].new
        BY <2>1 DEF Chained
      <3>1. CASE v = w
        BY <1>2, <3>1, OwnStep
      <3>2. CASE v # w
        BY <2>1, <3>2 DEF Chained
      <3>3. QED
        BY <3>1, <3>2
    <2>7. Blank'
      <3>1. \/ w \in exists'
            \/ balance'[w] = balance[w] /\ txs'[w] = txs[w]
        <4>1. CASE RecordTx(c) \/ SaveWallet(c) \/ Increment(c)
          <5>1. pc[c] \in {"record", "save", "increment"}
            BY <4>1 DEF RecordTx, SaveWallet, Increment
          <5>2. pc[c] = "record" => c \in wrote
            BY DEF CreditInv, Located
          <5>3. w \in exists
            BY <5>1, <5>2 DEF CreditInv, Located, Marked
          <5>4. QED
            BY <2>1, <5>3
        <4>2. CASE InsertLegacy(c)
          BY <4>2 DEF InsertLegacy
        <4>3. CASE FindWallet(c) \/ CreateWallet(c) \/ Upsert(c) \/ AlreadyCredited(c)
                   \/ CheckKey(c) \/ ReadWallet(c) \/ Refuse(c) \/ FindLegacy(c)
                   \/ InsertRaced(c) \/ DuplicateTx(c)
          BY <4>3 DEF FindWallet, CreateWallet, Upsert, AlreadyCredited, CheckKey,
             ReadWallet, Refuse, FindLegacy, InsertRaced, DuplicateTx, wallets
        <4>4. QED
          BY <1>2, <4>1, <4>2, <4>3 DEF Progress
      <3>2. QED
        BY <2>1, <3>1 DEF Blank
    <2>8. Sourced'
      <3>1. CASE txs' = txs
        BY <3>1 DEF Sourced
      <3>2. CASE RecordTx(c)
        <4>1. /\ txs[w] \in Seq(Tx) /\ Receipt(c) \in Tx
              /\ txs'[w] = Append(txs[w], Receipt(c))
          BY <2>1, <3>2, ReceiptType DEF RecordTx, TypeInv, TypeOK
        <4> SUFFICES ASSUME NEW v \in Workspace, NEW i \in DOMAIN txs'[v]
                     PROVE  \E q \in Request : /\ txs'[v][i].key = Key(q)
                                              /\ txs'[v][i].type = TypeOf(q)
                                              /\ q.ws = v
          BY DEF Sourced
        <4>2. \/ i \in DOMAIN txs[v] /\ txs'[v][i] = txs[v][i]
              \/ v = w /\ txs'[v][i] = Receipt(c)
          <5>1. DOMAIN txs'[w] = DOMAIN txs[w] \cup {Len(txs[w]) + 1}
            BY <4>1
          <5>2. \A j \in DOMAIN txs[w] : txs'[w][j] = txs[w][j]
            BY <4>1
          <5>3. txs'[w][Len(txs[w]) + 1] = Receipt(c)
            BY <4>1
          <5>4. QED
            BY <2>1, <5>1, <5>2, <5>3
        <4>3. QED
          BY <2>1, <4>2 DEF Sourced, Receipt
      <3>3. QED
        BY <1>2, <3>1, <3>2 DEF Progress, FindWallet, CreateWallet, Upsert,
           Increment, AlreadyCredited, CheckKey, ReadWallet, Refuse, SaveWallet,
           FindLegacy, InsertLegacy, InsertRaced, DuplicateTx
    <2>9. c \in wrote => pc[c] = "record"
      BY <2>1 DEF CreditInv, Marked, Step
    <2>10. c \in wrote' /\ c \notin wrote => pc'[c] = "record"
      BY <1>2, WritingSteps
    <2>11. Effective'
      <3> SUFFICES ASSUME NEW d \in wrote', Keyed(req[d]), req[d].ws \notin disturbed,
                          pc'[d] # "record"
                   PROVE  Stored(Key(req[d]))'
        BY <2>1 DEF Effective
      <3>1. CASE d # c
        <4>1. d \in wrote /\ d \in Call /\ pc[d] # "record"
          BY <1>0, <2>1, <3>1
        <4>2. PICK k : k = Key(req[d])
          OBVIOUS
        <4>3. Stored(k)'
          BY <2>2, <4>1, <4>2 DEF Effective
        <4>4. QED
          BY <2>1, <4>2, <4>3 DEF Stored
      <3>2. CASE d = c
        <4>1. c \in wrote /\ pc[c] = "record"
          BY <2>9, <2>10, <3>2
        <4>2. ~DuplicateTx(c)
          BY <1>2, <3>2, OwnStep
        <4>3. RecordTx(c)
          BY <1>2, <4>1, <4>2 DEF Progress, FindWallet, CreateWallet, Upsert,
             Increment, AlreadyCredited, CheckKey, ReadWallet, Refuse, SaveWallet,
             FindLegacy, InsertLegacy, InsertRaced
        <4>4. /\ txs[w] \in Seq(Tx) /\ Receipt(c) \in Tx
              /\ txs'[w] = Append(txs[w], Receipt(c))
          BY <2>1, <4>3, ReceiptType DEF RecordTx, TypeInv, TypeOK
        <4>5. /\ Len(txs[w]) + 1 \in DOMAIN txs'[w]
              /\ txs'[w][Len(txs[w]) + 1] = Receipt(c)
          BY <4>4
        <4>6. QED
          BY <2>1, <3>2, <4>5 DEF Stored, Receipt
      <3>3. QED
        BY <3>1, <3>2
    <2>12. ASSUME NEW d \in wrote, c \in wrote', c \notin wrote, Keyed(req[c]),
                  Key(req[c]) = Key(req[d]), w \notin disturbed
           PROVE  FALSE
      BY <1>2, <2>12, FirstEffect
    <2>13. Once'
      <3> SUFFICES ASSUME NEW d \in wrote', NEW e \in wrote', Keyed(req[d]),
                          Key(req[d]) = Key(req[e]), req[d].ws \notin disturbed, d # e
                   PROVE  FALSE
        BY <2>1 DEF Once
      <3>1. CASE d \in wrote /\ e \in wrote
        BY <3>1 DEF Once
      <3>2. CASE d = c /\ c \notin wrote
        BY <2>1, <2>12, <3>2
      <3>3. CASE e = c /\ c \notin wrote
        <4>1. d \in wrote /\ d \in Call /\ req[d] \in Request
          BY <1>0, <2>1, <3>3 DEF CreditInv, Marked, TypeInv, Asked
        <4>2. Keyed(req[c]) /\ w \notin disturbed
          BY <2>1, <3>3, <4>1 DEF OneUsePerReference, Keyed
        <4>3. QED
          BY <2>1, <2>12, <3>3, <4>1, <4>2
      <3>4. QED
        BY <2>1, <3>1, <3>2, <3>3
    <2>14. QED
      BY <2>3, <2>4, <2>5, <2>6, <2>7, <2>8, <2>11, <2>13
  <1>3. ASSUME NEW c \in Call, Die(c)
        PROVE  /\ Alone' /\ Steady' /\ Settled' /\ Chained' /\ Blank'
               /\ Sourced' /\ Effective' /\ Once'
    <2>1. /\ pc'[c] = "died" /\ \A d \in Call \ {c} : pc'[d] = pc[d]
          /\ UNCHANGED <<balance, txs, exists, snap, wrote, req>>
          /\ disturbed \subseteq disturbed'
          /\ pc[c] = "record" => req[c].ws \in disturbed'
      BY <1>3 DEF Die, Goto, TypeInv, TypeOK, wallets
    <2>2. \A k : Stored(k)' <=> Stored(k)
      BY <2>1 DEF Stored
    <2>3. \A w : Newest(w)' = Newest(w)
      BY <2>1 DEF Newest
    <2>4. Alone'
      BY <2>1 DEF Alone, InProgress, Step
    <2>5. Steady'
      BY <2>1, <2>2, <2>3 DEF Steady
    <2>6. Settled'
      BY <2>1, <2>3 DEF Settled
    <2>7. Chained' /\ Blank' /\ Sourced'
      BY <2>1 DEF Chained, Blank, Sourced
    <2>8. Effective' /\ Once'
      BY <1>0, <2>1, <2>2 DEF Effective, Once
    <2>9. QED
      BY <2>4, <2>5, <2>6, <2>7, <2>8
  <1>4. CASE UNCHANGED vars
    <2>1. UNCHANGED <<balance, txs, exists, snap, wrote, req, pc, disturbed>>
      BY <1>4 DEF vars, wallets, history
    <2>2. QED
      BY <2>1 DEF Alone, Steady, Settled, Chained, Blank, Sourced, Effective, Once,
         InProgress, Newest, Stored
  <1>5. QED
    BY <1>1, <1>2, <1>3, <1>4 DEF Next

\* The transactions of an undisturbed wallet are a gapless audit trail.
THEOREM AuditTrailKept == Spec => []AuditTrail
  <1>1. TypeInv /\ BookInv => AuditTrail
    <2> SUFFICES ASSUME TypeInv, BookInv, OneUsePerReference, NEW w \in Workspace \ disturbed
                 PROVE  /\ \A i \in DOMAIN txs[w] :
                             txs[w][i].prev = IF i = 1 THEN 0 ELSE txs[w][i - 1].new
                        /\ \/ Total(balance[w]) = Newest(w)
                           \/ \E c \in Call : pc[c] = "record" /\ On(c, w)
      BY DEF AuditTrail
    <2>1. \A c \in Call : pc[c] = "record" => req[c] # NoRequest
      BY NoRequestAssumption DEF TypeInv, Asked
    <2>2. QED
      BY <2>1 DEF BookInv, Settled, Chained, On
  <1>2. QED
    BY TypeInit, TypeStep, CreditInit, CreditStep, LateInit, LateStep, BookInit,
       BookStep, <1>1, PTL DEF Spec

\* A keyed operation moves money at most once on an undisturbed wallet.
THEOREM KeyedOperationsApplyOnce == Spec => []AppliedOnce
  <1>1. BookInv => AppliedOnce
    BY DEF BookInv, Once, AppliedOnce
  <1>2. QED
    BY TypeInit, TypeStep, CreditInit, CreditStep, LateInit, LateStep, BookInit,
       BookStep, <1>1, PTL DEF Spec

-----------------------------------------------------------------------------
(* The detailed ledger implements the atomic one.                          *)

TakenOn(w) == {Key(req[c]) : c \in {d \in wrote : On(d, w) /\ Keyed(req[d])}}

\* A step that changes no balance of a wallet adds no key to it either.
LEMMA TakenSame ==
  ASSUME TypeInv, CreditInv, wrote' = wrote, NEW c \in Call,
         c \in wrote => req' = req,
         \A d \in Call \ {c} : req'[d] = req[d],
         NEW w
  PROVE  TakenOn(w)' = TakenOn(w)
  <1>1. \A d \in wrote : req'[d] = req[d]
    BY DEF TypeInv, TypeOK
  <1>2. QED
    BY <1>1 DEF TakenOn, On

\* The step that changes the balance is the step of the atomic ledger.
LEMMA EffectIsApply ==
  ASSUME OneUsePerReference, TypeInv, OverdraftInv, CreditInv, LateInv, BookInv,
         NEW c \in Call, Progress(c), c \notin wrote, c \in wrote',
         req[c].ws \notin disturbed
  PROVE  Atomic!Apply(req[c])
  <1> DEFINE q == req[c]
             w == req[c].ws
  <1> USE DEF BookInv
  <1>1. /\ q \in Request /\ w \in Workspace /\ req' = req
        /\ disturbed' = disturbed /\ wrote' = wrote \cup {c}
        /\ \A v \in Workspace \ {w} : balance'[v] = balance[v]
        /\ balance \in [Workspace -> Balances] /\ snap[c] \in Balances
    BY ProgressFrame DEF TypeInv, TypeOK
  <1>2. Increment(c) \/ SaveWallet(c) \/ InsertLegacy(c)
    BY WritingSteps
  <1>3. Key(q) \notin TakenOn(w)
    <2>1. CASE Keyed(q)
      BY <2>1, FirstEffect DEF TakenOn
    <2>2. CASE ~Keyed(q)
      BY <2>2 DEF TakenOn, Keyed
    <2>3. QED
      BY <2>1, <2>2
  <1>4. Funded(q, balance[w]) /\ balance'[w] = After(q, balance[w])
        /\ balance' = [balance EXCEPT ![w] = balance'[w]]
    <2>1. CASE Increment(c)
      BY <1>1, <2>1 DEF Increment, Funded, TypeInv, Fits
    <2>2. CASE SaveWallet(c)
      <3>1. pc[c] = "save" /\ snap[c] = balance[w]
        BY <1>1, <2>2 DEF SaveWallet, Steady
      <3>2. Funded(q, balance[w])
        BY <3>1 DEF OverdraftInv, Covered
      <3>3. After(q, snap[c]) \in Balances
        BY <1>1, AfterType
      <3>4. balance'[w] = After(q, balance[w])
        BY <1>1, <2>2, <3>1, <3>3, SaveAlone DEF SaveWallet
      <3>5. balance' = [balance EXCEPT ![w] = balance'[w]]
        BY <1>1, <2>2 DEF SaveWallet
      <3>6. QED
        BY <3>2, <3>4, <3>5
    <2>3. CASE InsertLegacy(c)
      <3>1. balance[w] = Empty
        BY <1>1, <2>3 DEF InsertLegacy, Blank
      <3>2. QED
        BY <1>1, <2>3, <3>1 DEF InsertLegacy, Funded, TypeInv, Fits
    <2>4. QED
      BY <1>2, <2>1, <2>2, <2>3
  <1>5. \A v \in Workspace :
          TakenOn(v)' = IF v = w THEN TakenOn(w) \cup ({Key(q)} \ {NoKey})
                        ELSE TakenOn(v)
    <2>1. q # NoRequest
      BY <1>1, NoRequestAssumption
    <2>2. QED
      BY <1>1, <2>1 DEF TakenOn, On, Keyed
  <1>6. \A b : /\ Atomic!Key(q) = Key(q) /\ Atomic!NoKey = NoKey
              /\ Atomic!Funded(q, b) = Funded(q, b)
              /\ Atomic!After(q, b) = After(q, b)
    BY DEF Atomic!Key, Key, Atomic!NoKey, NoKey, Atomic!Funded, Funded,
       Atomic!After, After
  <1>7. balance' = [balance EXCEPT ![w] = After(q, balance[w])]
    BY <1>4
  <1>8. [v \in Workspace |-> TakenOn(v)'] =
          [[v \in Workspace |-> TakenOn(v)] EXCEPT
             ![w] = TakenOn(w) \cup ({Key(q)} \ {NoKey})]
    BY <1>1, <1>5
  <1>9. QED
    BY <1>1, <1>3, <1>4, <1>6, <1>7, <1>8 DEF Atomic!Apply, TakenOn

\* A step that leaves every wallet nobody may disturb as it is.
LEMMA QuietIsInterfere ==
  ASSUME disturbed \subseteq disturbed',
         \A w \in Workspace \ disturbed' :
            balance'[w] = balance[w] /\ TakenOn(w)' = TakenOn(w)
  PROVE  Atomic!Interfere
  BY DEF Atomic!Interfere, TakenOn

LEMMA AtomicStep ==
  ASSUME OneUsePerReference, TypeInv, OverdraftInv, CreditInv, LateInv, BookInv,
         [Next]_vars
  PROVE  [Atomic!Next]_(Atomic!vars)
  <1>1. ASSUME NEW c \in Call, NEW q \in Request, Start(c, q)
        PROVE  Atomic!Interfere
    <2>1. /\ c \notin wrote /\ wrote' = wrote /\ balance' = balance
          /\ \A d \in Call \ {c} : req'[d] = req[d]
          /\ disturbed \subseteq disturbed'
      BY <1>1 DEF Start, wallets, CreditInv, Marked, TypeInv, TypeOK
    <2>2. QED
      BY <2>1, TakenSame, QuietIsInterfere
  <1>2. ASSUME NEW c \in Call, Progress(c)
        PROVE  Atomic!Apply(req[c]) \/ Atomic!Interfere
    <2> DEFINE w == req[c].ws
    <2>1. /\ req[c] \in Request /\ w \in Workspace
          /\ req' = req /\ disturbed' = disturbed
          /\ wrote \subseteq wrote' /\ wrote' \subseteq wrote \cup {c}
          /\ \A v \in Workspace \ {w} : balance'[v] = balance[v]
      BY <1>2, ProgressFrame
    <2>2. CASE c \in wrote' /\ c \notin wrote /\ w \notin disturbed
      BY <1>2, <2>2, EffectIsApply
    <2>3. CASE c \in wrote' /\ c \notin wrote /\ w \in disturbed
      <3>1. \A v \in Workspace \ {w} : TakenOn(v)' = TakenOn(v)
        BY <2>1, <2>3 DEF TakenOn, On
      <3>2. QED
        BY <2>1, <2>3, <3>1, QuietIsInterfere
    <2>4. CASE ~(c \in wrote' /\ c \notin wrote)
      <3>1. wrote' = wrote
        BY <2>1, <2>4
      <3>2. balance' = balance
        <4>1. c \in wrote => pc[c] = "record"
          BY <1>2, ProgressFrame DEF CreditInv, Marked, Step
        <4>2. CASE Increment(c) \/ SaveWallet(c) \/ InsertLegacy(c)
          BY <3>1, <4>1, <4>2 DEF Increment, SaveWallet, InsertLegacy
        <4>3. CASE ~(Increment(c) \/ SaveWallet(c) \/ InsertLegacy(c))
          BY <1>2, <4>3 DEF Progress, FindWallet, CreateWallet, Upsert,
             AlreadyCredited, CheckKey, ReadWallet, Refuse, FindLegacy,
             InsertRaced, RecordTx, DuplicateTx, wallets
        <4>4. QED
          BY <4>2, <4>3
      <3>3. QED
        BY <2>1, <3>1, <3>2, TakenSame, QuietIsInterfere
    <2>5. QED
      BY <2>2, <2>3, <2>4
  <1>3. ASSUME NEW c \in Call, Die(c)
        PROVE  Atomic!Interfere
    <2>1. /\ wrote' = wrote /\ balance' = balance /\ req' = req
          /\ disturbed \subseteq disturbed'
      BY <1>3 DEF Die, wallets
    <2>2. QED
      BY <2>1, TakenSame, QuietIsInterfere
  <1>4. CASE UNCHANGED vars
    BY <1>4 DEF vars, wallets, history, Atomic!vars, On
  <1>5. ASSUME NEW c \in Call, Progress(c)
        PROVE  req[c] \in Request
    BY <1>5, ProgressFrame
  <1>6. QED
    BY <1>1, <1>2, <1>3, <1>4, <1>5 DEF Next, Atomic!Next

\* To its callers an undisturbed wallet is the atomic ledger, for any number of
\* calls, wallets and requests.
THEOREM LedgerImplementsAtomic ==
  ASSUME OneUsePerReference
  PROVE  Spec => ImplementsAtomicLedger
  <1>1. Init => Atomic!Init
    BY DEF Init, Atomic!Init, Empty
  <1>2. TypeInv /\ OverdraftInv /\ CreditInv /\ LateInv /\ BookInv /\ [Next]_vars
          => [Atomic!Next]_(Atomic!vars)
    BY AtomicStep
  <1>3. QED
    BY TypeInit, TypeStep, OverdraftInit, OverdraftStep, CreditInit, CreditStep,
       LateInit, LateStep, BookInit, BookStep, <1>1, <1>2, PTL
    DEF Spec, ImplementsAtomicLedger, Atomic!Spec
=============================================================================

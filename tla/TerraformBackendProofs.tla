----------------------- MODULE TerraformBackendProofs -----------------------
(***************************************************************************)
(* Proofs about TerraformBackend, for any number of clients and requests:  *)
(* its types, mutual exclusion of the holders of a plan's lock, and that   *)
(* the handlers implement PlanLock.  Mutual exclusion assumes that nobody  *)
(* runs `plans unlock` and that no unlock request outlives its connection; *)
(* the refinement assumes the latter of the state PUT as well.             *)
(***************************************************************************)
EXTENDS TerraformBackend, TLAPS

Live(s, op) == reqs[s].op = op /\ reqs[s].st \in Running

\* The request a waiting client waits for is the one its pc says.
WaitOp == [locking |-> "lock", reading |-> "get", writing |-> "put",
           unlocking |-> "unlock", lockgetting |-> "lockget"]

WaitsForCurrent ==
  \A c \in Clients : pc[c] \in Waiting => Current(c).op = WaitOp[pc[c]]

\* A waiting client has sent a request.
HasSent == \A c \in Clients : pc[c] \in Waiting => <<c, sent[c]>> \in Slots

TypeInv == TypeOK /\ HasSent

\* A handler works on its client's own lock.
OwnArg ==
  \A s \in Slots : reqs[s].op \in {"lock", "put", "unlock"} => reqs[s].arg = s[1]

HolderOwns == \A c \in Clients : pc[c] \in Holding => lock = c

GrantOwns ==
  \A c \in Clients :
    pc[c] = "locking" /\ Current(c).st \in {"200", "423"} => lock = c

\* An unlock handler is its client's last request.
UnlockIsLast ==
  \A s \in Slots : Live(s, "unlock") =>
    s[2] = sent[s[1]] /\ pc[s[1]] \in Finished \union {"unlocking"}

DeleteOwns ==
  \A s \in Slots : reqs[s].op = "unlock" /\ reqs[s].st = "delete" => lock = s[1]

LockInv ==
  /\ TypeInv /\ WaitsForCurrent /\ OwnArg
  /\ HolderOwns /\ GrantOwns /\ UnlockIsLast /\ DeleteOwns

-----------------------------------------------------------------------------
\* What terraform read is still the state, until it writes.
ViewIsState ==
  \A c \in Clients :
    /\ pc[c] = "applying" => view[c].st = tfstate
    /\ pc[c] = "reading" /\ Current(c).st = "200" => Current(c).data = tfstate

\* A PUT that may still be written, now or when it is sent again.
Pending(s) ==
  /\ reqs[s].op = "put"
  /\ \/ reqs[s].st \in Running
     \/ /\ reqs[s].st = "500"
        /\ s[2] = sent[s[1]]
        /\ pc[s[1]] = "writing"

PutExtendsState ==
  \A s \in Slots : Pending(s) =>
    /\ s[2] = sent[s[1]]
    /\ pc[s[1]] \in {"writing", "crashed"}
    /\ lock = s[1]
    /\ reqs[s].data = tfstate \union {s[1]}

StateInv == LockInv /\ ViewIsState /\ PutExtendsState

-----------------------------------------------------------------------------
\* A handler that moves on keeps its slot well typed.
LEMMA ReplyType ==
  ASSUME TypeOK, NEW s \in Slots, NEW st \in Running \union Answers,
         NEW arg \in Clients \union {NoLock}, NEW data \in SUBSET Clients,
         Reply(s, arg, data, st)
  PROVE  reqs' \in [Slots -> Requests]
  BY DEF Reply, TypeOK, Requests, NoRequest, Ops

\* So does a client that sends a request.
LEMMA SendType ==
  ASSUME TypeOK, NEW c \in Clients, NEW op \in Ops,
         NEW arg \in Clients \union {NoLock}, NEW data \in SUBSET Clients,
         NEW to \in PCs, Send(c, op, arg, data, to)
  PROVE  /\ lock' = lock /\ tfstate' = tfstate
         /\ reqs' \in [Slots -> Requests]
         /\ sent' \in [Clients -> 0..MaxReqs]
         /\ pc' = [pc EXCEPT ![c] = to] /\ pc' \in [Clients -> PCs]
         /\ <<c, sent'[c]>> \in Slots
         /\ \A d \in Clients \ {c} : sent'[d] = sent[d]
  <1>1. sent[c] + 1 \in 1..MaxReqs
    BY BoundAssumption DEF TypeOK, Send
  <1>2. <<c, sent[c] + 1>> \in Slots
    BY <1>1 DEF Slots
  <1>3. [op |-> op, arg |-> arg, data |-> data, st |-> "recv"] \in Requests
    BY DEF Requests, Running
  <1>4. reqs' \in [Slots -> Requests]
    BY <1>2, <1>3 DEF TypeOK, Send
  <1>5. /\ sent' \in [Clients -> 0..MaxReqs] /\ sent'[c] = sent[c] + 1
        /\ \A d \in Clients \ {c} : sent'[d] = sent[d]
    BY <1>1, BoundAssumption DEF TypeOK, Send
  <1> QED BY <1>2, <1>4, <1>5 DEF TypeOK, Send

\* And one that takes an answer.
LEMMA ReceiveType ==
  ASSUME TypeOK, NEW c \in Clients, NEW at, NEW answers, NEW to \in PCs,
         Receive(c, at, answers, to)
  PROVE  /\ lock' = lock /\ tfstate' = tfstate /\ sent' = sent
         /\ reqs' \in [Slots -> Requests]
         /\ pc' = [pc EXCEPT ![c] = to] /\ pc' \in [Clients -> PCs]
  BY DEF TypeOK, Receive, Requests, NoRequest, Ops

\* Every step of clusterd keeps the types.
LEMMA ServeType ==
  ASSUME TypeOK, NEW s \in Slots, Serve(s) \/ HandlerFails(s)
  PROVE  TypeOK'
  <1> USE DEF At, LockAnswer, Running, Answers
  <1>1. reqs[s] \in Requests
    BY DEF TypeOK
  <1>2. /\ UNCHANGED <<sent, pc, view>>
        /\ lock' \in Clients \union {NoLock}
        /\ tfstate' \in SUBSET Clients
    BY <1>1 DEF TypeOK, Serve, HandlerFails, LockGet, LockCreate, LockReread,
      StateCheck, StateWrite, StateGet, UnlockCheck, UnlockDelete, LockShow,
      HandlerError, HandlerCancelled, Requests
  <1>3. reqs' \in [Slots -> Requests]
    <2>1. CASE LockGet(s) \/ LockCreate(s) \/ LockReread(s) \/ StateCheck(s)
               \/ StateWrite(s) \/ UnlockCheck(s) \/ UnlockDelete(s)
               \/ HandlerError(s)
      <3>1. \E st \in Running \union Answers : Goto(s, st)
        BY <2>1 DEF LockGet, LockCreate, LockReread, StateCheck, StateWrite,
          UnlockCheck, UnlockDelete, HandlerError
      <3> QED BY <1>1, <3>1, ReplyType DEF Goto, Requests
    <2>2. CASE StateGet(s)
      BY <2>2, <1>1, ReplyType DEF TypeOK, StateGet, Requests
    <2>3. CASE LockShow(s)
      <3>1. \E st \in {"404", "200"} : Reply(s, lock, {}, st)
        BY <2>3 DEF LockShow
      <3>2. lock \in Clients \union {NoLock} /\ {} \in SUBSET Clients
        BY DEF TypeOK
      <3> QED BY <3>1, <3>2, ReplyType
    <2>4. CASE HandlerCancelled(s)
      BY <2>4 DEF TypeOK, HandlerCancelled, Requests, NoRequest, Ops
    <2> QED BY <2>1, <2>2, <2>3, <2>4 DEF Serve, HandlerFails
  <1> QED BY <1>2, <1>3 DEF TypeOK

\* Every step of a client keeps them.
LEMMA ClientType ==
  ASSUME TypeInv, NEW c \in Clients,
         TerraformStep(c) \/ OperatorStep(c) \/ LockStep(c) \/ Fault(c)
  PROVE  TypeInv'
  <1> USE DEF TypeInv
  <1>a. /\ c \in Clients \union {NoLock} /\ {} \in SUBSET Clients
        /\ NoLock \in Clients \union {NoLock}
        /\ view[c].lk \in Clients \union {NoLock}
        /\ view[c].st \union {c} \in SUBSET Clients
        /\ pc[c] \in PCs
    BY DEF TypeOK
  <1>b. ASSUME NEW op \in Ops, NEW arg \in Clients \union {NoLock},
               NEW data \in SUBSET Clients, NEW to \in PCs,
               Send(c, op, arg, data, to), UNCHANGED view
        PROVE  TypeInv'
    <2>1. /\ lock' = lock /\ tfstate' = tfstate /\ view' = view
          /\ reqs' \in [Slots -> Requests]
          /\ sent' \in [Clients -> 0..MaxReqs]
          /\ pc' = [pc EXCEPT ![c] = to] /\ pc' \in [Clients -> PCs]
          /\ <<c, sent'[c]>> \in Slots
          /\ \A d \in Clients \ {c} : sent'[d] = sent[d]
      BY <1>b, SendType
    <2>2. HasSent'
      BY <2>1 DEF HasSent, TypeOK
    <2> QED BY <2>1, <2>2 DEF TypeOK
  <1>c. ASSUME NEW at, NEW answers, NEW to \in PCs \ Waiting,
               Receive(c, at, answers, to),
               view' \in [Clients -> [st : SUBSET Clients,
                                      lk : Clients \union {NoLock}]]
        PROVE  TypeInv'
    BY <1>c, ReceiveType DEF TypeOK, HasSent, Waiting
  <1>d. ASSUME NEW to \in PCs \ Waiting, pc' = [pc EXCEPT ![c] = to],
               UNCHANGED <<lock, tfstate, reqs, sent, view>>
        PROVE  TypeInv'
    BY <1>d DEF TypeOK, HasSent, Waiting
  <1>1. CASE RequestLock(c) \/ RetryLock(c) \/ ReadState(c)
             \/ RequestUnlock(c) \/ ShowLock(c)
    <2>1. \E op \in Ops, arg \in Clients \union {NoLock}, to \in PCs :
             Send(c, op, arg, {}, to) /\ UNCHANGED view
      BY <1>1, <1>a DEF RequestLock, RetryLock, ReadState, RequestUnlock, ShowLock,
        PCs, Ops
    <2> QED BY <2>1, <1>a, <1>b
  <1>2. CASE WriteState(c)
    BY <1>2, <1>a, <1>b DEF WriteState, PCs, Ops
  <1>3. CASE ForceUnlock(c)
    BY <1>3, <1>a, <1>b DEF ForceUnlock, PCs, Ops
  <1>4. CASE Resend(c)
    <2>1. Current(c) \in Requests
      BY <1>4 DEF TypeOK, HasSent, Resend, Current
    <2>2. Current(c).op \in Ops /\ Current(c).data \in SUBSET Clients
      BY <2>1 DEF Requests
    <2>3. Send(c, Current(c).op, c, Current(c).data, pc[c]) /\ UNCHANGED view
      BY <1>4 DEF Resend
    <2> QED BY <2>2, <2>3, <1>a, <1>b
  <1>5. CASE LockGranted(c) \/ LockRefused(c) \/ ReadFailed(c) \/ StateWritten(c)
             \/ Unlocked(c) \/ UnlockFailed(c) \/ NoLockShown(c)
    <2>1. \E at \in PCs, to \in PCs \ Waiting : \E answers \in SUBSET Answers :
             Receive(c, at, answers, to) /\ UNCHANGED view
      BY <1>5 DEF LockGranted, LockRefused, ReadFailed, StateWritten, Unlocked,
        UnlockFailed, NoLockShown, Waiting, Answers, PCs
    <2> QED BY <2>1, <1>c DEF TypeOK
  <1>6. CASE StateRead(c) \/ LockShown(c)
    <2>1. Current(c) \in Requests
      BY <1>6 DEF TypeOK, HasSent, StateRead, LockShown, Receive, Current, Waiting
    <2>2. Current(c).arg \in Clients \union {NoLock} /\ Current(c).data \in SUBSET Clients
      BY <2>1 DEF Requests
    <2>3. view' \in [Clients -> [st : SUBSET Clients, lk : Clients \union {NoLock}]]
      BY <1>6, <2>2 DEF TypeOK, StateRead, LockShown
    <2> QED BY <1>6, <2>3, <1>c DEF StateRead, LockShown, Waiting, PCs
  <1>7. CASE GiveUp(c) \/ Crash(c)
    <2>1. \E to \in PCs \ Waiting : /\ pc' = [pc EXCEPT ![c] = to]
             /\ UNCHANGED <<lock, tfstate, reqs, sent, view>>
      BY <1>7 DEF GiveUp, Crash, Waiting, PCs
    <2> QED BY <2>1, <1>d
  <1> QED BY <1>1, <1>2, <1>3, <1>4, <1>5, <1>6, <1>7
        DEF TerraformStep, OperatorStep, LockStep, Fault

\* The rows, the handlers and the clients always have the values their code
\* can give them, for any clients and any bound on the requests.
THEOREM TypeCorrect == Spec => []TypeOK
  <1>1. Init => TypeInv
    BY BoundAssumption DEF Init, TypeInv, TypeOK, HasSent, Requests, NoRequest,
      Ops, PCs, Waiting
  <1>2. TypeInv /\ [Next]_vars => TypeInv'
    <2> SUFFICES ASSUME TypeInv, [Next]_vars PROVE TypeInv'
      OBVIOUS
    <2>1. ASSUME NEW s \in Slots, Serve(s) \/ HandlerFails(s) PROVE TypeInv'
      BY <2>1, ServeType DEF TypeInv, HasSent, Serve, HandlerFails
    <2>2. CASE UNCHANGED vars
      BY <2>2 DEF vars, TypeInv, TypeOK, HasSent
    <2> QED BY <2>1, <2>2, ClientType DEF Next
  <1> QED BY <1>1, <1>2, PTL DEF Spec, TypeInv

-----------------------------------------------------------------------------
\* The assumptions of mutual exclusion.
NobodyForces == Operators = {} /\ "unlock" \notin Breakable

\* What a step of the handler of slot s does to the slots.
LEMMA SlotEffect ==
  ASSUME TypeOK, NEW s \in Slots, Serve(s) \/ HandlerFails(s)
  PROVE  /\ \A t \in Slots : t # s => reqs'[t] = reqs[t]
         /\ \/ reqs'[s] = NoRequest /\ Abandoned(s)
            \/ /\ reqs'[s].op = reqs[s].op
               /\ reqs[s].op # "lockget" => reqs'[s].arg = reqs[s].arg
               /\ reqs[s].op # "get" => reqs'[s].data = reqs[s].data \/ reqs[s].op = "lockget"
         /\ reqs[s].st \in Running
         /\ UNCHANGED <<sent, pc, view>>
  <1> USE DEF Running
  <1>1. UNCHANGED <<sent, pc, view>> /\ reqs[s].st \in Running
    BY DEF Serve, HandlerFails, At, LockGet, LockCreate, LockReread, StateCheck,
      StateWrite, StateGet, UnlockCheck, UnlockDelete, LockShow, HandlerError,
      HandlerCancelled
  <1>2. CASE HandlerCancelled(s)
    BY <1>1, <1>2 DEF HandlerCancelled, TypeOK
  <1>3. ASSUME NEW arg, NEW data, NEW st, Reply(s, arg, data, st)
        PROVE  /\ \A t \in Slots : t # s => reqs'[t] = reqs[t]
               /\ \/ reqs'[s] = NoRequest /\ Abandoned(s)
                  \/ /\ reqs'[s].op = reqs[s].op /\ reqs'[s].arg = arg
                     /\ reqs'[s].data = data /\ reqs'[s].st = st
    BY <1>3 DEF Reply, TypeOK
  <1>4. CASE ~HandlerCancelled(s) /\ ~StateGet(s) /\ ~LockShow(s)
    <2>1. \E st : Reply(s, reqs[s].arg, reqs[s].data, st)
      BY <1>4 DEF Serve, HandlerFails, Goto, LockGet, LockCreate, LockReread,
        StateCheck, StateWrite, UnlockCheck, UnlockDelete, HandlerError
    <2> QED BY <1>1, <1>3, <2>1
  <1>5. CASE StateGet(s)
    BY <1>1, <1>3, <1>5 DEF StateGet, At
  <1>6. CASE LockShow(s)
    <2>1. \E st : Reply(s, lock, {}, st) /\ reqs[s].op = "lockget"
      BY <1>6 DEF LockShow, At
    <2> QED BY <1>1, <1>3, <2>1
  <1> QED BY <1>2, <1>4, <1>5, <1>6

\* Where a handler may go.
LEMMA SlotStatus ==
  ASSUME TypeOK, NEW s \in Slots, Serve(s) \/ HandlerFails(s),
         reqs'[s] # NoRequest
  PROVE  /\ reqs'[s].st = "delete" => reqs[s].op = "unlock" /\ UnlockCheck(s) /\ lock = reqs[s].arg
         /\ reqs[s].op = "lock" /\ reqs'[s].st \in {"200", "423"} => lock' = reqs[s].arg
         /\ reqs[s].op = "unlock" /\ reqs[s].st = "delete" => reqs'[s].st \notin Running
  <1> USE DEF Running, Answers
  <1>1. ASSUME NEW arg, NEW data, NEW st, Reply(s, arg, data, st)
        PROVE  reqs'[s].st = st
    BY <1>1 DEF Reply, TypeOK
  <1>2. ASSUME NEW st, Goto(s, st)
        PROVE  reqs'[s].st = st
    BY <1>1, <1>2 DEF Goto
  <1>3. CASE LockGet(s)
    BY <1>2, <1>3 DEF LockGet, LockAnswer, At
  <1>4. CASE LockCreate(s)
    BY <1>2, <1>4 DEF LockCreate, At
  <1>5. CASE LockReread(s)
    BY <1>2, <1>5 DEF LockReread, LockAnswer, At
  <1>6. CASE StateCheck(s)
    BY <1>2, <1>6 DEF StateCheck, At
  <1>7. CASE StateWrite(s)
    BY <1>2, <1>7 DEF StateWrite, At
  <1>8. CASE UnlockCheck(s)
    BY <1>2, <1>8 DEF UnlockCheck, At
  <1>9. CASE UnlockDelete(s)
    BY <1>2, <1>9 DEF UnlockDelete, At
  <1>10. CASE StateGet(s)
    BY <1>1, <1>10 DEF StateGet, At
  <1>11. CASE LockShow(s)
    <2>1. reqs'[s].st \in {"404", "200"}
      BY <1>1, <1>11 DEF LockShow
    <2> QED BY <2>1, <1>11 DEF LockShow, At
  <1>12. CASE HandlerError(s)
    BY <1>2, <1>12 DEF HandlerError
  <1>13. CASE HandlerCancelled(s)
    BY <1>13 DEF HandlerCancelled, TypeOK
  <1> QED BY <1>3, <1>4, <1>5, <1>6, <1>7, <1>8, <1>9, <1>10, <1>11, <1>12, <1>13
        DEF Serve, HandlerFails

\* Only two transactions change the lock.
LEMMA LockChange ==
  ASSUME NEW s \in Slots, Serve(s) \/ HandlerFails(s)
  PROVE  \/ lock' = lock
         \/ LockCreate(s) /\ lock = NoLock /\ lock' = reqs[s].arg
         \/ UnlockDelete(s) /\ lock' = NoLock
  BY DEF Serve, HandlerFails, LockGet, LockCreate, LockReread, StateCheck,
    StateWrite, StateGet, UnlockCheck, UnlockDelete, LockShow, HandlerError,
    HandlerCancelled

\* clusterd keeps LockInv: a lock is created only where there is none, and
\* removed only by the last request of its owner.
LEMMA ServeLockInv ==
  ASSUME LockInv, NEW s \in Slots, Serve(s) \/ HandlerFails(s)
  PROVE  LockInv'
  <1> USE DEF LockInv, TypeInv
  <1>0. TypeInv'
    BY ServeType DEF HasSent, Serve, HandlerFails
  <1>1. /\ s[1] \in Clients /\ s[2] \in 1..MaxReqs /\ s = <<s[1], s[2]>>
        /\ s[1] # NoLock
    BY ClientsAssumption DEF Slots
  <1>2. /\ \A t \in Slots : t # s => reqs'[t] = reqs[t]
        /\ \/ reqs'[s] = NoRequest /\ Abandoned(s)
           \/ /\ reqs'[s].op = reqs[s].op
              /\ reqs[s].op # "lockget" => reqs'[s].arg = reqs[s].arg
        /\ reqs[s].st \in Running
        /\ UNCHANGED <<sent, pc, view>>
    BY SlotEffect
  <1>3. NoRequest.op = "none" /\ NoRequest.st = "none"
    BY DEF NoRequest
  <1>4. \A c \in Clients : pc[c] \in Waiting => ~Abandoned(<<c, sent[c]>>)
    BY DEF Abandoned
  <1>5. WaitsForCurrent'
    <2> SUFFICES ASSUME NEW c \in Clients, pc[c] \in Waiting
                 PROVE  reqs'[<<c, sent[c]>>].op = reqs[<<c, sent[c]>>].op
      BY <1>2 DEF WaitsForCurrent, Current
    <2>1. <<c, sent[c]>> \in Slots
      BY DEF HasSent
    <2> QED BY <1>2, <1>4, <2>1
  <1>6. OwnArg'
    <2> SUFFICES ASSUME NEW t \in Slots, reqs'[t].op \in {"lock", "put", "unlock"}
                 PROVE  reqs'[t].arg = t[1]
      BY DEF OwnArg
    <2> QED BY <1>2, <1>3 DEF OwnArg
  <1>7. CASE lock' = lock
    <2>1. HolderOwns'
      BY <1>2, <1>7 DEF HolderOwns
    <2>2. GrantOwns'
      <3> SUFFICES ASSUME NEW c \in Clients, pc[c] = "locking",
                          reqs'[<<c, sent[c]>>].st \in {"200", "423"}
                   PROVE  lock = c
        BY <1>2, <1>7 DEF GrantOwns, Current
      <3>1. <<c, sent[c]>> \in Slots /\ reqs[<<c, sent[c]>>].op = "lock"
        BY DEF HasSent, WaitsForCurrent, Waiting, WaitOp, Current
      <3>2. CASE s # <<c, sent[c]>>
        BY <3>1, <3>2, <1>2 DEF GrantOwns, Current
      <3>3. CASE s = <<c, sent[c]>>
        BY <3>1, <3>3, <1>1, <1>3, <1>7, SlotStatus DEF OwnArg
      <3> QED BY <3>2, <3>3
    <2>3. UnlockIsLast'
      BY <1>2, <1>3 DEF UnlockIsLast, Live, Running
    <2>4. DeleteOwns'
      <3> SUFFICES ASSUME NEW t \in Slots, reqs'[t].op = "unlock",
                          reqs'[t].st = "delete"
                   PROVE  lock = t[1]
        BY <1>7 DEF DeleteOwns
      <3>1. CASE t # s
        BY <1>2, <3>1 DEF DeleteOwns
      <3>2. CASE t = s
        BY <1>2, <1>3, <3>2, SlotStatus DEF OwnArg
      <3> QED BY <3>1, <3>2
    <2> QED BY <1>0, <1>5, <1>6, <2>1, <2>2, <2>3, <2>4
  <1>8. CASE LockCreate(s) /\ lock = NoLock /\ lock' = reqs[s].arg
    <2>1. \A c \in Clients : lock # c
      BY <1>8, ClientsAssumption
    <2>2. reqs[s].op = "lock" /\ lock' = s[1]
      BY <1>8 DEF LockCreate, At, OwnArg
    <2>3. HolderOwns'
      BY <1>2, <2>1 DEF HolderOwns
    <2>4. GrantOwns'
      <3> SUFFICES ASSUME NEW c \in Clients, pc[c] = "locking",
                          reqs'[<<c, sent[c]>>].st \in {"200", "423"}
                   PROVE  lock' = c
        BY <1>2 DEF GrantOwns, Current
      <3>1. <<c, sent[c]>> \in Slots
        BY DEF HasSent, Waiting
      <3>2. s = <<c, sent[c]>>
        BY <3>1, <1>2, <2>1 DEF GrantOwns, Current
      <3> QED BY <3>2, <2>2
    <2>5. UnlockIsLast'
      BY <1>2, <1>3 DEF UnlockIsLast, Live, Running
    <2>6. DeleteOwns'
      BY <1>1, <1>2, <1>3, <2>1, <2>2 DEF DeleteOwns, Slots
    <2> QED BY <1>0, <1>5, <1>6, <2>3, <2>4, <2>5, <2>6
  <1>9. CASE UnlockDelete(s) /\ lock' = NoLock
    <2>1. /\ reqs[s].op = "unlock" /\ reqs[s].st = "delete"
          /\ lock = s[1] /\ s[2] = sent[s[1]]
          /\ pc[s[1]] \in Finished \union {"unlocking"}
      BY <1>9 DEF UnlockDelete, At, DeleteOwns, UnlockIsLast, Live, Running
    <2>2. HolderOwns'
      BY <1>2, <2>1 DEF HolderOwns, Holding, Finished
    <2>3. GrantOwns'
      <3> SUFFICES ASSUME NEW c \in Clients, pc[c] = "locking",
                          reqs'[<<c, sent[c]>>].st \in {"200", "423"}
                   PROVE  FALSE
        BY <1>2 DEF GrantOwns, Current
      <3>1. <<c, sent[c]>> \in Slots /\ c # s[1]
        BY <2>1 DEF HasSent, Waiting, Finished
      <3>2. lock = c
        BY <3>1, <1>1, <1>2 DEF GrantOwns, Current
      <3> QED BY <3>1, <3>2, <2>1
    <2>4. UnlockIsLast'
      BY <1>2, <1>3 DEF UnlockIsLast, Live, Running
    <2>5. DeleteOwns'
      <3> SUFFICES ASSUME NEW t \in Slots, reqs'[t].op = "unlock",
                          reqs'[t].st = "delete"
                   PROVE  FALSE
        BY DEF DeleteOwns
      <3>1. t # s
        BY <1>2, <1>3, <2>1, SlotStatus DEF Running
      <3>2. lock = t[1] /\ t[2] = sent[t[1]] /\ t = <<t[1], t[2]>>
        BY <1>2, <3>1 DEF DeleteOwns, UnlockIsLast, Live, Running, Slots
      <3> QED BY <1>1, <2>1, <3>1, <3>2
    <2> QED BY <1>0, <1>5, <1>6, <2>2, <2>3, <2>4, <2>5
  <1> QED BY <1>7, <1>8, <1>9, LockChange

\* What sending a request does to the slots.
LEMMA SendEffect ==
  ASSUME TypeOK, NEW c \in Clients, NEW op, NEW arg, NEW data, NEW to,
         Send(c, op, arg, data, to)
  PROVE  /\ <<c, sent'[c]>> \in Slots
         /\ sent'[c] = sent[c] + 1
         /\ \A d \in Clients : d # c => sent'[d] = sent[d] /\ pc'[d] = pc[d]
         /\ pc'[c] = to
         /\ reqs'[<<c, sent'[c]>>] =
              [op |-> op, arg |-> arg, data |-> data, st |-> "recv"]
         /\ \A t \in Slots : t # <<c, sent'[c]>> => reqs'[t] = reqs[t]
         /\ lock' = lock /\ tfstate' = tfstate
  <1>1. sent[c] + 1 \in 1..MaxReqs
    BY BoundAssumption DEF TypeOK, Send
  <1>2. <<c, sent[c] + 1>> \in Slots
    BY <1>1 DEF Slots
  <1> QED BY <1>2 DEF TypeOK, Send

\* No unlock handler of a client that has not reached its unlock.
LEMMA NoLiveUnlock ==
  ASSUME LockInv, NEW c \in Clients,
         \/ pc[c] \notin Finished \union {"unlocking"}
         \/ pc[c] = "unlocking" /\ Current(c).st \notin Running
  PROVE  \A t \in Slots : t[1] = c => ~Live(t, "unlock")
  <1> SUFFICES ASSUME NEW t \in Slots, t[1] = c, Live(t, "unlock") PROVE FALSE
    OBVIOUS
  <1>1. t[2] = sent[c] /\ t = <<c, t[2]>>
    BY DEF LockInv, UnlockIsLast, Slots
  <1> QED BY <1>1 DEF LockInv, UnlockIsLast, Live, Current

\* Sending a request keeps LockInv.
LEMMA SendLockInv ==
  ASSUME LockInv, NEW c \in Clients, NEW to \in Waiting, NEW data,
         Send(c, WaitOp[to], c, data, to),
         TypeInv',
         to \in Holding => lock = c,
         \/ pc[c] \notin Finished \union {"unlocking"}
         \/ pc[c] = "unlocking" /\ Current(c).st \notin Running
  PROVE  LockInv'
  <1> USE DEF LockInv, TypeInv
  <1>1. /\ <<c, sent'[c]>> \in Slots
        /\ \A d \in Clients : d # c => sent'[d] = sent[d] /\ pc'[d] = pc[d]
        /\ pc'[c] = to
        /\ reqs'[<<c, sent'[c]>>] =
              [op |-> WaitOp[to], arg |-> c, data |-> data, st |-> "recv"]
        /\ \A t \in Slots : t # <<c, sent'[c]>> => reqs'[t] = reqs[t]
        /\ lock' = lock
    BY SendEffect
  <1>2. \A d \in Clients : d # c /\ pc[d] \in Waiting =>
           <<d, sent[d]>> \in Slots /\ reqs'[<<d, sent'[d]>>] = reqs[<<d, sent[d]>>]
    BY <1>1 DEF HasSent
  <1>3. WaitsForCurrent'
    BY <1>1, <1>2 DEF WaitsForCurrent, Current
  <1>4. OwnArg'
    BY <1>1 DEF OwnArg
  <1>5. HolderOwns'
    BY <1>1 DEF HolderOwns
  <1>6. GrantOwns'
    BY <1>1, <1>2 DEF GrantOwns, Current, Waiting
  <1>7. UnlockIsLast'
    <2> SUFFICES ASSUME NEW t \in Slots, Live(t, "unlock")'
                 PROVE  /\ t[2] = sent'[t[1]]
                        /\ pc'[t[1]] \in Finished \union {"unlocking"}
      BY DEF UnlockIsLast
    <2>1. CASE t = <<c, sent'[c]>>
      BY <1>1, <2>1 DEF Live, WaitOp, Waiting
    <2>2. CASE t # <<c, sent'[c]>>
      <3>1. Live(t, "unlock") /\ t[1] \in Clients
        BY <1>1, <2>2 DEF Live, Slots
      <3>2. t[1] # c
        BY <3>1, NoLiveUnlock
      <3> QED BY <1>1, <3>1, <3>2 DEF UnlockIsLast
    <2> QED BY <2>1, <2>2
  <1>8. DeleteOwns'
    BY <1>1 DEF DeleteOwns
  <1> QED BY <1>3, <1>4, <1>5, <1>6, <1>7, <1>8

\* A client that leaves a wait keeps LockInv, whether it takes the answer or
\* gives the request up.
LEMMA LeaveLockInv ==
  ASSUME LockInv, TypeInv', NEW c \in Clients, NEW to,
         pc' = [pc EXCEPT ![c] = to], to \notin Waiting,
         UNCHANGED <<lock, sent>>,
         to \in Holding => lock = c,
         \/ reqs' = reqs /\ (to \in Finished \/ pc[c] \notin Finished \union {"unlocking"})
         \/ /\ reqs' = [reqs EXCEPT ![<<c, sent[c]>>] = NoRequest]
            /\ pc[c] \in Waiting
  PROVE  LockInv'
  <1> USE DEF LockInv, TypeInv
  <1>1. \A t \in Slots : reqs'[t] = reqs[t] \/ reqs'[t] = NoRequest
    BY DEF TypeOK
  <1>2. NoRequest.op = "none" /\ NoRequest.st = "none"
    BY DEF NoRequest
  <1>3. pc'[c] = to /\ \A d \in Clients : d # c => pc'[d] = pc[d]
    BY DEF TypeOK
  <1>4. \A d \in Clients : d # c /\ pc[d] \in Waiting =>
           reqs'[<<d, sent'[d]>>] = reqs[<<d, sent[d]>>]
    BY DEF TypeOK, HasSent
  <1>5. WaitsForCurrent'
    BY <1>3, <1>4 DEF WaitsForCurrent, Current
  <1>6. OwnArg' /\ DeleteOwns'
    BY <1>1, <1>2 DEF OwnArg, DeleteOwns
  <1>7. HolderOwns'
    BY <1>3 DEF HolderOwns
  <1>8. GrantOwns'
    BY <1>3, <1>4 DEF GrantOwns, Current, Waiting
  <1>9. UnlockIsLast'
    <2> SUFFICES ASSUME NEW t \in Slots, Live(t, "unlock")'
                 PROVE  /\ t[2] = sent[t[1]]
                        /\ pc'[t[1]] \in Finished \union {"unlocking"}
      BY DEF UnlockIsLast
    <2>1. Live(t, "unlock") /\ t[1] \in Clients /\ t = <<t[1], t[2]>>
      BY <1>1, <1>2 DEF Live, Slots
    <2>2. /\ t[2] = sent[t[1]]
          /\ pc[t[1]] \in Finished \union {"unlocking"}
      BY <2>1 DEF UnlockIsLast
    <2>3. CASE t[1] # c
      BY <2>1, <2>2, <2>3, <1>3
    <2>4. CASE t[1] = c
      <3>1. reqs'[<<c, sent[c]>>] # NoRequest /\ <<c, sent[c]>> \in Slots
        BY <2>1, <2>2, <2>4, <1>2 DEF Live, Running
      <3>2. to \in Finished \/ pc[c] \notin Finished \union {"unlocking"}
        BY <3>1 DEF TypeOK
      <3> QED BY <2>2, <2>4, <3>2, <1>3
    <2> QED BY <2>3, <2>4
  <1> QED BY <1>5, <1>6, <1>7, <1>8, <1>9

\* The clients keep LockInv.
LEMMA ClientLockInv ==
  ASSUME LockInv, NobodyForces, NEW c \in Clients,
         TerraformStep(c) \/ OperatorStep(c) \/ LockStep(c) \/ Fault(c)
  PROVE  LockInv'
  <1> USE DEF LockInv, NobodyForces, Waiting, Holding, Finished
  <1>0. TypeInv'
    BY ClientType
  <1>1. c \notin Operators
    OBVIOUS
  <1>a. /\ WaitOp["locking"] = "lock" /\ WaitOp["reading"] = "get"
        /\ WaitOp["writing"] = "put" /\ WaitOp["unlocking"] = "unlock"
    BY DEF WaitOp
  <1>2. CASE RequestLock(c) \/ RetryLock(c)
    BY <1>0, <1>2, <1>a, SendLockInv DEF RequestLock, RetryLock
  <1>3. CASE ReadState(c)
    BY <1>0, <1>3, <1>a, SendLockInv DEF ReadState, HolderOwns
  <1>4. CASE WriteState(c)
    BY <1>0, <1>4, <1>a, SendLockInv DEF WriteState, HolderOwns
  <1>5. CASE RequestUnlock(c)
    BY <1>0, <1>5, <1>a, SendLockInv DEF RequestUnlock
  <1>6. CASE Resend(c)
    <2>1. Current(c).op = WaitOp[pc[c]] /\ pc[c] \in Waiting
      BY <1>6 DEF Resend, WaitsForCurrent
    <2>2. Send(c, WaitOp[pc[c]], c, Current(c).data, pc[c])
      BY <1>6, <2>1 DEF Resend
    <2>3. pc[c] = "unlocking" => Current(c).st \notin Running
      BY <1>6, <2>1, <1>a DEF Resend, Running
    <2> QED BY <1>0, <2>1, <2>2, <2>3, SendLockInv DEF HolderOwns
  <1>7. CASE LockGranted(c)
    <2>1. Current(c).st \in {"200", "423"} /\ pc[c] = "locking"
      BY <1>7 DEF LockGranted, Receive
    <2>2. lock = c
      BY <2>1 DEF GrantOwns
    <2> QED BY <1>0, <1>7, <2>2, LeaveLockInv DEF LockGranted, Receive
  <1>8. CASE LockRefused(c) \/ Unlocked(c) \/ UnlockFailed(c) \/ LockShown(c)
             \/ NoLockShown(c)
    BY <1>0, <1>8, LeaveLockInv DEF LockRefused, Unlocked, UnlockFailed,
      LockShown, NoLockShown, Receive
  <1>9. CASE StateRead(c) \/ ReadFailed(c) \/ StateWritten(c)
    <2>1. lock = c
      BY <1>9 DEF StateRead, ReadFailed, StateWritten, Receive, HolderOwns
    <2> QED BY <1>0, <1>9, <2>1, LeaveLockInv
          DEF StateRead, ReadFailed, StateWritten, Receive
  <1>10. CASE GiveUp(c)
    <2>1. Current(c).op # "unlock"
      BY <1>10 DEF GiveUp
    <2>2. pc[c] # "unlocking" /\ pc[c] \in Waiting
      BY <1>10, <2>1, <1>a DEF GiveUp, WaitsForCurrent
    <2>3. PICK to : /\ pc' = [pc EXCEPT ![c] = to]
                    /\ to = IF pc[c] \in {"reading", "writing"}
                            THEN "written" ELSE "failed"
      BY <1>10 DEF GiveUp
    <2>4. to \in Holding => lock = c
      BY <2>3 DEF HolderOwns
    <2> QED BY <1>0, <1>10, <2>2, <2>3, <2>4, LeaveLockInv DEF GiveUp
  <1>11. CASE Crash(c)
    BY <1>0, <1>11, LeaveLockInv DEF Crash
  <1>12. CASE ShowLock(c) \/ ForceUnlock(c)
    BY <1>1, <1>12 DEF ShowLock, ForceUnlock
  <1> QED BY <1>2, <1>3, <1>4, <1>5, <1>6, <1>7, <1>8, <1>9, <1>10, <1>11, <1>12
        DEF TerraformStep, OperatorStep, LockStep, Fault

\* The inductive invariant of mutual exclusion.
THEOREM LockInvariant == ASSUME NobodyForces PROVE Spec => []LockInv
  <1>1. Init => LockInv
    BY BoundAssumption DEF Init, LockInv, TypeInv, TypeOK, HasSent, Requests,
      NoRequest, Ops, PCs, Waiting, WaitsForCurrent, OwnArg, HolderOwns, Holding,
      GrantOwns, UnlockIsLast, Live, Running, DeleteOwns, Slots
  <1>2. LockInv /\ [Next]_vars => LockInv'
    <2> SUFFICES ASSUME LockInv, [Next]_vars PROVE LockInv'
      OBVIOUS
    <2>1. CASE UNCHANGED vars
      BY <2>1 DEF vars, LockInv, TypeInv, TypeOK, HasSent, WaitsForCurrent,
        OwnArg, HolderOwns, GrantOwns, UnlockIsLast, Live, DeleteOwns, Current
    <2> QED BY <2>1, ServeLockInv, ClientLockInv DEF Next
  <1> QED BY <1>1, <1>2, PTL DEF Spec

\* Two clients never hold the lock of a plan at once, however many clients
\* there are, whatever crashes, fails or is sent again, as long as nobody runs
\* `plans unlock` and no unlock request outlives its connection.
THEOREM MutualExclusionHolds ==
  ASSUME NobodyForces PROVE Spec => []MutualExclusion
  <1>1. LockInv => MutualExclusion
    BY DEF LockInv, HolderOwns, MutualExclusion
  <1> QED BY <1>1, LockInvariant, PTL

-----------------------------------------------------------------------------
\* The assumptions of the refinement.
NothingOutlives == NobodyForces /\ "put" \notin Breakable

\* Only the write of a PUT changes the state.
LEMMA StateChange ==
  ASSUME NEW s \in Slots, Serve(s) \/ HandlerFails(s)
  PROVE  tfstate' = tfstate \/ StateWrite(s)
  BY DEF Serve, HandlerFails, LockGet, LockCreate, LockReread, StateCheck,
    StateGet, UnlockCheck, UnlockDelete, LockShow, HandlerError, HandlerCancelled

\* A PUT that is about to be written may be written.
LEMMA WriteIsPending ==
  ASSUME StateInv, NEW s \in Slots, StateWrite(s)
  PROVE  /\ s[1] \in Clients /\ s = <<s[1], sent[s[1]]>> /\ lock = s[1]
         /\ pc[s[1]] \in {"writing", "crashed"}
         /\ tfstate' = tfstate \union {s[1]}
  BY DEF StateInv, PutExtendsState, Pending, StateWrite, At, Running, Slots

\* clusterd keeps StateInv.
LEMMA ServeStateInv ==
  ASSUME StateInv, NEW s \in Slots, Serve(s) \/ HandlerFails(s)
  PROVE  StateInv'
  <1> USE DEF StateInv
  <1>0. LockInv'
    BY ServeLockInv
  <1>t. TypeOK /\ HasSent
    BY DEF LockInv, TypeInv
  <1>1. /\ \A t \in Slots : t # s => reqs'[t] = reqs[t]
        /\ \/ reqs'[s] = NoRequest
           \/ /\ reqs'[s].op = reqs[s].op
              /\ reqs[s].op = "put" => reqs'[s].data = reqs[s].data
        /\ reqs[s].st \in Running
        /\ UNCHANGED <<sent, pc, view>>
    BY SlotEffect, <1>t
  <1>2. NoRequest.op = "none" /\ NoRequest.st = "none"
    BY DEF NoRequest
  <1>3. \A t \in Slots : Pending(t)' => Pending(t)
    BY <1>1, <1>2 DEF Pending
  <1>4. ViewIsState'
    <2> SUFFICES ASSUME NEW c \in Clients
                 PROVE  /\ pc[c] = "applying" => view[c].st = tfstate'
                        /\ pc[c] = "reading" /\ reqs'[<<c, sent[c]>>].st = "200"
                             => reqs'[<<c, sent[c]>>].data = tfstate'
      BY <1>1 DEF ViewIsState, Current
    <2>1. pc[c] \in {"applying", "reading"} => tfstate' = tfstate
      BY StateChange, WriteIsPending DEF LockInv, HolderOwns, Holding
    <2>2. ASSUME pc[c] = "reading", reqs'[<<c, sent[c]>>].st = "200"
          PROVE  reqs'[<<c, sent[c]>>].data = tfstate
      <3>1. <<c, sent[c]>> \in Slots /\ reqs[<<c, sent[c]>>].op = "get"
        BY <2>2, <1>t DEF HasSent, LockInv, WaitsForCurrent, Waiting, WaitOp, Current
      <3>2. CASE s # <<c, sent[c]>>
        BY <1>1, <2>2, <3>1, <3>2 DEF ViewIsState, Current
      <3>3. CASE s = <<c, sent[c]>>
        <4>1. StateGet(s) \/ HandlerError(s) \/ HandlerCancelled(s)
          BY <3>1, <3>3 DEF Serve, HandlerFails, At, LockGet, LockCreate,
            LockReread, StateCheck, StateWrite, UnlockCheck, UnlockDelete, LockShow
        <4>2. CASE StateGet(s)
          BY <2>2, <3>3, <4>2, <1>2, <1>t DEF StateGet, Reply, TypeOK
        <4>3. CASE HandlerError(s)
          BY <2>2, <3>3, <4>3, <1>2, <1>t DEF HandlerError, Goto, Reply, TypeOK
        <4>4. CASE HandlerCancelled(s)
          BY <2>2, <3>3, <4>4, <1>2, <1>t DEF HandlerCancelled, TypeOK
        <4> QED BY <4>1, <4>2, <4>3, <4>4
      <3> QED BY <3>2, <3>3
    <2> QED BY <2>1, <2>2 DEF ViewIsState
  <1>5. PutExtendsState'
    <2> SUFFICES ASSUME NEW t \in Slots, Pending(t)'
                 PROVE  /\ t[2] = sent[t[1]]
                        /\ pc[t[1]] \in {"writing", "crashed"}
                        /\ lock' = t[1]
                        /\ reqs'[t].data = tfstate' \union {t[1]}
      BY <1>1 DEF PutExtendsState
    <2>1. /\ t[2] = sent[t[1]] /\ pc[t[1]] \in {"writing", "crashed"}
          /\ lock = t[1] /\ reqs[t].data = tfstate \union {t[1]}
          /\ t[1] \in Clients /\ t = <<t[1], sent[t[1]]>>
      BY <1>3 DEF PutExtendsState, Slots
    <2>2. reqs'[t].op = "put" /\ reqs[t].op = "put"
      BY <1>3 DEF Pending
    <2>3. reqs'[t].data = reqs[t].data
      BY <1>1, <1>2, <2>2
    <2>4. tfstate' = tfstate
      <3> SUFFICES ASSUME StateWrite(s) PROVE FALSE
        BY StateChange
      <3>1. s = t
        BY <2>1, WriteIsPending
      <3>2. reqs'[s] = NoRequest \/ reqs'[s].st = "200"
        BY <1>t DEF StateWrite, Goto, Reply, TypeOK
      <3> QED BY <3>1, <3>2, <2>2, <1>2 DEF Pending, Running
    <2>5. lock' = lock
      <3>1. CASE LockCreate(s) /\ lock = NoLock
        BY <3>1, <2>1, ClientsAssumption
      <3>2. CASE UnlockDelete(s)
        <4>1. lock = s[1] /\ s = <<s[1], sent[s[1]]>> /\ reqs[s].op = "unlock"
          BY <3>2 DEF UnlockDelete, At, LockInv, DeleteOwns, UnlockIsLast, Live,
            Running, Slots
        <4> QED BY <4>1, <2>1, <2>2
      <3> QED BY <3>1, <3>2, LockChange
    <2> QED BY <2>1, <2>3, <2>4, <2>5
  <1> QED BY <1>0, <1>4, <1>5

\* The clients keep StateInv.
LEMMA ClientStateInv ==
  ASSUME StateInv, NothingOutlives, NEW c \in Clients,
         TerraformStep(c) \/ OperatorStep(c) \/ LockStep(c) \/ Fault(c)
  PROVE  StateInv' /\ UNCHANGED <<lock, tfstate>>
  <1> USE DEF StateInv, NothingOutlives
  <1>0. LockInv'
    BY ClientLockInv
  <1>t. TypeOK /\ HasSent
    BY DEF LockInv, TypeInv
  <1>u. UNCHANGED <<lock, tfstate>>
    BY DEF TerraformStep, OperatorStep, LockStep, Fault, ReadState, StateRead,
      ReadFailed, WriteState, StateWritten, ShowLock, LockShown, NoLockShown,
      ForceUnlock, RequestLock, LockGranted, LockRefused, RetryLock,
      RequestUnlock, Unlocked, UnlockFailed, Resend, GiveUp, Crash, Send, Receive
  <1> SUFFICES ViewIsState' /\ PutExtendsState'
    BY <1>0, <1>u
  <1>2. NoRequest.op = "none" /\ NoRequest.st = "none"
    BY DEF NoRequest
  <1>3. ASSUME NEW op, NEW data, NEW to \in Waiting, UNCHANGED view,
               Send(c, op, c, data, to),
               op = "put" => lock = c /\ data = tfstate \union {c} /\ to = "writing",
               \/ pc[c] \notin {"writing", "crashed"}
               \/ pc[c] = "writing" /\ Current(c).st = "500"
        PROVE  ViewIsState' /\ PutExtendsState'
    <2>1. /\ <<c, sent'[c]>> \in Slots
          /\ sent'[c] = sent[c] + 1
          /\ \A d \in Clients : d # c => sent'[d] = sent[d] /\ pc'[d] = pc[d]
          /\ pc'[c] = to
          /\ reqs'[<<c, sent'[c]>>] =
                [op |-> op, arg |-> c, data |-> data, st |-> "recv"]
          /\ \A t \in Slots : t # <<c, sent'[c]>> => reqs'[t] = reqs[t]
      BY <1>3, <1>t, SendEffect
    <2>2. ViewIsState'
      <3>1. \A d \in Clients : d # c /\ pc[d] = "reading" =>
               reqs'[<<d, sent'[d]>>] = reqs[<<d, sent[d]>>]
        BY <2>1, <1>t DEF HasSent, Waiting
      <3>2. pc'[c] # "applying" /\ reqs'[<<c, sent'[c]>>].st # "200"
        BY <1>3, <2>1 DEF Waiting
      <3> QED BY <1>3, <1>u, <2>1, <3>1, <3>2 DEF ViewIsState, Current
    <2>3. PutExtendsState'
      <3> SUFFICES ASSUME NEW t \in Slots, Pending(t)'
                   PROVE  /\ t[2] = sent'[t[1]]
                          /\ pc'[t[1]] \in {"writing", "crashed"}
                          /\ lock = t[1]
                          /\ reqs'[t].data = tfstate \union {t[1]}
        BY <1>u DEF PutExtendsState
      <3>1. CASE t = <<c, sent'[c]>>
        BY <1>3, <2>1, <3>1 DEF Pending
      <3>2. CASE t # <<c, sent'[c]>>
        <4>1. t[1] \in Clients /\ t = <<t[1], t[2]>> /\ reqs'[t] = reqs[t]
          BY <2>1, <3>2 DEF Slots
        <4>2. CASE t[1] # c
          <5>1. Pending(t)
            BY <2>1, <4>1, <4>2 DEF Pending
          <5> QED BY <2>1, <4>1, <4>2, <5>1 DEF PutExtendsState
        <4>3. CASE t[1] = c
          <5>1. reqs[t].op = "put" /\ reqs[t].st \in Running
            BY <3>2, <4>1, <4>3 DEF Pending
          <5>2. pc[c] \in {"writing", "crashed"} /\ t = <<c, sent[c]>>
            BY <4>1, <4>3, <5>1 DEF Pending, PutExtendsState
          <5>3. Current(c).st = "500"
            BY <5>2, <1>3
          <5> QED BY <5>1, <5>2, <5>3 DEF Current, Running
        <4> QED BY <4>2, <4>3
      <3> QED BY <3>1, <3>2
    <2> QED BY <2>2, <2>3
  <1>4. ASSUME NEW to, pc' = [pc EXCEPT ![c] = to], to \notin Waiting, sent' = sent,
               \/ reqs' = reqs /\ (to = "crashed" \/ pc[c] \notin {"writing", "crashed"})
               \/ /\ reqs' = [reqs EXCEPT ![<<c, sent[c]>>] = NoRequest]
                  /\ pc[c] \in Waiting,
               \A d \in Clients : d # c => view'[d] = view[d],
               to = "applying" => view'[c].st = tfstate
        PROVE  ViewIsState' /\ PutExtendsState'
    <2>1. \A t \in Slots : reqs'[t] = reqs[t] \/ reqs'[t] = NoRequest
      BY <1>4, <1>t DEF TypeOK
    <2>2. pc'[c] = to /\ \A d \in Clients : d # c => pc'[d] = pc[d]
      BY <1>4, <1>t DEF TypeOK
    <2>3. ViewIsState'
      <3>1. \A d \in Clients : d # c /\ pc[d] = "reading" =>
               reqs'[<<d, sent'[d]>>] = reqs[<<d, sent[d]>>]
        BY <1>4, <1>t DEF HasSent, Waiting, TypeOK
      <3> QED BY <1>4, <1>u, <2>2, <3>1 DEF ViewIsState, Current, Waiting
    <2>4. PutExtendsState'
      <3> SUFFICES ASSUME NEW t \in Slots, Pending(t)'
                   PROVE  /\ t[2] = sent[t[1]]
                          /\ pc'[t[1]] \in {"writing", "crashed"}
                          /\ lock = t[1]
                          /\ reqs'[t].data = tfstate \union {t[1]}
        BY <1>4, <1>u DEF PutExtendsState
      <3>1. t[1] \in Clients /\ t = <<t[1], t[2]>> /\ reqs'[t] = reqs[t]
        BY <1>2, <2>1 DEF Slots, Pending
      <3>2. CASE t[1] # c
        BY <1>4, <2>2, <3>1, <3>2 DEF Pending, PutExtendsState
      <3>3. CASE t[1] = c
        <4>1. reqs[t].op = "put" /\ reqs[t].st \in Running
          BY <1>4, <2>2, <3>1, <3>3 DEF Pending, Waiting
        <4>2. /\ pc[c] \in {"writing", "crashed"} /\ t = <<c, sent[c]>>
              /\ lock = c /\ reqs[t].data = tfstate \union {c}
          BY <3>1, <3>3, <4>1 DEF Pending, PutExtendsState
        <4>3. reqs'[<<c, sent[c]>>] # NoRequest
          BY <3>1, <4>1, <4>2, <1>2
        <4>4. to = "crashed"
          BY <1>4, <1>t, <4>2, <4>3 DEF TypeOK
        <4> QED BY <2>2, <3>1, <3>3, <4>2, <4>4
      <3> QED BY <3>2, <3>3
    <2> QED BY <2>3, <2>4
  <1>5. CASE RequestLock(c) \/ RetryLock(c) \/ ReadState(c) \/ RequestUnlock(c)
    BY <1>3, <1>5 DEF RequestLock, RetryLock, ReadState, RequestUnlock, Waiting
  <1>6. CASE WriteState(c)
    <2>1. lock = c /\ view[c].st = tfstate
      BY <1>6 DEF WriteState, LockInv, HolderOwns, Holding, ViewIsState
    <2> QED BY <1>3, <1>6, <2>1 DEF WriteState, Waiting
  <1>7. CASE Resend(c)
    <2>1. /\ Current(c).op = WaitOp[pc[c]] /\ pc[c] \in Waiting
          /\ <<c, sent[c]>> \in Slots
      BY <1>7, <1>t DEF Resend, LockInv, WaitsForCurrent, HasSent
    <2>2. Send(c, Current(c).op, c, Current(c).data, pc[c]) /\ UNCHANGED view
      BY <1>7 DEF Resend
    <2>3. Current(c).op = "put" <=> pc[c] = "writing"
      BY <2>1 DEF WaitOp, Waiting
    <2>4. pc[c] = "writing" => Current(c).st = "500"
      BY <1>7, <2>3 DEF Resend
    <2>5. pc[c] = "writing" => lock = c /\ Current(c).data = tfstate \union {c}
      BY <2>1, <2>3, <2>4 DEF PutExtendsState, Pending, Current
    <2> QED BY <1>3, <2>1, <2>2, <2>3, <2>4, <2>5 DEF Waiting
  <1>8. CASE StateRead(c)
    <2>1. Current(c).data = tfstate
      BY <1>8 DEF StateRead, Receive, ViewIsState
    <2>2. view'[c].st = tfstate /\ \A d \in Clients : d # c => view'[d] = view[d]
      BY <1>8, <2>1, <1>t DEF StateRead, TypeOK
    <2> QED BY <1>4, <1>8, <2>2 DEF StateRead, Receive, Waiting
  <1>9. CASE LockGranted(c) \/ LockRefused(c) \/ ReadFailed(c) \/ StateWritten(c)
             \/ Unlocked(c) \/ UnlockFailed(c) \/ NoLockShown(c)
    BY <1>4, <1>9 DEF LockGranted, LockRefused, ReadFailed, StateWritten, Unlocked,
      UnlockFailed, NoLockShown, Receive, Waiting
  <1>10. CASE LockShown(c)
    <2>1. \A d \in Clients : d # c => view'[d] = view[d]
      BY <1>10, <1>t DEF LockShown, TypeOK
    <2> QED BY <1>4, <1>10, <2>1 DEF LockShown, Receive, Waiting
  <1>11. CASE GiveUp(c)
    <2>1. pc[c] # "writing"
      BY <1>11 DEF GiveUp, LockInv, WaitsForCurrent, WaitOp, Waiting
    <2>2. \E to : to \in {"written", "failed"} /\ pc' = [pc EXCEPT ![c] = to]
      BY <1>11 DEF GiveUp
    <2> QED BY <1>4, <1>11, <2>1, <2>2 DEF GiveUp, Waiting
  <1>12. CASE Crash(c)
    BY <1>4, <1>12 DEF Crash, Waiting
  <1>13. CASE ShowLock(c) \/ ForceUnlock(c)
    BY <1>13 DEF ShowLock, ForceUnlock, NobodyForces
  <1> QED BY <1>5, <1>6, <1>7, <1>8, <1>9, <1>10, <1>11, <1>12, <1>13
        DEF TerraformStep, OperatorStep, LockStep, Fault

\* Every step of the handlers is a step of the abstract lock, or none.
LEMMA ServeImplements ==
  ASSUME StateInv, NEW s \in Slots, Serve(s) \/ HandlerFails(s)
  PROVE  Abstract!Next \/ UNCHANGED <<lock, tfstate>>
  <1>1. s[1] \in Clients
    BY DEF Slots
  <1>2. CASE StateWrite(s)
    <2>1. Abstract!Commit(s[1])
      BY <1>2, WriteIsPending DEF Abstract!Commit, StateWrite
    <2> QED BY <1>1, <2>1 DEF Abstract!Next
  <1>3. CASE LockCreate(s) /\ lock = NoLock /\ lock' = reqs[s].arg
    <2>1. Abstract!Acquire(s[1])
      BY <1>3 DEF Abstract!Acquire, LockCreate, At, StateInv, LockInv, OwnArg
    <2> QED BY <1>1, <2>1 DEF Abstract!Next
  <1>4. CASE UnlockDelete(s)
    <2>1. Abstract!Release(s[1])
      BY <1>4 DEF Abstract!Release, UnlockDelete, At, StateInv, LockInv, DeleteOwns
    <2> QED BY <1>1, <2>1 DEF Abstract!Next
  <1> QED BY <1>2, <1>3, <1>4, LockChange, StateChange

\* The handlers, several transactions each, implement one atomic lock that
\* guards the state of the plan: no lock is removed by another client's unlock
\* and no apply is lost, as long as nobody runs `plans unlock` and no unlock
\* and no state PUT outlives its connection.
THEOREM HandlersImplementPlanLock ==
  ASSUME NothingOutlives PROVE Spec => ImplementsPlanLock
  <1>1. Init => StateInv
    BY BoundAssumption DEF Init, StateInv, LockInv, TypeInv, TypeOK, HasSent,
      Requests, NoRequest, Ops, PCs, Waiting, WaitsForCurrent, OwnArg, HolderOwns,
      Holding, GrantOwns, UnlockIsLast, Live, Running, DeleteOwns, Slots,
      ViewIsState, PutExtendsState, Pending
  <1>2. StateInv /\ [Next]_vars => StateInv' /\ [Abstract!Next]_(Abstract!vars)
    <2> SUFFICES ASSUME StateInv, [Next]_vars
                 PROVE  StateInv' /\ [Abstract!Next]_(Abstract!vars)
      OBVIOUS
    <2>1. CASE UNCHANGED vars
      BY <2>1 DEF vars, StateInv, LockInv, TypeInv, TypeOK, HasSent,
        WaitsForCurrent, OwnArg, HolderOwns, GrantOwns, UnlockIsLast, Live,
        DeleteOwns, Current, ViewIsState, PutExtendsState, Pending, Abstract!vars
    <2>2. ASSUME NEW s \in Slots, Serve(s) \/ HandlerFails(s)
          PROVE  StateInv' /\ [Abstract!Next]_(Abstract!vars)
      BY <2>2, ServeStateInv, ServeImplements DEF Abstract!vars
    <2>3. ASSUME NEW c \in Clients,
                 TerraformStep(c) \/ OperatorStep(c) \/ LockStep(c) \/ Fault(c)
          PROVE  StateInv' /\ [Abstract!Next]_(Abstract!vars)
      BY <2>3, ClientStateInv DEF Abstract!vars
    <2> QED BY <2>1, <2>2, <2>3 DEF Next
  <1>3. Init => Abstract!Init
    BY DEF Init, Abstract!Init
  <1> QED BY <1>1, <1>2, <1>3, PTL DEF Spec, ImplementsPlanLock, Abstract!Spec
=============================================================================

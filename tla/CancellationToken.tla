-------------------------- MODULE CancellationToken --------------------------
(***************************************************************************)
(* execution/cancellation.py: one token shared by threads.  A request      *)
(* publishes a notice under the token's lock and then sets a               *)
(* threading.Event, which has a condition lock of its own; a wait sleeps   *)
(* on that event.  Neither lock is reentrant.  cli.py installs signal      *)
(* handlers that call request, and the interpreter runs a handler on the   *)
(* main thread between any two steps of whatever that thread is doing.     *)
(***************************************************************************)
EXTENDS Naturals, Sequences

CONSTANTS
  Thread,     \* threads of the process
  Main,       \* the thread that runs signal handlers
  MaxSignals  \* bound on the signals delivered

NoThread == "nobody"
NoNotice == "none"

ASSUME TokenAssumption ==
  Main \in Thread /\ NoThread \notin Thread /\ MaxSignals \in Nat

Reasons == {"USER", "SIGNAL", "DEADLINE"}

VARIABLES
  notice,   \* the published CancellationNotice, by its reason
  flag,     \* the event is set
  tokenLock,     \* thread holding the token's lock
  cond,     \* thread holding the event's condition lock
  stack,    \* per thread, its calls on the token, innermost first
  signals,  \* signals delivered so far
  won       \* reasons of the requests that returned True

tokenVars == <<notice, flag, tokenLock, cond, stack, signals, won>>

RequestSteps == {"locking", "checking", "publishing", "signalling",
                 "notifying", "unlocking"}
WaitSteps == {"entering", "testing", "sleeping", "waking", "leaving"}

Frame == [op : {"request"}, at : RequestSteps, reason : Reasons]
         \cup [op : {"wait"}, at : WaitSteps]
         \cup [op : {"notice"}, at : {"locking"}]

TokenTypeOK ==
  /\ notice \in Reasons \cup {NoNotice}
  /\ flag \in BOOLEAN
  /\ tokenLock \in Thread \cup {NoThread}
  /\ cond \in Thread \cup {NoThread}
  /\ stack \in [Thread -> Seq(Frame)]
  /\ signals \in 0..MaxSignals
  /\ won \in Seq(Reasons)

TokenInit ==
  /\ notice = NoNotice
  /\ flag = FALSE
  /\ tokenLock = NoThread
  /\ cond = NoThread
  /\ stack = [t \in Thread |-> << >>]
  /\ signals = 0
  /\ won = << >>

-----------------------------------------------------------------------------
(* The innermost call of thread t is of this kind and at this step. *)
In(t, op, at) ==
  stack[t] # << >> /\ Head(stack[t]).op = op /\ Head(stack[t]).at = at

Move(t, at) == stack' = [stack EXCEPT ![t][1].at = at]

Pop(t) == stack' = [stack EXCEPT ![t] = Tail(@)]

Push(t, frame) == stack' = [stack EXCEPT ![t] = <<frame>> \o @]

Call(t, frame) ==
  /\ stack[t] = << >>
  /\ Push(t, frame)
  /\ UNCHANGED <<notice, flag, tokenLock, cond, signals, won>>

Request(reason) == [op |-> "request", at |-> "locking", reason |-> reason]

BeginRequest(t) == \E reason \in {"USER", "DEADLINE"} : Call(t, Request(reason))
BeginNotice(t) == Call(t, [op |-> "notice", at |-> "locking"])
BeginWait(t) == Call(t, [op |-> "wait", at |-> "entering"])

(* request_cancellation runs on top of whatever the main thread is doing. *)
DeliverSignal ==
  /\ signals < MaxSignals
  /\ signals' = signals + 1
  /\ Push(Main, Request("SIGNAL"))
  /\ UNCHANGED <<notice, flag, tokenLock, cond, won>>

-----------------------------------------------------------------------------
(* CancellationToken.request *)

(* Variant: the notice is published without taking the lock. *)
LockTokenAnyway(t) ==
  /\ In(t, "request", "locking")
  /\ tokenLock' = t
  /\ Move(t, "checking")
  /\ UNCHANGED <<notice, flag, cond, signals, won>>

LockToken(t) ==
  /\ In(t, "request", "locking")
  /\ tokenLock = NoThread
  /\ tokenLock' = t
  /\ Move(t, "checking")
  /\ UNCHANGED <<notice, flag, cond, signals, won>>

RefuseLater(t) ==
  /\ In(t, "request", "checking")
  /\ notice # NoNotice
  /\ tokenLock' = NoThread
  /\ Pop(t)
  /\ UNCHANGED <<notice, flag, cond, signals, won>>

FindNone(t) ==
  /\ In(t, "request", "checking")
  /\ notice = NoNotice
  /\ Move(t, "publishing")
  /\ UNCHANGED <<notice, flag, tokenLock, cond, signals, won>>

PublishNotice(t) ==
  /\ In(t, "request", "publishing")
  /\ notice' = Head(stack[t]).reason
  /\ Move(t, "signalling")
  /\ UNCHANGED <<flag, tokenLock, cond, signals, won>>

(* Event.set: enter the condition, raise the flag, wake the waiters. *)
EnterSet(t) ==
  /\ In(t, "request", "signalling")
  /\ cond = NoThread
  /\ cond' = t
  /\ Move(t, "notifying")
  /\ UNCHANGED <<notice, flag, tokenLock, signals, won>>

RaiseFlag(t) ==
  /\ In(t, "request", "notifying")
  /\ flag' = TRUE
  /\ cond' = NoThread
  /\ Move(t, "unlocking")
  /\ UNCHANGED <<notice, tokenLock, signals, won>>

FinishRequest(t) ==
  /\ In(t, "request", "unlocking")
  /\ tokenLock' = NoThread
  /\ won' = Append(won, Head(stack[t]).reason)
  /\ Pop(t)
  /\ UNCHANGED <<notice, flag, cond, signals>>

(* CancellationToken.notice: nothing can interrupt the locked read. *)
ReadNotice(t) ==
  /\ In(t, "notice", "locking")
  /\ tokenLock = NoThread
  /\ Pop(t)
  /\ UNCHANGED <<notice, flag, tokenLock, cond, signals, won>>

-----------------------------------------------------------------------------
(* CancellationToken.wait, that is Event.wait *)

EnterWait(t) ==
  /\ In(t, "wait", "entering")
  /\ cond = NoThread
  /\ cond' = t
  /\ Move(t, "testing")
  /\ UNCHANGED <<notice, flag, tokenLock, signals, won>>

(* The event is set: return without sleeping. *)
WaitReturns(t) ==
  /\ In(t, "wait", "testing")
  /\ flag
  /\ cond' = NoThread
  /\ Pop(t)
  /\ UNCHANGED <<notice, flag, tokenLock, signals, won>>

(* Variant: the condition lock is kept while sleeping. *)
SleepHolding(t) ==
  /\ In(t, "wait", "testing")
  /\ ~flag
  /\ Move(t, "sleeping")
  /\ UNCHANGED <<notice, flag, tokenLock, cond, signals, won>>

Sleep(t) ==
  /\ In(t, "wait", "testing")
  /\ ~flag
  /\ cond' = NoThread
  /\ Move(t, "sleeping")
  /\ UNCHANGED <<notice, flag, tokenLock, signals, won>>

Wake(t) ==
  /\ In(t, "wait", "sleeping")
  /\ flag
  /\ Move(t, "waking")
  /\ UNCHANGED <<notice, flag, tokenLock, cond, signals, won>>

TimeOut(t) ==
  /\ In(t, "wait", "sleeping")
  /\ ~flag
  /\ Move(t, "waking")
  /\ UNCHANGED <<notice, flag, tokenLock, cond, signals, won>>

Reenter(t) ==
  /\ In(t, "wait", "waking")
  /\ cond = NoThread
  /\ cond' = t
  /\ Move(t, "leaving")
  /\ UNCHANGED <<notice, flag, tokenLock, signals, won>>

LeaveWait(t) ==
  /\ In(t, "wait", "leaving")
  /\ cond' = NoThread
  /\ Pop(t)
  /\ UNCHANGED <<notice, flag, tokenLock, signals, won>>

-----------------------------------------------------------------------------
Running(t) ==
  \/ RefuseLater(t) \/ FindNone(t) \/ PublishNotice(t)
  \/ RaiseFlag(t) \/ FinishRequest(t)
  \/ WaitReturns(t) \/ Sleep(t) \/ Wake(t) \/ LeaveWait(t)

Acquiring(t) ==
  LockToken(t) \/ EnterSet(t) \/ ReadNotice(t) \/ EnterWait(t) \/ Reenter(t)

TokenNext ==
  \/ \E t \in Thread : \/ BeginRequest(t) \/ BeginNotice(t) \/ BeginWait(t)
                       \/ Running(t) \/ Acquiring(t) \/ TimeOut(t)
  \/ DeliverSignal

TokenSpec == TokenInit /\ [][TokenNext]_tokenVars

(* Threads keep running and no thread loses the race for a lock forever.   *)
(* Nothing obliges a wait to time out.                                     *)
TokenFairness == \A t \in Thread : WF_tokenVars(Running(t)) /\ SF_tokenVars(Acquiring(t))

TokenFairSpec == TokenSpec /\ TokenFairness

-----------------------------------------------------------------------------
(* The first request wins: its notice is never replaced, it is the only    *)
(* one whose caller is told so, and whoever sees the event set, or is woken *)
(* by it, finds that notice.                                               *)
FirstWriterWins ==
  /\ Len(won) <= 1
  /\ won # << >> => won[1] = notice
  /\ flag => notice # NoNotice

(* Where no handler runs on top of a call, a request in progress ends with *)
(* the event set, and once it is set no thread stays inside the token.     *)
CancellationSpreads ==
  [](signals = 0) => \A t \in Thread :
    /\ (\E at \in RequestSteps : In(t, "request", at)) ~> flag
    /\ (flag /\ stack[t] # << >>) ~> stack[t] = << >>

(* A delivered signal requests cancellation. *)
SignalCancels == signals > 0 ~> flag
=============================================================================

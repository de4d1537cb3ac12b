------------------------------ MODULE WebCalls ------------------------------
(* The calls of one browser tab to the gateway. Every handler of a page that *)
(* awaits apiFetch or apiUpload is an entry of `pending`: what it asked for, *)
(* and, once the server has dealt with it, the answer its continuation will  *)
(* run with. Calls overtake each other on the way there and on the way back. *)
EXTENDS Naturals

CONSTANTS
  MaxCalls, \* handlers that may be waiting at the same time
  None,     \* no value
  Sent,     \* the answer of a call that no server has seen yet
  Failed    \* no network, a timeout or a status that is not ok: ApiError

ASSUME CallsAssumption == Sent # Failed /\ MaxCalls \in Nat /\ MaxCalls >= 2

Calls == 1..MaxCalls

VARIABLE pending

Request(op, arg) == [op |-> op, arg |-> arg, ans |-> Sent]
\* Nobody waits.
NoCall == [op |-> "none", arg |-> None, ans |-> None]
NoCalls == [c \in Calls |-> NoCall]

\* A page that opens with these calls under way.
Opening(requests) ==
  [c \in Calls |-> IF c \in DOMAIN requests THEN requests[c] ELSE NoCall]

Idle(c) == pending[c].op = "none"
Waiting(c) == ~Idle(c) /\ pending[c].ans = Sent
Answered(c) == ~Idle(c) /\ pending[c].ans # Sent
Quiet == \A c \in Calls : Idle(c)

\* Which entry a handler gets makes no difference.
NextCall == CHOOSE c \in Calls : Idle(c)
CanCall == \E c \in Calls : Idle(c)

\* A handler comes to its (next) await, and a handler returns.
Await(c, op, arg) == pending' = [pending EXCEPT ![c] = Request(op, arg)]
Ask(op, arg) == CanCall /\ Await(NextCall, op, arg)
Return(c) == pending' = [pending EXCEPT ![c] = NoCall]

\* The server has dealt with the call, and its answer arrives or is lost.
Reply(c, ans) == \E a \in {ans, Failed} : pending' = [pending EXCEPT ![c].ans = a]
\* The call has not reached the server, or the server has refused it.
Refuse(c) == Waiting(c) /\ pending' = [pending EXCEPT ![c].ans = Failed]

Ok(c) == Answered(c) /\ pending[c].ans # Failed
=============================================================================

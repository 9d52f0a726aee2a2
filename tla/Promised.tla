------------------------------ MODULE Promised ------------------------------
(* What the browser's code is promised when it calls send() on
   RendererPromiseIpc: the call settles at most once; of its result it hears a
   first part, then the next one, none twice and none left out, and nothing
   before it was sent or after it settled; and once it is sent it settles,
   whatever becomes of the connection. *)
EXTENDS Naturals, Sequences

CONSTANT Promises

VARIABLES
  call,    \* Promises -> what has become of the call
  parts    \* Promises -> the parts of the result heard so far

vars == <<call, parts>>

Outcomes == {"none", "waiting", "open", "resolved", "rejected"}

Init ==
  /\ call = [p \in Promises |-> "none"]
  /\ parts = [p \in Promises |-> <<>>]

Move(p, from, to) ==
  /\ call[p] \in from
  /\ call' = [call EXCEPT ![p] = to]
  /\ UNCHANGED parts

Wait(p) == Move(p, {"none"}, "waiting")

Send(p) == Move(p, {"none", "waiting"}, "open")

Hear(p) ==
  /\ call[p] = "open"
  /\ parts' = [parts EXCEPT ![p] = Append(@, Len(@) + 1)]
  /\ UNCHANGED call

Resolve(p) == Move(p, {"open"}, "resolved")

Reject(p) == Move(p, {"open"}, "rejected")

Settle(p) == Resolve(p) \/ Reject(p)

Next == \E p \in Promises : Wait(p) \/ Send(p) \/ Hear(p) \/ Settle(p)

Spec ==
  /\ Init /\ [][Next]_vars
  /\ \A p \in Promises : WF_vars(Settle(p))
=============================================================================
